----------------------------- MODULE DurableRun -----------------------------
(***************************************************************************)
(* One Run of the durable mode: the handlers of DurableWorkflowService     *)
(* (durable_workflow.py), the worker that drives them (worker.py), the     *)
(* control, answer and approval endpoints, and the crashes and restarts of *)
(* the process.                                                            *)
(*                                                                         *)
(* The service is one process with one event loop: code between two        *)
(* suspension points runs alone.  The suspension points - work in a        *)
(* thread, waiting for the visibility lock, uploading an artifact while    *)
(* holding it, the worker resuming after its handler - are the states of   *)
(* `h` and `cb`; each action is the code from one of them to the next.     *)
(***************************************************************************)
EXTENDS RunStore, FiniteSets

CONSTANTS
  NeedsTask,      \* the request may leave the target or the i.i.d. question open
  NeedsPositive,  \* the engine may be unable to tell the positive class by itself
  Gated,          \* production_deploy = REQUIRE_APPROVAL, model exportable
  WrapsErrors,    \* the backend turns a callback's error into ModelTrainingError
  Controls,       \* the control commands clients send
  MaxControls, MaxCrashes, MaxFailures   \* bounds on commands, crashes, exceptions

ASSUME AttemptsAssumption == MaxAttempts \in Nat \ {0}

ASSUME FlagsAssumption ==
  /\ {NeedsTask, NeedsPositive, Gated, WrapsErrors} \subseteq BOOLEAN
  /\ Controls \subseteq {"PAUSE", "RESUME", "CANCEL"}
  /\ {MaxControls, MaxCrashes, MaxFailures} \subseteq Nat

VARIABLES
  db,     \* the SQLite file
  up,     \* the process is running
  poll,   \* the worker's poll loop is alive
  h,      \* run_once: the claimed job's ticket and handler
  cb,     \* the stage callback a backend thread is waiting for
  used    \* control commands, crashes and failures so far

vars == <<db, up, poll, h, cb, used>>

-----------------------------------------------------------------------------
(* The process. *)

NoTicket == [gen |-> 0, epoch |-> 0]
Nothing  == [kind |-> "none", step |-> "none", status |-> "none"]
COMPLETE == [kind |-> "complete", step |-> "none", status |-> "none"]
CHECKPOINT(step, status) == [kind |-> "checkpoint", step |-> step, status |-> status]
Raised(error) == [kind |-> error, step |-> "none", status |-> "none"]

Idle       == [pc |-> "idle", ticket |-> NoTicket, next |-> "none", verdict |-> Nothing]
At(pc)     == [h EXCEPT !.pc = pc]
Done(v)    == [h EXCEPT !.pc = "done", !.next = "none", !.verdict = v]
NoCallback == [pc |-> "none", phase |-> "PLAN"]

HandlerPcs == {"idle", "claimed", "profiling", "resolving", "starting", "training",
               "asking", "failing", "publishing", "done"}

(* The columns hold what the code writes, and no command is settled twice. *)
TypeOK ==
  /\ db \in Database
  /\ up \in BOOLEAN /\ poll \in BOOLEAN
  /\ h.pc \in HandlerPcs
  /\ h.ticket \in [gen: Nat, epoch: Nat]
  /\ h.next \in {"none", "PLAN", "TRAIN", "return"} \cup OutputTypes
  /\ h.verdict.kind \in {"none", "complete", "checkpoint", "error", "fence"}
  /\ cb \in [pc: {"none", "waiting", "writing"}, phase: {"PLAN", "TRAIN"}]
  /\ used \in [controls: 0..MaxControls, crashes: 0..MaxCrashes, failures: 0..MaxFailures]

Init ==
  /\ db = EmptyDatabase
  /\ up = TRUE /\ poll = TRUE
  /\ h = Idle /\ cb = NoCallback
  /\ used = [controls |-> 0, crashes |-> 0, failures |-> 0]

(* The visibility lock is held across a suspension only while a handler or *)
(* a callback uploads an artifact.                                         *)
LockFree == h.pc # "publishing" /\ cb.pc # "writing"

Passes(t) == FenceHolds(db.job, t.gen, t.epoch, 0)

(* The process dies: what is not in the file is gone. *)
Down ==
  /\ up' = FALSE /\ poll' = FALSE
  /\ h' = Idle /\ cb' = NoCallback
  /\ used' = [used EXCEPT !.crashes = @ + 1]

CrashDuring(ss) ==
  /\ used.crashes < MaxCrashes
  /\ \E i \in 1..(Len(ss) - 1) : db' = ss[i]
  /\ Down

(* A section of an endpoint, of the handler, of run_once after it. *)
ClientSection(ss) ==
  \/ db' = Final(ss) /\ UNCHANGED <<up, poll, h, cb, used>>
  \/ CrashDuring(ss)

HandlerSection(ss, g) ==
  \/ db' = Final(ss) /\ h' = g /\ UNCHANGED <<up, poll, cb, used>>
  \/ CrashDuring(ss)

WorkerSection(ss, alive) ==
  \/ db' = Final(ss) /\ h' = Idle /\ poll' = alive /\ UNCHANGED <<up, cb, used>>
  \/ CrashDuring(ss)

-----------------------------------------------------------------------------
(* Defective variants of actions below.  No specification uses them; the    *)
(* README lists which property each of them breaks.                         *)

RegisterBeforeDeciding ==
  /\ up
  /\ db.approval = "OPEN" /\ db.run.status = "WAITING_APPROVAL"
  /\ \E s \in {"APPROVED", "DECLINED", "EXPIRED"} :
       LET registered == Append(<<db>>, [db EXCEPT !.model = s = "APPROVED"])
           decided    == Append(registered, [Final(registered) EXCEPT !.approval = s])
       IN  ClientSection(IF s = "EXPIRED" THEN decided
                         ELSE Finalize(decided, "SUCCEEDED", s = "APPROVED"))

DispatchPausedAsDone ==
  /\ h.pc = "claimed"
  /\ h' = CASE db.run.status \in {"TERMINAL", "WAITING_APPROVAL", "PAUSED"} -> Done(COMPLETE)
            [] db.run.status = "WAITING_USER" -> Done(CHECKPOINT(db.job.step, "WAITING"))
            [] OTHER -> At(CASE db.job.step = "PROFILE"      -> "profiling"
                             [] db.job.step = "RESOLVE_TASK" -> "resolving"
                             [] db.job.step = "TRAIN"        -> "starting")
  /\ UNCHANGED <<db, up, poll, cb, used>>

ResolveTaskKeepingCommand ==
  /\ h.pc = "resolving" /\ LockFree
  /\ db.run.status # "TERMINAL"
  /\ LET queued == PutRun(<<db>>, [db.run EXCEPT !.phase = "PLAN", !.status = "QUEUED",
                                     !.actions = {"PAUSE", "CANCEL"}])
     IN  HandlerSection(IF db.run.answering THEN Settle(queued, "ANSWER") ELSE queued,
                        Done(CHECKPOINT("TRAIN", "READY")))

AskAndTrain ==
  /\ h.pc = "asking" /\ LockFree
  /\ HandlerSection(RequestDecision(<<db>>, "positive"), Done(CHECKPOINT("TRAIN", "WAITING")))

PublishStageFirst ==
  /\ cb.pc = "writing"
  /\ \/ /\ db' = Final(CommitOutputOnce(CompleteStage(<<db>>, "PLAN"), "SPLIT_MANIFEST"))
        /\ cb' = NoCallback
        /\ h' = [h EXCEPT !.next = IF h.pc = "training" THEN "TRAIN" ELSE h.next]
        /\ UNCHANGED <<up, poll, used>>
     \/ CrashDuring(CommitOutputOnce(CompleteStage(<<db>>, "PLAN"), "SPLIT_MANIFEST"))

RetrySilently(delay) == PutJob(<<db>>, Retried(db.job, 0, delay))

RestartWithoutRepair ==
  /\ ~up
  /\ up' = TRUE /\ poll' = TRUE
  /\ UNCHANGED <<db, h, cb, used>>

-----------------------------------------------------------------------------
(* The client. *)

(* create_run: the run, then its job. *)
CreateRun ==
  /\ up /\ db.run.status = "ABSENT"
  /\ \E known \in {{}, {"task"}} :
       /\ known = {} => NeedsTask
       /\ LET r == [db.run EXCEPT !.status = "QUEUED", !.actions = {"PAUSE", "CANCEL"},
                                  !.known = known]
          IN  ClientSection(PutJob(PutRun(<<db>>, r), NewJob("PROFILE", 0)))

(* The guards _control shares; the counter bounds how often clients try. *)
MayControl(c) ==
  /\ up /\ LockFree
  /\ c \in Controls /\ used.controls < MaxControls
  /\ db.run.status \notin {"ABSENT", "TERMINAL"}
  /\ c \in db.run.actions

ControlSection(ss) ==
  \/ /\ db' = Final(ss)
     /\ used' = [used EXCEPT !.controls = @ + 1]
     /\ UNCHANGED <<up, poll, h, cb>>
  \/ CrashDuring(ss)

Pause ==
  /\ MayControl("PAUSE") /\ db.run.status # "PAUSED"
  /\ LET r == [db.run EXCEPT !.status = "PAUSED", !.actions = {"RESUME", "CANCEL"}]
     IN  ControlSection(Settle(PutRun(Accept(<<db>>, "PAUSE"), r), "PAUSE"))

Resume ==
  /\ MayControl("RESUME") /\ db.run.status = "PAUSED"
  /\ LET asking == OpenPackets(db) # {}
         r == [db.run EXCEPT !.status = IF asking THEN "WAITING_USER" ELSE "RUNNING",
                             !.actions = {"PAUSE", "CANCEL"} \cup {c \in {"ANSWER"} : asking}]
     IN  ControlSection(Wake(Settle(PutRun(Accept(<<db>>, "RESUME"), r), "RESUME")))

(* Cancel supersedes the open packets before it finalizes; where a result  *)
(* exists already the finalization raises and the command stays RUNNING.   *)
Cancel ==
  /\ MayControl("CANCEL")
  /\ LET ps == [i \in DOMAIN db.packets |->
                  IF i \in OpenPackets(db) THEN [db.packets[i] EXCEPT !.status = "SUPERSEDED"]
                                           ELSE db.packets[i]]
         accepted   == Accept(<<db>>, "CANCEL")
         superseded == IF ps = db.packets THEN accepted ELSE PutPackets(accepted, ps)
     IN  ControlSection(IF db.result # NoResult THEN superseded
                        ELSE Wake(Settle(Finalize(superseded, "CANCELED", FALSE), "CANCEL")))

(* answer: the packet, the run, then the job; rejected answers write       *)
(* nothing.                                                                *)
Answer ==
  /\ up /\ LockFree
  /\ db.run.status = "WAITING_USER"
  /\ \E i \in OpenPackets(db) :
       LET accepted == Accept(<<db>>, "ANSWER")
           answered == PutPackets(accepted, Closing(db.packets, i, "ANSWERED"))
           r == [db.run EXCEPT !.status = "QUEUED", !.blocking = "none",
                               !.actions = {"PAUSE", "CANCEL"}, !.answering = TRUE,
                               !.known = @ \cup {db.packets[i].asks}]
       IN  ClientSection(Wake(PutRun(answered, r)))

(* decide_approval takes no lock.  "DECLINED" stands for REQUEST_CHANGES   *)
(* and REJECT; a decision after expires_at only marks the approval.        *)
Decided(s) == PutApproval(<<db>>, s)

(* An approved candidate is registered before the run is finalized. *)
Concluded(ss, s) ==
  Finalize(IF s = "APPROVED" THEN RegisterModel(ss) ELSE ss, "SUCCEEDED", s = "APPROVED")

DecideApproval ==
  /\ up
  /\ db.approval = "OPEN" /\ db.run.status = "WAITING_APPROVAL"
  /\ \/ ClientSection(Decided("EXPIRED"))
     \/ \E s \in {"APPROVED", "DECLINED"} : ClientSection(Concluded(Decided(s), s))

-----------------------------------------------------------------------------
(* run_once: claim, handler, verdict. *)

Claim ==
  /\ up /\ poll /\ h.pc = "idle"
  /\ db.job # NoJob
  /\ Claimable(db.job, 0)
  /\ LET j == Claimed(db.job, 0, 1)
     IN  /\ db' = [db EXCEPT !.job = j]
         /\ h' = [Idle EXCEPT !.pc = "claimed", !.ticket = [gen |-> j.gen, epoch |-> j.epoch]]
  /\ UNCHANGED <<up, poll, cb, used>>

(* The sweep inside a claim: nobody is told that the job is dead. *)
Sweep ==
  /\ up /\ poll /\ h.pc = "idle"
  /\ db.job # NoJob
  /\ Exhausted(db.job, 0)
  /\ db' = [db EXCEPT !.job = Swept(@, 0)]
  /\ UNCHANGED <<up, poll, h, cb, used>>

(* handle_execution_job up to the first suspension of the step's handler. *)
Dispatch ==
  /\ h.pc = "claimed"
  /\ h' = CASE db.run.status \in {"TERMINAL", "WAITING_APPROVAL"} -> Done(COMPLETE)
            [] db.run.status \in {"PAUSED", "WAITING_USER"} ->
                 Done(CHECKPOINT(db.job.step, "WAITING"))
            [] OTHER -> At(CASE db.job.step = "PROFILE"      -> "profiling"
                             [] db.job.step = "RESOLVE_TASK" -> "resolving"
                             [] db.job.step = "TRAIN"        -> "starting")
  /\ UNCHANGED <<db, up, poll, cb, used>>

(* The code that follows each lock acquisition: a TERMINAL run is complete. *)
FindsTerminal(pc) ==
  /\ h.pc = pc /\ LockFree
  /\ db.run.status = "TERMINAL"
  /\ h' = Done(COMPLETE)
  /\ UNCHANGED <<db, up, poll, cb, used>>

(* _execute_profile after the dataset was inspected in a thread. *)
CommitProfile ==
  /\ h.pc = "profiling" /\ LockFree
  /\ db.run.status # "TERMINAL"
  /\ LET running  == PutRun(<<db>>, [db.run EXCEPT !.phase = "PROFILE", !.status = "RUNNING"])
         reported == CommitOutput(CompleteStage(running, "INGEST"), "DATA_QUALITY_REPORT")
         profiled == CompleteStage(reported, "PROFILE")
         queued   == [Final(profiled).run EXCEPT !.phase = "PLAN", !.status = "QUEUED",
                                                 !.actions = {"PAUSE", "CANCEL"}]
     IN  IF "task" \in db.run.known
           THEN HandlerSection(PutRun(profiled, queued), Done(CHECKPOINT("TRAIN", "READY")))
           ELSE HandlerSection(RequestDecision(profiled, "task"),
                               Done(CHECKPOINT("RESOLVE_TASK", "WAITING")))

(* _execute_resolved_task settles the answer's command. *)
ResolveTask ==
  /\ h.pc = "resolving" /\ LockFree
  /\ db.run.status # "TERMINAL"
  /\ LET queued == PutRun(<<db>>, [db.run EXCEPT !.phase = "PLAN", !.status = "QUEUED",
                                     !.actions = {"PAUSE", "CANCEL"}, !.answering = FALSE])
     IN  HandlerSection(IF db.run.answering THEN Settle(queued, "ANSWER") ELSE queued,
                        Done(CHECKPOINT("TRAIN", "READY")))

(* _execute_training: up to the backend's thread ... *)
StartTraining ==
  /\ h.pc = "starting" /\ LockFree
  /\ db.run.status # "TERMINAL"
  /\ IF db.run.status = "PAUSED"
       THEN HandlerSection(<<db>>, Done(CHECKPOINT("TRAIN", "WAITING")))
       ELSE HandlerSection(PutRun(<<db>>, [db.run EXCEPT !.phase = "PLAN", !.status = "RUNNING"]),
                           [h EXCEPT !.pc = "training", !.next = "PLAN"])

(* ... its error paths ... *)
BackendThread(next) == h.pc = "training" /\ h.next = next /\ cb.pc = "none"

PositiveClassRequired ==
  /\ BackendThread("PLAN")
  /\ NeedsPositive /\ "positive" \notin db.run.known
  /\ h' = At("asking")
  /\ UNCHANGED <<db, up, poll, cb, used>>

AskPositiveClass ==
  /\ h.pc = "asking" /\ LockFree
  /\ HandlerSection(RequestDecision(<<db>>, "positive"),
                    Done(CHECKPOINT("RESOLVE_TASK", "WAITING")))

TrainingFails ==
  /\ \E n \in {"PLAN", "TRAIN", "return"} : BackendThread(n)
  /\ used.failures < MaxFailures
  /\ h' = At("failing")
  /\ used' = [used EXCEPT !.failures = @ + 1]
  /\ UNCHANGED <<db, up, poll, cb>>

FailTraining ==
  /\ h.pc = "failing" /\ LockFree
  /\ HandlerSection(FailRun(<<db>>),
                    Done(IF db.result = NoResult THEN COMPLETE ELSE Raised("error")))

(* ... and the publication of its result, under a fresh fence check. *)
BeginPublishing ==
  /\ BackendThread("return") /\ LockFree
  /\ h' = IF ~Passes(h.ticket) THEN Done(Raised("fence"))
          ELSE CASE db.run.status = "TERMINAL" -> Done(COMPLETE)
                 [] db.run.status = "PAUSED"   -> Done(CHECKPOINT("TRAIN", "WAITING"))
                 [] OTHER ->
                      IF 0 \in {db.outputs["TASK_SPEC"], db.outputs["SPLIT_MANIFEST"]}
                        THEN Done(Raised("error"))
                        ELSE [h EXCEPT !.pc = "publishing", !.next = "EVALUATION_REPORT"]
  /\ UNCHANGED <<db, up, poll, cb, used>>

(* _publish_result, one artifact upload at a time, with the lock held. *)
PublishOutput ==
  /\ h.pc = "publishing"
  /\ LET committed == CommitOutputOnce(<<db>>, h.next)
     IN  \/ /\ h.next = "EVALUATION_REPORT"
            /\ HandlerSection(TransitionTo(CompleteStage(committed, "EVALUATE"), "PACKAGE"),
                              [h EXCEPT !.next = "MODEL_CARD"])
         \/ /\ h.next = "MODEL_CARD"
            /\ HandlerSection(committed, [h EXCEPT !.next = "RUN_REPORT"])

(* The last upload's section also opens the approval or ends the run. *)
OpenApproval(ss) ==
  LET opened == IF db.approval = "OPEN" THEN ss ELSE PutApproval(ss, "OPEN")
  IN  PutRun(opened, [db.run EXCEPT !.phase = "PACKAGE", !.status = "WAITING_APPROVAL",
                                    !.outcome = "none", !.blocking = "approval",
                                    !.actions = {"APPROVE", "CANCEL"}])

EndUngated(ss) == Finalize(ss, "SUCCEEDED", FALSE)

ClosePublication ==
  /\ h.pc = "publishing" /\ h.next = "RUN_REPORT"
  /\ LET reported == CommitOutputOnce(<<db>>, "RUN_REPORT")
     IN  IF Gated
           THEN HandlerSection(OpenApproval(reported), Done(COMPLETE))
           ELSE HandlerSection(EndUngated(reported),
                               Done(IF db.result = NoResult THEN COMPLETE ELSE Raised("error")))

(* Any other exception: a dataset that is missing or unreadable, an upload  *)
(* that fails.                                                              *)
HandlerRaises ==
  /\ \/ h.pc \in {"profiling", "starting"}
     \/ \E n \in {"PLAN", "TRAIN", "return"} : BackendThread(n)
     \/ h.pc = "publishing" /\ h.next \in {"MODEL_CARD", "RUN_REPORT"}
  /\ used.failures < MaxFailures
  /\ h' = Done(Raised("error"))
  /\ used' = [used EXCEPT !.failures = @ + 1]
  /\ UNCHANGED <<db, up, poll, cb>>

(* run_once with the handler's verdict.  A lost fence ends the poll loop:  *)
(* JobFenceError is not caught anywhere above.                             *)
ApplyVerdict ==
  /\ h.pc = "done"
  /\ h.verdict.kind \in {"complete", "checkpoint"}
  /\ LET v == h.verdict
         j == IF v.kind = "complete" THEN Completed(db.job)
                                     ELSE Checkpointed(db.job, v.step, v.status, 0)
     IN  WorkerSection(IF Passes(h.ticket) THEN PutJob(<<db>>, j) ELSE <<db>>, Passes(h.ticket))

(* The error path: retry, and handle_dead_job when that was the last       *)
(* attempt; its _fail_run raises if a result exists.                       *)
AfterRetry(delay) ==
  LET j  == Retried(db.job, 0, delay)
      ss == PutJob(<<db>>, j)
  IN  IF j.status = "DEAD" /\ db.run.status # "TERMINAL" THEN FailRun(ss) ELSE ss

RetryAfterError ==
  /\ h.pc = "done" /\ h.verdict.kind = "error"
  /\ IF Passes(h.ticket)
       THEN WorkerSection(AfterRetry(1),
              Retried(db.job, 0, 1).status = "DEAD" /\ db.run.status # "TERMINAL"
                => db.result = NoResult)
       ELSE WorkerSection(<<db>>, FALSE)

FenceRaised ==
  /\ h.pc = "done" /\ h.verdict.kind = "fence"
  /\ WorkerSection(<<db>>, FALSE)

(* The heartbeat notices the lost fence first and cancels the handler. *)
HeartbeatFenced ==
  /\ h.pc \notin {"idle", "done"}
  /\ ~Passes(h.ticket)
  /\ WorkerSection(<<db>>, FALSE)

-----------------------------------------------------------------------------
(* Stage callbacks, from the backend's thread back to the event loop. *)

(* _publish_backend_stage renews the lease before it waits for the lock.   *)
(* A renewal that fails raises in the backend's thread.                    *)
CallBack(p) ==
  /\ BackendThread(p)
  /\ \/ /\ Passes(h.ticket)
        /\ cb' = [pc |-> "waiting", phase |-> p]
        /\ UNCHANGED h
     \/ /\ ~Passes(h.ticket)
        /\ h' = IF p = "TRAIN" /\ WrapsErrors THEN At("failing") ELSE Done(Raised("fence"))
        /\ UNCHANGED cb
  /\ UNCHANGED <<db, up, poll, used>>

(* The callback returns: the thread, if it is still waited for, goes on. *)
Return == [h EXCEPT !.next = IF h.pc # "training" THEN h.next
                             ELSE IF cb.phase = "PLAN" THEN "TRAIN" ELSE "return"]

CallbackSection(ss, c) ==
  \/ /\ db' = Final(ss) /\ cb' = c
     /\ h' = IF c = NoCallback THEN Return ELSE h
     /\ UNCHANGED <<up, poll, used>>
  \/ CrashDuring(ss)

CallbackFindsTerminal ==
  /\ cb.pc = "waiting" /\ LockFree
  /\ db.run.status = "TERMINAL"
  /\ CallbackSection(<<db>>, NoCallback)

(* PLAN: the task specification, then - after an upload with the lock held *)
(* - the split manifest.                                                   *)
PublishTask ==
  /\ cb.pc = "waiting" /\ cb.phase = "PLAN" /\ LockFree
  /\ db.run.status # "TERMINAL"
  /\ IF HasStage(db, "PLAN")
       THEN CallbackSection(TransitionTo(<<db>>, "TRAIN"), NoCallback)
       ELSE CallbackSection(CommitOutputOnce(<<db>>, "TASK_SPEC"), [cb EXCEPT !.pc = "writing"])

PublishSplit ==
  /\ cb.pc = "writing"
  /\ LET planned == CompleteStage(CommitOutputOnce(<<db>>, "SPLIT_MANIFEST"), "PLAN")
     IN  CallbackSection(TransitionTo(planned, "TRAIN"), NoCallback)

(* The split's upload fails: the lock is released, the exception reaches    *)
(* the backend's thread and through it the handler, if one still waits.     *)
SplitUploadFails ==
  /\ cb.pc = "writing"
  /\ used.failures < MaxFailures
  /\ cb' = NoCallback
  /\ h' = IF h.pc = "training" THEN Done(Raised("error")) ELSE h
  /\ used' = [used EXCEPT !.failures = @ + 1]
  /\ UNCHANGED <<db, up, poll>>

PublishTrials ==
  /\ cb.pc = "waiting" /\ cb.phase = "TRAIN" /\ LockFree
  /\ db.run.status # "TERMINAL"
  /\ LET tried   == CommitOutputOnce(CommitOutputOnce(<<db>>, "BASELINE_RESULT"), "TRIAL_RESULT")
         trained == IF HasStage(db, "TRAIN") THEN <<db>> ELSE CompleteStage(tried, "TRAIN")
     IN  CallbackSection(TransitionTo(trained, "EVALUATE"), NoCallback)

-----------------------------------------------------------------------------
(* Time, crashes and restarts. *)

BackoffElapses ==
  /\ db.job.status \in {"READY", "RETRY"} /\ db.job.avail > 0
  /\ db' = [db EXCEPT !.job.avail = 0]
  /\ UNCHANGED <<up, poll, h, cb, used>>

(* A lease runs out only while nobody renews it. *)
LeaseExpires ==
  /\ h.pc = "idle"
  /\ db.job.status = "LEASED" /\ db.job.expires > 0
  /\ db' = [db EXCEPT !.job.expires = 0]
  /\ UNCHANGED <<up, poll, h, cb, used>>

Crash ==
  /\ up /\ used.crashes < MaxCrashes
  /\ UNCHANGED db
  /\ Down

(* A graceful stop cancels run_once, which hands the job back first.  A     *)
(* callback that holds the lock may still write before the store closes; it *)
(* writes other rows than the stop does, so that is PublishSplit before it. *)
Stop ==
  /\ up /\ used.crashes < MaxCrashes
  /\ h.pc # "idle" /\ Passes(h.ticket)
  /\ db' = Final(AfterRetry(0))
  /\ Down

(* Startup: ensure_execution_jobs, then the poll loop. *)
Restart ==
  /\ ~up
  /\ db' = IF db.run.status \notin {"ABSENT", "TERMINAL"} /\ db.job = NoJob
             THEN [db EXCEPT !.job = NewJob("PROFILE", 0)] ELSE db
  /\ up' = TRUE /\ poll' = TRUE
  /\ UNCHANGED <<h, cb, used>>

-----------------------------------------------------------------------------
Client == CreateRun \/ Pause \/ Resume \/ Cancel \/ Answer \/ DecideApproval

Worker ==
  \/ Claim \/ Sweep \/ Dispatch
  \/ \E pc \in {"profiling", "resolving", "starting"} : FindsTerminal(pc)
  \/ CommitProfile \/ ResolveTask \/ StartTraining
  \/ PositiveClassRequired \/ AskPositiveClass \/ FailTraining
  \/ BeginPublishing \/ PublishOutput \/ ClosePublication
  \/ ApplyVerdict \/ RetryAfterError \/ FenceRaised \/ HeartbeatFenced
  \/ \E p \in {"PLAN", "TRAIN"} : CallBack(p)
  \/ CallbackFindsTerminal \/ PublishTask \/ PublishSplit \/ PublishTrials

Failure == TrainingFails \/ HandlerRaises \/ SplitUploadFails \/ Crash \/ Stop

Next == Client \/ Worker \/ Failure \/ BackoffElapses \/ LeaseExpires \/ Restart

Spec == Init /\ [][Next]_vars

(* The event loop runs every ready task, clocks advance, a stopped service *)
(* is started again, and a user asked a question answers it.               *)
Fairness ==
  /\ WF_vars(Worker) /\ WF_vars(BackoffElapses) /\ WF_vars(LeaseExpires)
  /\ WF_vars(Restart) /\ WF_vars(CreateRun) /\ WF_vars(Answer)

FairSpec == Spec /\ Fairness

-----------------------------------------------------------------------------
(* Safety *)

(* "Commit immutable result": finalize_run_with_result is reached from five *)
(* callers - cancel, approval, publication, failed training, dead job - at  *)
(* any distance from the check each made; the first result stands.          *)
ResultImmutable ==
  [][db.result # NoResult => db'.result = db.result]_vars

(* Result, terminal status and outcome become visible together (P-046), and *)
(* a terminal run offers no action and waits for nobody, wherever a crash   *)
(* cuts a handler or an endpoint.                                           *)
TerminalIsSettled ==
  db.run.status = "TERMINAL" =>
    /\ db.result # NoResult /\ db.result.outcome = db.run.outcome
    /\ db.run.actions = {} /\ db.run.blocking = "none"

(* Stage completions are published once each and in order (P-043), although *)
(* steps are retried from their start, callbacks come from threads and      *)
(* three different writers finish the last stage.                           *)
StagesInOrder ==
  /\ Len(db.stages) <= Len(Phases)
  /\ \A i \in DOMAIN db.stages : db.stages[i] = Phases[i]

(* Retries of PLAN to PACKAGE do not repeat an output (P-047).              *)
OneOutputPerType ==
  \A t \in OutputTypes \ {"DATA_QUALITY_REPORT"} : db.outputs[t] <= 1

(* The profile step has no such check: it writes its report once only while *)
(* the process survives from the report to the checkpoint.                  *)
OneQualityReport ==
  used.crashes = 0 => db.outputs["DATA_QUALITY_REPORT"] <= 1

(* A completed stage's outputs are durable before its event is.             *)
Evidence(p) == CASE p = "INGEST"   -> {}
                 [] p = "PROFILE"  -> {"DATA_QUALITY_REPORT"}
                 [] p = "PLAN"     -> {"TASK_SPEC", "SPLIT_MANIFEST"}
                 [] p = "TRAIN"    -> {"BASELINE_RESULT", "TRIAL_RESULT"}
                 [] p = "EVALUATE" -> {"EVALUATION_REPORT"}
                 [] p = "PACKAGE"  -> {"MODEL_CARD", "RUN_REPORT"}

StagesHaveEvidence ==
  \A i \in DOMAIN db.stages : \A t \in Evidence(db.stages[i]) : db.outputs[t] > 0

(* At most one open packet (invariant 3 of the design), and never beside a  *)
(* run that goes on without its answer.                                     *)
OpenPacketBlocks ==
  OpenPackets(db) # {} =>
    /\ Cardinality(OpenPackets(db)) = 1
    /\ db.run.status \in {"WAITING_USER", "PAUSED", "TERMINAL"}

(* No model is registered, or offered by a result, before a person approved *)
(* it; decide_approval writes the three resources one by one.               *)
OnlyApprovedModels ==
  /\ db.model => db.approval = "APPROVED"
  /\ db.result.eligible => db.model

(* A job is completed only when nothing is left to do: no run is abandoned  *)
(* by a handler that mistook a pause or a question for the end.             *)
CompletedJobEndsRun ==
  db.job.status = "COMPLETED" => db.run.status \in {"TERMINAL", "WAITING_APPROVAL"}

(* The next three hold until the process first stops: a crash or a stop     *)
(* inside one of the sections they speak of breaks each, for good.          *)

(* While the worker is idle, a run that is to go on has a job that will be  *)
(* claimed - no wake-up is lost between a command and a handler's verdict.  *)
RunnableRunHasWork ==
  used.crashes = 0 =>
    (up /\ h.pc = "idle" /\ db.run.status \in {"QUEUED", "RUNNING"} =>
       db.job.status \in {"READY", "RETRY"})

(* A run whose job died of its retries has been failed.                     *)
DeadJobFailsRun ==
  used.crashes = 0 => (db.job.status = "DEAD" => db.run.status = "TERMINAL")

(* A command is settled before the step it unblocks relies on it: training  *)
(* never runs beside an ANSWER command that still looks unprocessed.        *)
AnswersAppliedFirst ==
  used.crashes = 0 => (h.pc \in {"training", "publishing"} => db.unsettled["ANSWER"] = 0)

(* "After a pause the workflow is not scheduled further until it is         *)
(* resumed" (route reference, 4.22): only a command or a result ends PAUSED.*)
PausedStaysPaused ==
  [][db.run.status = "PAUSED" => db'.run.status \in {"PAUSED", "TERMINAL"} \/ used' # used]_vars

(* "The terminal state is irreversible" (design, invariant 1).              *)
TerminalIrreversible ==
  [][db.run.status = "TERMINAL" => db'.run.status = "TERMINAL"]_vars

-----------------------------------------------------------------------------
(* Liveness *)

(* Every run comes to rest: it ends, waits for an approval, or stays paused *)
(* until a client resumes it - so a resumed run goes on ("resume a paused   *)
(* Run", route reference, 4.23).                                            *)
RunEnds == <>[](db.run.status \in {"TERMINAL", "PAUSED", "WAITING_APPROVAL"})

(* The same while the poll loop survives or is restarted ("restarting the   *)
(* service restores that state and resumes non-terminal jobs", README): an  *)
(* uncaught JobFenceError ends the loop until then.                         *)
RunEndsWhilePolled == <>[]poll => RunEnds

(* What the code keeps of the two above.  Where the process is not stopped  *)
(* and the poll loop survives, answers, controls and failures leave no run  *)
(* behind.                                                                  *)
UncrashedRunEnds == [](used.crashes = 0) /\ <>[]poll => RunEnds

(* And whatever instruction a crash or a stop comes at, a run that is asked *)
(* nothing and commanded nothing ends, while the crashes and exceptions are *)
(* fewer than its job's attempts.                                           *)
LeftAlone ==
  /\ used.controls = 0 /\ db.unsettled = Zero(Commands)
  /\ db.packets = <<>> /\ db.run.status # "WAITING_USER"

UndisturbedRunEnds ==
  [](LeftAlone /\ used.crashes + used.failures < MaxAttempts) => RunEnds
=============================================================================
