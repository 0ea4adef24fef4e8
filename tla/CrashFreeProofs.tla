-------------------------- MODULE CrashFreeProofs --------------------------
(***************************************************************************)
(* What holds of the durable workflow until the process first dies: no     *)
(* wake-up is lost, a job that exhausts its attempts fails its run, the    *)
(* profile is reported once, and answers are settled before training.      *)
(* Each fails after a crash, so each is proved of the states with          *)
(* used.crashes = 0, for any request, attempts, commands and exceptions.   *)
(*                                                                         *)
(* CleanOK says why.  A handler at work either holds the lease or has lost *)
(* it to a wake-up, and losing it ends the poll loop: whatever the handler *)
(* then writes over an ended or a resumed run, nobody claims its job.  On  *)
(* the file's side only six quantities matter, so the sections are first   *)
(* reduced to what they do to those.                                       *)
(***************************************************************************)
EXTENDS DurableRunProofs, SequenceTheorems

Quality(d) == d.outputs["DATA_QUALITY_REPORT"]
Answers(d) == d.unsettled["ANSWER"]

Held  == Passes(h.ticket)
Going == db.run.status \in {"QUEUED", "RUNNING"}

(* The step the job is at once the handler's verdict is applied. *)
Checkpointing == h.pc = "done" /\ h.verdict.kind = "checkpoint"
StepAhead == IF Checkpointing THEN h.verdict.step ELSE db.job.step

CreatedOK ==
  /\ db.run.status = "ABSENT" => db.job = NoJob /\ Quality(db) = 0
  /\ db.run.status # "ABSENT" => db.job # NoJob

(* A lease has its handler.  A handler that has lost its lease lost it to a *)
(* wake-up, and so does the poll loop it ends.                              *)
LeaseOK ==
  /\ h.pc = "idle" => db.job.status # "LEASED"
  /\ h.pc # "idle" => poll /\ (Held \/ db.job.status = "READY")
  /\ ~poll => db.job.status = "READY"
  /\ h.verdict.kind = "fence" => ~Held
  /\ h.pc = "publishing" => Held

(* No job sleeps, or is about to, beside a run that goes on. *)
WorkOK ==
  /\ h.pc = "idle" /\ Going => db.job.status \in {"READY", "RETRY"}
  /\ Checkpointing /\ h.verdict.status = "WAITING" /\ Going => ~Held

(* An ended run is reopened only by a handler without a lease. *)
EndOK ==
  /\ db.job.status = "DEAD" => db.run.status = "TERMINAL"
  /\ h.pc \in Busy /\ db.run.status = "TERMINAL" => ~Held
  /\ db.result # NoResult /\ db.run.status # "TERMINAL" =>
       db.job.status = "READY" /\ (h.pc = "idle" => ~poll)

(* Handlers run the step of their job, and the steps follow the report, the *)
(* question and the answer.                                                 *)
StepsOK ==
  /\ h.pc = "profiling" => db.job.step = "PROFILE"
  /\ h.pc = "resolving" => db.job.step = "RESOLVE_TASK"
  /\ h.pc \in {"starting", "training", "asking", "failing", "publishing"} => db.job.step = "TRAIN"
  /\ poll /\ Quality(db) > 0 => StepAhead # "PROFILE"
  /\ poll /\ (~NoneOpen(db) \/ db.run.answering) => StepAhead = "RESOLVE_TASK"

(* One report; one answer at a time, and none before its question. *)
AnswerOK ==
  /\ Quality(db) <= 1
  /\ db.packets # <<>> => Quality(db) > 0
  /\ db.run.answering => NoneOpen(db) /\ db.packets # <<>>
  /\ Answers(db) = IF db.run.answering THEN 1 ELSE 0

CleanOK == up /\ CreatedOK /\ LeaseOK /\ WorkOK /\ EndOK /\ StepsOK /\ AnswerOK

CrashFree == used.crashes = 0 => CleanOK

-----------------------------------------------------------------------------
(* What sections do to the six quantities. *)

Columns == {"run", "job", "packets", "approval", "model", "result", "stages", "outputs",
            "announced", "unsettled"}

(* A row of the file, whatever its columns hold. *)
Row(d) ==
  /\ DOMAIN d = Columns
  /\ {"status", "answering"} \subseteq DOMAIN d.run
  /\ "DATA_QUALITY_REPORT" \in DOMAIN d.outputs
  /\ "ANSWER" \in DOMAIN d.unsettled

Chain(ss) == (\E S : ss \in Seq(S)) /\ ss # <<>> /\ Row(Final(ss))

(* Two rows that agree outside of what S names. *)
Apart(d, e, S) ==
  /\ "run" \in S \/ e.run = d.run
  /\ "job" \in S \/ e.job = d.job
  /\ "packets" \in S \/ e.packets = d.packets
  /\ "result" \in S \/ e.result = d.result
  /\ "quality" \in S \/ Quality(e) = Quality(d)
  /\ "answers" \in S \/ Answers(e) = Answers(d)

(* The file is a row, and a chain of one. *)
LEMMA ChainStarts ==
  ASSUME FileOK(db)
  PROVE  Row(db) /\ Chain(<<db>>) /\ Final(<<db>>) = db
<1>1. Row(db)
  <2>1. db \in Database /\ db.run \in Run /\ db.outputs \in [OutputTypes -> Nat]
        /\ db.unsettled \in [Commands -> Nat]
    BY Fields DEF FileOK
  <2>2. DOMAIN db = Columns
    BY <2>1 DEF Database, Columns
  <2>3. {"status", "answering"} \subseteq DOMAIN db.run
    BY <2>1 DEF Run
  <2>4. "DATA_QUALITY_REPORT" \in DOMAIN db.outputs /\ "ANSWER" \in DOMAIN db.unsettled
    BY <2>1 DEF OutputTypes, Commands
  <2>5. QED
    BY <2>2, <2>3, <2>4 DEF Row
<1>2. Final(<<db>>) = db /\ <<db>> # <<>> /\ <<db>> \in Seq({db})
  BY DEF Final
<1>3. QED
  BY <1>1, <1>2 DEF Chain

(* One more row. *)
LEMMA ChainGrows ==
  ASSUME NEW ss, Chain(ss), NEW d, Row(d)
  PROVE  Chain(Append(ss, d)) /\ Final(Append(ss, d)) = d
<1>1. PICK S : ss \in Seq(S)
  BY DEF Chain
<1> DEFINE T == S \cup {d}
<1>2. ss \in Seq(T)
  BY <1>1, SeqMonotonic
<1>3. d \in T
  OBVIOUS
<1> HIDE DEF T
<1>4. /\ Append(ss, d) \in Seq(T) /\ Append(ss, d) # <<>> /\ Len(Append(ss, d)) = Len(ss) + 1
      /\ Append(ss, d)[Len(ss) + 1] = d
  BY <1>2, <1>3
<1>5. Final(Append(ss, d)) = d
  BY <1>4 DEF Final
<1>6. QED
  BY <1>4, <1>5 DEF Chain

(* An output's row and its event. *)
LEMMA ChainOfTwo ==
  ASSUME NEW ss, Chain(ss), NEW d, Row(d), NEW e, Row(e)
  PROVE  Chain(ss \o <<d, e>>) /\ Final(ss \o <<d, e>>) = e
<1>1. PICK S : ss \in Seq(S)
  BY DEF Chain
<1> DEFINE T == S \cup {d, e}
<1>2. ss \in Seq(T) /\ <<d, e>> \in Seq(T)
  BY <1>1, SeqMonotonic
<1> HIDE DEF T
<1>3. /\ ss \o <<d, e>> \in Seq(T) /\ Len(ss \o <<d, e>>) = Len(ss) + 2 /\ Len(ss) \in Nat
      /\ (ss \o <<d, e>>)[Len(ss) + 2] = e
  BY <1>2
<1>4. ss \o <<d, e>> # <<>> /\ Final(ss \o <<d, e>>) = e
  BY <1>3 DEF Final
<1>5. QED
  BY <1>3, <1>4 DEF Chain

(* The run's row. *)
LEMMA RunPut ==
  ASSUME NEW ss, Chain(ss), NEW r, {"status", "answering"} \subseteq DOMAIN r
  PROVE  LET tt == PutRun(ss, r) IN
         Chain(tt) /\ Final(tt).run = r /\ Apart(Final(ss), Final(tt), {"run"})
<1> DEFINE d == Final(ss)
           e == [d EXCEPT !.run = r]
<1>1. Row(d)
  BY DEF Chain
<1>2. Row(e) /\ e.run = r /\ Apart(d, e, {"run"})
  BY <1>1 DEF Row, Columns, Apart, Quality, Answers
<1>3. PutRun(ss, r) = Append(ss, e)
  BY DEF PutRun
<1> HIDE DEF e
<1>4. QED
  BY <1>2, <1>3, ChainGrows

(* The job's row. *)
LEMMA JobRowPut ==
  ASSUME NEW ss, Chain(ss), NEW j
  PROVE  LET tt == PutJob(ss, j) IN
         Chain(tt) /\ Final(tt).job = j /\ Apart(Final(ss), Final(tt), {"job"})
<1> DEFINE d == Final(ss)
           e == [d EXCEPT !.job = j]
<1>1. Row(d)
  BY DEF Chain
<1>2. Row(e) /\ e.job = j /\ Apart(d, e, {"job"})
  BY <1>1 DEF Row, Columns, Apart, Quality, Answers
<1>3. PutJob(ss, j) = Append(ss, e)
  BY DEF PutJob
<1> HIDE DEF e
<1>4. QED
  BY <1>2, <1>3, ChainGrows

(* The packets. *)
LEMMA PacketRowsPut ==
  ASSUME NEW ss, Chain(ss), NEW ps
  PROVE  LET tt == PutPackets(ss, ps) IN
         Chain(tt) /\ Final(tt).packets = ps /\ Apart(Final(ss), Final(tt), {"packets"})
<1> DEFINE d == Final(ss)
           e == [d EXCEPT !.packets = ps]
<1>1. Row(d)
  BY DEF Chain
<1>2. Row(e) /\ e.packets = ps /\ Apart(d, e, {"packets"})
  BY <1>1 DEF Row, Columns, Apart, Quality, Answers
<1>3. PutPackets(ss, ps) = Append(ss, e)
  BY DEF PutPackets
<1> HIDE DEF e
<1>4. QED
  BY <1>2, <1>3, ChainGrows

(* The approval and the model are none of the six. *)
LEMMA ApprovalRowPut ==
  ASSUME NEW ss, Chain(ss), NEW s
  PROVE  LET tt == PutApproval(ss, s) IN Chain(tt) /\ Apart(Final(ss), Final(tt), {})
<1> DEFINE d == Final(ss)
           e == [d EXCEPT !.approval = s]
<1>1. Row(d)
  BY DEF Chain
<1>2. Row(e) /\ Apart(d, e, {})
  BY <1>1 DEF Row, Columns, Apart, Quality, Answers
<1>3. PutApproval(ss, s) = Append(ss, e)
  BY DEF PutApproval
<1> HIDE DEF e
<1>4. QED
  BY <1>2, <1>3, ChainGrows

(* Registering the model. *)
LEMMA ModelRowPut ==
  ASSUME NEW ss, Chain(ss)
  PROVE  LET tt == RegisterModel(ss) IN Chain(tt) /\ Apart(Final(ss), Final(tt), {})
<1> DEFINE d == Final(ss)
           e == [d EXCEPT !.model = TRUE]
<1>1. Row(d)
  BY DEF Chain
<1>2. Row(e) /\ Apart(d, e, {})
  BY <1>1 DEF Row, Columns, Apart, Quality, Answers
<1>3. RegisterModel(ss) = Append(ss, e)
  BY DEF RegisterModel
<1> HIDE DEF e
<1>4. QED
  BY <1>2, <1>3, ChainGrows

(* A command is accepted; only ANSWER commands are counted. *)
LEMMA CommandPut ==
  ASSUME NEW ss, Chain(ss), NEW c
  PROVE  LET tt == Accept(ss, c) IN
         /\ Chain(tt) /\ Apart(Final(ss), Final(tt), {"answers"})
         /\ Answers(Final(tt)) = IF c = "ANSWER" THEN Answers(Final(ss)) + 1 ELSE Answers(Final(ss))
<1> DEFINE d == Final(ss)
           e == [d EXCEPT !.unsettled[c] = @ + 1]
<1>1. Row(d)
  BY DEF Chain
<1>2. /\ Row(e) /\ Apart(d, e, {"answers"})
      /\ Answers(e) = IF c = "ANSWER" THEN Answers(d) + 1 ELSE Answers(d)
  BY <1>1 DEF Row, Columns, Apart, Quality, Answers
<1>3. Accept(ss, c) = Append(ss, e)
  BY DEF Accept
<1> HIDE DEF e
<1>4. QED
  BY <1>2, <1>3, ChainGrows

(* A command is settled. *)
LEMMA CommandTaken ==
  ASSUME NEW ss, Chain(ss), NEW c
  PROVE  LET tt == Settle(ss, c) IN
         /\ Chain(tt) /\ Apart(Final(ss), Final(tt), {"answers"})
         /\ Answers(Final(tt)) = IF c = "ANSWER" THEN Answers(Final(ss)) - 1 ELSE Answers(Final(ss))
<1> DEFINE d == Final(ss)
           e == [d EXCEPT !.unsettled[c] = @ - 1]
<1>1. Row(d)
  BY DEF Chain
<1>2. /\ Row(e) /\ Apart(d, e, {"answers"})
      /\ Answers(e) = IF c = "ANSWER" THEN Answers(d) - 1 ELSE Answers(d)
  BY <1>1 DEF Row, Columns, Apart, Quality, Answers
<1>3. Settle(ss, c) = Append(ss, e)
  BY DEF Settle
<1> HIDE DEF e
<1>4. QED
  BY <1>2, <1>3, ChainGrows

(* An output of another type than the report. *)
LEMMA OtherOutput ==
  ASSUME NEW ss, Chain(ss), NEW t, t # "DATA_QUALITY_REPORT"
  PROVE  LET tt == CommitOutputOnce(ss, t) IN Chain(tt) /\ Apart(Final(ss), Final(tt), {})
<1> DEFINE d == Final(ss)
           stored == [d EXCEPT !.outputs[t] = @ + 1]
           e == [stored EXCEPT !.announced[t] = @ + 1]
<1>1. Row(d)
  BY DEF Chain
<1>2. Row(stored) /\ Apart(d, stored, {})
  BY <1>1 DEF Row, Columns, Apart, Quality, Answers
<1> HIDE DEF stored
<1>3. Row(e) /\ Apart(stored, e, {})
  BY <1>2 DEF Row, Columns, Apart, Quality, Answers
<1> HIDE DEF e
<1>4. Chain(ss \o <<stored, e>>) /\ Final(ss \o <<stored, e>>) = e
  BY <1>2, <1>3, ChainOfTwo
<1>5. CommitOutputOnce(ss, t) \in {ss, ss \o <<stored, e>>}
  BY DEF CommitOutputOnce, CommitOutput, stored, e
<1>6. Apart(d, e, {})
  BY <1>2, <1>3 DEF Apart
<1>7. Apart(d, d, {})
  BY DEF Apart
<1>8. QED
  BY <1>4, <1>5, <1>6, <1>7

(* The report is one more. *)
LEMMA Reported ==
  ASSUME NEW ss, Chain(ss)
  PROVE  LET tt == CommitOutput(ss, "DATA_QUALITY_REPORT") IN
         /\ Chain(tt) /\ Apart(Final(ss), Final(tt), {"quality"})
         /\ Quality(Final(tt)) = Quality(Final(ss)) + 1
<1> DEFINE t == "DATA_QUALITY_REPORT"
           d == Final(ss)
           stored == [d EXCEPT !.outputs[t] = @ + 1]
           e == [stored EXCEPT !.announced[t] = @ + 1]
<1>1. Row(d)
  BY DEF Chain
<1>2. Row(stored) /\ Apart(d, stored, {"quality"}) /\ Quality(stored) = Quality(d) + 1
  BY <1>1 DEF Row, Columns, Apart, Quality, Answers
<1> HIDE DEF stored
<1>3. Row(e) /\ Apart(stored, e, {})
  BY <1>2 DEF Row, Columns, Apart, Quality, Answers
<1> HIDE DEF e
<1>4. Chain(ss \o <<stored, e>>) /\ Final(ss \o <<stored, e>>) = e
  BY <1>2, <1>3, ChainOfTwo
<1>5. CommitOutput(ss, t) = ss \o <<stored, e>>
  BY DEF CommitOutput, stored, e
<1>6. QED
  BY <1>2, <1>3, <1>4, <1>5 DEF Apart

(* A stage completion. *)
LEMMA StageRow ==
  ASSUME NEW ss, Chain(ss), NEW p
  PROVE  LET tt == CompleteStage(ss, p) IN Chain(tt) /\ Apart(Final(ss), Final(tt), {})
<1> DEFINE d == Final(ss)
           e == [d EXCEPT !.stages = Append(@, p)]
<1>1. Row(d)
  BY DEF Chain
<1>2. Row(e) /\ Apart(d, e, {}) /\ Apart(d, d, {})
  BY <1>1 DEF Row, Columns, Apart, Quality, Answers
<1>3. CompleteStage(ss, p) \in {ss, Append(ss, e)}
  BY DEF CompleteStage
<1> HIDE DEF e
<1>4. Chain(Append(ss, e)) /\ Final(Append(ss, e)) = e
  BY <1>2, ChainGrows
<1>5. QED
  BY <1>2, <1>3, <1>4

(* A later phase, and RUNNING. *)
LEMMA PhaseRow ==
  ASSUME NEW ss, Chain(ss), NEW p
  PROVE  LET tt == TransitionTo(ss, p)
             d == Final(ss)
             e == Final(tt)
         IN  /\ Chain(tt) /\ Apart(d, e, {"run"})
             /\ e.run.status \in {d.run.status, "RUNNING"} /\ e.run.answering = d.run.answering
<1> DEFINE d == Final(ss)
           r == [d.run EXCEPT !.phase = p, !.status = "RUNNING"]
<1>1. {"status", "answering"} \subseteq DOMAIN r
      /\ r.status = "RUNNING" /\ r.answering = d.run.answering
  BY DEF Chain, Row
<1>2. TransitionTo(ss, p) \in {ss, PutRun(ss, r)}
  BY DEF TransitionTo
<1>3. Apart(d, d, {"run"})
  BY DEF Apart
<1> HIDE DEF r
<1>4. Chain(PutRun(ss, r)) /\ Final(PutRun(ss, r)).run = r /\ Apart(d, Final(PutRun(ss, r)), {"run"})
  BY <1>1, RunPut
<1>5. CASE TransitionTo(ss, p) = ss
  BY <1>3, <1>5
<1>6. CASE TransitionTo(ss, p) = PutRun(ss, r)
  BY <1>1, <1>4, <1>6
<1>7. QED
  BY <1>2, <1>5, <1>6

(* A question. *)
LEMMA Asked ==
  ASSUME NEW ss, Chain(ss), NEW topic
  PROVE  LET tt == RequestDecision(ss, topic)
             d == Final(ss)
             e == Final(tt)
         IN  /\ Chain(tt) /\ Apart(d, e, {"run", "packets"})
             /\ e.run.status = "WAITING_USER" /\ e.run.answering = d.run.answering
             /\ e.packets = Append(d.packets, [asks |-> topic, status |-> "OPEN"])
<1> DEFINE d == Final(ss)
           r == [d.run EXCEPT !.phase = "PLAN", !.status = "WAITING_USER", !.blocking = "packet",
                              !.actions = {"ANSWER", "PAUSE", "CANCEL"}]
           waiting == PutRun(ss, r)
           ps == Append(d.packets, [asks |-> topic, status |-> "OPEN"])
           tt == PutPackets(waiting, ps)
<1>1. {"status", "answering"} \subseteq DOMAIN r
      /\ r.status = "WAITING_USER" /\ r.answering = d.run.answering
  BY DEF Chain, Row
<1> HIDE DEF r
<1>2. Chain(waiting) /\ Final(waiting).run = r /\ Apart(d, Final(waiting), {"run"})
  BY <1>1, RunPut
<1>3. RequestDecision(ss, topic) = PutPackets(waiting, Append(Final(waiting).packets,
                                                              [asks |-> topic, status |-> "OPEN"]))
  BY DEF RequestDecision, NewPacket, r
<1>4. RequestDecision(ss, topic) = tt
  BY <1>2, <1>3 DEF Apart
<1> HIDE DEF waiting, ps
<1>5. Chain(tt) /\ Final(tt).packets = ps /\ Apart(Final(waiting), Final(tt), {"packets"})
  BY <1>2, PacketRowsPut
<1>6. Apart(d, Final(tt), {"run", "packets"}) /\ Final(tt).run = r
  BY <1>2, <1>5 DEF Apart
<1>7. QED
  BY <1>1, <1>4, <1>5, <1>6 DEF ps

(* The run ends here, unless it has a result. *)
Ends(d, e) ==
  /\ Apart(d, e, {"run", "result"})
  /\ e.result # NoResult /\ e.run.answering = d.run.answering
  /\ d.result # NoResult => e.run = d.run /\ e.result = d.result
  /\ d.result = NoResult => e.run.status = "TERMINAL"

(* The result, unless there is one. *)
LEMMA ResultPut ==
  ASSUME NEW ss, Chain(ss), NEW outcome, NEW eligible, outcome # "none"
  PROVE  LET tt == Finalize(ss, outcome, eligible) IN Chain(tt) /\ Ends(Final(ss), Final(tt))
<1> DEFINE d == Final(ss)
           done == outcome = "SUCCEEDED"
           phase == IF done THEN "PACKAGE" ELSE d.run.phase
           run == [d.run EXCEPT !.status = "TERMINAL", !.outcome = outcome, !.actions = {},
                                !.blocking = "none", !.phase = phase]
           result == [outcome |-> outcome, eligible |-> eligible]
           stages == IF done THEN Append(d.stages, "PACKAGE") ELSE d.stages
           e == [d EXCEPT !.result = result, !.run = run, !.stages = stages]
<1>1. Row(d)
  BY DEF Chain
<1>2. CASE d.result # NoResult
  <2>1. Finalize(ss, outcome, eligible) = ss
    BY <1>2 DEF Finalize
  <2>2. QED
    BY <1>2, <2>1 DEF Apart, Ends
<1>3. CASE d.result = NoResult
  <2>1. run.status = "TERMINAL" /\ run.answering = d.run.answering
        /\ {"status", "answering"} \subseteq DOMAIN run
    BY <1>1 DEF Row
  <2>2. result # NoResult
    BY DEF NoResult
  <2>3. Finalize(ss, outcome, eligible) = Append(ss, e)
    BY <1>3 DEF Finalize
  <2> HIDE DEF run, result, stages
  <2>4. Row(e) /\ e.run = run /\ e.result = result /\ Apart(d, e, {"run", "result"})
    BY <1>1, <2>1 DEF Row, Columns, Apart, Quality, Answers
  <2> HIDE DEF e
  <2>5. Chain(Append(ss, e)) /\ Final(Append(ss, e)) = e
    BY <2>4, ChainGrows
  <2>6. QED
    BY <1>3, <2>1, <2>2, <2>3, <2>4, <2>5 DEF Ends
<1>4. QED
  BY <1>2, <1>3

(* The same with a failure report before it. *)
LEMMA GivenUp ==
  ASSUME NEW ss, Chain(ss)
  PROVE  LET tt == FailRun(ss) IN Chain(tt) /\ Ends(Final(ss), Final(tt))
<1> DEFINE reported == CommitOutputOnce(ss, "FAILURE_REPORT")
           tt == Finalize(reported, "FAILED", FALSE)
<1>1. Chain(reported) /\ Apart(Final(ss), Final(reported), {})
  BY OtherOutput
<1>2. FailRun(ss) = tt
  BY DEF FailRun
<1> HIDE DEF reported
<1>3. Chain(tt) /\ Ends(Final(reported), Final(tt))
  BY <1>1, ResultPut
<1> HIDE DEF tt
<1>4. Ends(Final(ss), Final(tt))
  BY <1>1, <1>3 DEF Apart, Ends
<1>5. QED
  BY <1>2, <1>3, <1>4

(* A row is a row. *)
LEMMA NotNoJob ==
  ASSUME NEW j \in Job
  PROVE  j # NoJob
BY DEF Job, NoJob

(* The wake-up, unless the job is closed or not there. *)
LEMMA Awake ==
  ASSUME NEW ss, Chain(ss), Final(ss).job \in Job \cup {NoJob}
  PROVE  LET tt == Wake(ss)
             d == Final(ss)
             e == Final(tt)
         IN  /\ Chain(tt) /\ Apart(d, e, {"job"})
             /\ d.job = NoJob \/ d.job.status \in Closed => e.job = d.job
             /\ d.job # NoJob /\ d.job.status \notin Closed =>
                  /\ e.job \in Job /\ e.job # NoJob
                  /\ e.job.status = "READY" /\ e.job.step = d.job.step
<1> DEFINE d == Final(ss)
           j == Woken(d.job, 0)
<1>1. CASE d.job = NoJob \/ d.job.status \in Closed
  <2>1. Wake(ss) = ss
    BY <1>1 DEF Wake
  <2>2. QED
    BY <1>1, <2>1 DEF Apart
<1>2. CASE d.job # NoJob /\ d.job.status \notin Closed
  <2>1. d.job \in Job
    BY <1>2
  <2>2. j \in Job /\ j.status = "READY" /\ j.step = d.job.step
    BY <2>1, JobOperations
  <2>3. Wake(ss) = PutJob(ss, j)
    BY <1>2 DEF Wake
  <2> HIDE DEF j
  <2>4. Chain(PutJob(ss, j)) /\ Final(PutJob(ss, j)).job = j /\ Apart(d, Final(PutJob(ss, j)), {"job"})
    BY JobRowPut
  <2>5. j # NoJob
    BY <2>2, NotNoJob
  <2>6. QED
    BY <1>2, <2>2, <2>3, <2>4, <2>5
<1>3. QED
  BY <1>1, <1>2

-----------------------------------------------------------------------------
(* Leases, handlers, and steps that are not a crash. *)

(* The lease goes with the job's row and the handler's ticket. *)
LEMMA HeldSays ==
  /\ Held => db.job.status = "LEASED"
  /\ db'.job = db.job /\ h'.ticket = h.ticket => (Held' <=> Held)
  /\ db'.job.status # "LEASED" => ~Held'
BY DEF Held, Passes, FenceHolds, LeaseLive, Leased

(* A handler keeps its ticket. *)
LEMMA HandlerRow ==
  ASSUME h \in Handlers
  PROVE  /\ \A v : Done(v).pc = "done" /\ Done(v).verdict = v /\ Done(v).ticket = h.ticket
         /\ \A pc : At(pc).pc = pc /\ At(pc).verdict = h.verdict /\ At(pc).ticket = h.ticket
         /\ \A pc, n : LET g == [h EXCEPT !.pc = pc, !.next = n]
                       IN  g.pc = pc /\ g.verdict = h.verdict /\ g.ticket = h.ticket
         /\ \A n : LET g == [h EXCEPT !.next = n]
                   IN  g.pc = h.pc /\ g.verdict = h.verdict /\ g.ticket = h.ticket
BY DEF Handlers, Done, At

(* The verdicts. *)
LEMMA VerdictRow ==
  /\ COMPLETE.kind = "complete" /\ Nothing.kind = "none"
  /\ \A s, status : LET v == CHECKPOINT(s, status)
                    IN  v.kind = "checkpoint" /\ v.step = s /\ v.status = status
  /\ \A error : Raised(error).kind = error
BY DEF COMPLETE, Nothing, CHECKPOINT, Raised

(* What a clean state says, with the types its parts need. *)
LEMMA CleanFinds ==
  ASSUME IInv, CleanOK
  PROVE  /\ up /\ CreatedOK /\ LeaseOK /\ WorkOK /\ EndOK /\ StepsOK /\ AnswerOK
         /\ Chain(<<db>>) /\ Final(<<db>>) = db /\ FileOK(db)
         /\ Quality(db) \in Nat /\ Answers(db) \in Nat /\ db.packets \in Seq(Packet)
         /\ h \in Handlers /\ db.job \in Job \cup {NoJob}
         /\ h.pc \in Busy => NoneOpen(db) /\ h.pc # "idle" /\ h.pc # "done"
         /\ h.pc # "idle" => /\ db.job # NoJob /\ db.job \in Job /\ db.job.status \notin Closed
                             /\ db.run.status # "ABSENT" /\ poll
         /\ h.verdict.kind \in {"complete", "checkpoint"} => h.pc = "done"
<1>1. /\ up /\ CreatedOK /\ LeaseOK /\ WorkOK /\ EndOK /\ StepsOK /\ AnswerOK
  BY DEF CleanOK
<1>2. /\ FileOK(db) /\ h \in Handlers /\ db \in Database
      /\ h.pc \in Busy => NoneOpen(db)
      /\ h.pc # "idle" => db.job # NoJob /\ db.job \in Job /\ db.job.status \notin Closed
  BY Working DEF FileOK
<1>3. Chain(<<db>>) /\ Final(<<db>>) = db
  BY <1>2, ChainStarts
<1>4. Quality(db) \in Nat /\ Answers(db) \in Nat /\ db.packets \in Seq(Packet)
      /\ db.job \in Job \cup {NoJob}
  BY <1>2, Fields DEF Quality, Answers, OutputTypes, Commands
<1>5. h.pc \in Busy => h.pc # "idle" /\ h.pc # "done"
  BY DEF Busy
<1>6. h.pc # "idle" => db.run.status # "ABSENT" /\ poll
  BY <1>1, <1>2 DEF CreatedOK, LeaseOK
<1>7. h.verdict.kind \in {"complete", "checkpoint"} => h.pc = "done"
  BY DEF IInv, ProcessOK, VerdictOK
<1>8. QED
  BY <1>1, <1>2, <1>3, <1>4, <1>5, <1>6, <1>7

(* Nothing a clean state speaks of has changed. *)
LEMMA CleanStays ==
  ASSUME CleanOK, UNCHANGED <<db, up, poll, h>>
  PROVE  CleanOK'
BY DEF CleanOK, CreatedOK, LeaseOK, WorkOK, EndOK, StepsOK, AnswerOK, Held, Passes, Going,
       Checkpointing, StepAhead

(* A client's request: the job is as it was, or woken. *)
LEMMA ClientClean ==
  ASSUME IInv, CleanOK, UNCHANGED <<up, poll, h>>,
         db.run.status \notin {"ABSENT", "TERMINAL"}, db'.run.status # "ABSENT",
         \/ db'.job = db.job
         \/ /\ db'.job # NoJob /\ db'.job.status = "READY" /\ db'.job.step = db.job.step
            /\ h.pc # "publishing",
         Quality(db') = Quality(db),
         Going' => db'.job.status = "READY" \/ (Going /\ db'.job = db.job),
         db'.result = db.result \/ db'.run.status = "TERMINAL",
         h.pc \in Busy /\ db'.run.status = "TERMINAL" => db'.job.status = "READY",
         poll /\ (~NoneOpen(db') \/ db'.run.answering) => StepAhead = "RESOLVE_TASK",
         AnswerOK'
  PROVE  CleanOK'
<1>1. /\ up /\ CreatedOK /\ LeaseOK /\ WorkOK /\ EndOK /\ StepsOK
  BY DEF CleanOK
<1>2. /\ db'.job = db.job => (Held' <=> Held)
      /\ db'.job.status = "READY" => ~Held'
      /\ Held => db.job.status = "LEASED"
  BY HeldSays
<1>3. CreatedOK'
  BY <1>1 DEF CreatedOK
<1>4. LeaseOK'
  BY <1>1, <1>2 DEF LeaseOK
<1>5. Checkpointing' = Checkpointing
  BY DEF Checkpointing
<1>6. WorkOK'
  <2>1. h.pc = "idle" /\ Going' => db'.job.status \in {"READY", "RETRY"}
    BY <1>1 DEF WorkOK
  <2>2. Checkpointing /\ h.verdict.status = "WAITING" /\ Going' => ~Held'
    BY <1>1, <1>2 DEF WorkOK
  <2>3. QED
    BY <1>5, <2>1, <2>2 DEF WorkOK
<1>7. EndOK'
  BY <1>1, <1>2 DEF EndOK
<1>8. StepsOK'
  <2>1. db'.job.step = db.job.step
    OBVIOUS
  <2>2. StepAhead' = StepAhead
    BY <1>5, <2>1 DEF StepAhead
  <2>3. QED
    BY <1>1, <2>1, <2>2 DEF StepsOK
<1>9. QED
  BY <1>1, <1>3, <1>4, <1>6, <1>7, <1>8 DEF CleanOK

(* A handler's step: the job's row is not touched. *)
LEMMA HandlerClean ==
  ASSUME IInv, CleanOK, UNCHANGED <<up, poll>>, h.pc # "idle", h'.pc # "idle", h'.ticket = h.ticket,
         db'.job = db.job, db'.run.status # "ABSENT",
         h'.verdict.kind = "fence" => ~Held,
         h'.pc = "publishing" => Held,
         Checkpointing' /\ h'.verdict.status = "WAITING" /\ Going' => ~Held,
         h'.pc \in Busy /\ db'.run.status = "TERMINAL" => ~Held,
         db'.result # NoResult /\ db'.run.status # "TERMINAL" => db.job.status = "READY",
         StepsOK', AnswerOK'
  PROVE  CleanOK'
<1>1. /\ up /\ CreatedOK /\ LeaseOK /\ WorkOK /\ EndOK
      /\ db.job # NoJob /\ db.job.status \notin Closed
  BY CleanFinds
<1>2. (Held' <=> Held) /\ (Held => db.job.status = "LEASED")
  BY HeldSays
<1>3. CreatedOK'
  BY <1>1 DEF CreatedOK
<1>4. LeaseOK'
  BY <1>1, <1>2 DEF LeaseOK
<1>5. WorkOK'
  BY <1>1, <1>2 DEF WorkOK
<1>6. EndOK'
  BY <1>1, <1>2 DEF EndOK, Closed
<1>7. QED
  BY <1>1, <1>3, <1>4, <1>5, <1>6 DEF CleanOK

(* A handler that found its lease gone: the poll loop ends. *)
LEMMA FenceLost ==
  ASSUME IInv, CleanOK, h.pc # "idle", ~Held, db' = db, h' = Idle, poll' = FALSE, up' = up
  PROVE  CleanOK'
<1>1. /\ up /\ CreatedOK /\ LeaseOK /\ EndOK /\ AnswerOK /\ db.job.status = "READY"
  BY DEF CleanOK, LeaseOK
<1>2. h'.pc = "idle" /\ h'.verdict = Nothing /\ Nothing.kind = "none"
  BY DEF Idle, Nothing
<1>3. CreatedOK' /\ AnswerOK'
  BY <1>1 DEF CreatedOK, AnswerOK
<1>4. LeaseOK' /\ WorkOK'
  BY <1>1, <1>2 DEF LeaseOK, WorkOK, Checkpointing
<1>5. EndOK' /\ StepsOK'
  BY <1>1, <1>2 DEF EndOK, StepsOK, Busy
<1>6. QED
  BY <1>1, <1>3, <1>4, <1>5 DEF CleanOK

(* The same where the file is not touched either. *)
LEMMA QuietClean ==
  ASSUME IInv, CleanOK, UNCHANGED <<db, up, poll>>, h.pc \notin {"idle", "done"},
         h'.pc # "idle", h'.ticket = h.ticket,
         h'.verdict.kind = "fence" => ~Held,
         h'.pc = "publishing" => Held,
         h'.pc = "done" /\ h'.verdict.kind = "checkpoint" =>
           h'.verdict.step = db.job.step /\ ~Going,
         h'.pc \in Busy /\ db.run.status = "TERMINAL" => ~Held,
         h'.pc = "profiling" => db.job.step = "PROFILE",
         h'.pc = "resolving" => db.job.step = "RESOLVE_TASK",
         h'.pc \in {"starting", "training", "asking", "failing", "publishing"} => db.job.step = "TRAIN"
  PROVE  CleanOK'
<1>1. /\ EndOK /\ StepsOK /\ AnswerOK /\ db.run.status # "ABSENT"
  BY CleanFinds
<1>2. StepAhead = db.job.step
  BY DEF StepAhead, Checkpointing
<1>3. StepAhead' = db.job.step
  BY DEF StepAhead, Checkpointing
<1>4. StepsOK'
  BY <1>1, <1>2, <1>3 DEF StepsOK, Quality, NoneOpen
<1>5. AnswerOK'
  BY <1>1 DEF AnswerOK, Quality, NoneOpen, Answers
<1>6. Going' = Going
  BY DEF Going
<1>7. Checkpointing' => ~Going'
  BY <1>6 DEF Checkpointing
<1>8. db'.result # NoResult /\ db'.run.status # "TERMINAL" => db.job.status = "READY"
  BY <1>1 DEF EndOK
<1>9. QED
  BY <1>1, <1>4, <1>5, <1>7, <1>8, HandlerClean

-----------------------------------------------------------------------------
(* The handlers. *)

(* handle_execution_job *)
LEMMA DispatchClean ==
  ASSUME IInv, CleanOK, Dispatch
  PROVE  CleanOK'
<1>1. h.pc = "claimed" /\ UNCHANGED <<db, up, poll>> /\ h \in Handlers /\ db.job \in Job
  BY CleanFinds DEF Dispatch
<1>2. CASE db.run.status \in {"TERMINAL", "WAITING_APPROVAL"}
  <2>1. h' = Done(COMPLETE)
    BY <1>2 DEF Dispatch
  <2>2. h'.pc = "done" /\ h'.ticket = h.ticket /\ h'.verdict.kind = "complete"
    BY <1>1, <2>1, HandlerRow, VerdictRow
  <2>3. QED
    BY <1>1, <2>2, QuietClean DEF Busy
<1>3. CASE db.run.status \in {"PAUSED", "WAITING_USER"}
  <2>1. h' = Done(CHECKPOINT(db.job.step, "WAITING"))
    BY <1>3 DEF Dispatch
  <2>2. /\ h'.pc = "done" /\ h'.ticket = h.ticket
        /\ h'.verdict.kind = "checkpoint" /\ h'.verdict.step = db.job.step
    BY <1>1, <2>1, HandlerRow, VerdictRow
  <2>3. ~Going
    BY <1>3 DEF Going
  <2>4. QED
    BY <1>1, <2>2, <2>3, QuietClean DEF Busy
<1>4. CASE db.run.status \notin {"TERMINAL", "WAITING_APPROVAL", "PAUSED", "WAITING_USER"}
  <2> DEFINE pc == CASE db.job.step = "PROFILE"      -> "profiling"
                     [] db.job.step = "RESOLVE_TASK" -> "resolving"
                     [] db.job.step = "TRAIN"        -> "starting"
  <2>1. h' = At(pc)
    BY <1>4 DEF Dispatch
  <2>2. db.job.step \in {"PROFILE", "RESOLVE_TASK", "TRAIN"}
    BY <1>1 DEF Job, Steps
  <2>3. /\ pc \in {"profiling", "resolving", "starting"}
        /\ pc = "profiling" => db.job.step = "PROFILE"
        /\ pc = "resolving" => db.job.step = "RESOLVE_TASK"
        /\ pc = "starting" => db.job.step = "TRAIN"
    BY <2>2
  <2> HIDE DEF pc
  <2>4. h'.pc = pc /\ h'.ticket = h.ticket /\ h'.verdict = h.verdict
    BY <1>1, <2>1, HandlerRow
  <2>5. h.verdict.kind = "fence" => ~Held
    BY CleanFinds DEF LeaseOK
  <2>6. QED
    BY <1>1, <1>4, <2>3, <2>4, <2>5, QuietClean
<1>5. QED
  BY <1>2, <1>3, <1>4

(* A handler that returns, raises or finds its fence gone without a write. *)
LEMMA ReturnClean ==
  ASSUME IInv, CleanOK, UNCHANGED <<db, up, poll>>, h.pc \notin {"idle", "done"},
         NEW v, h' = Done(v), v.kind = "fence" => ~Held,
         v.kind = "checkpoint" => v.step = db.job.step /\ ~Going
  PROVE  CleanOK'
<1>1. h'.pc = "done" /\ h'.ticket = h.ticket /\ h'.verdict = v
  BY CleanFinds, HandlerRow
<1>2. QED
  BY <1>1, QuietClean DEF Busy

(* The code after a lock acquisition, on a TERMINAL run. *)
LEMMA FindsTerminalClean ==
  ASSUME IInv, CleanOK, NEW pc \in {"profiling", "resolving", "starting"}, FindsTerminal(pc)
  PROVE  CleanOK'
<1>1. h.pc \notin {"idle", "done"} /\ h' = Done(COMPLETE) /\ UNCHANGED <<db, up, poll>>
  BY DEF FindsTerminal
<1>2. QED
  BY <1>1, VerdictRow, ReturnClean

(* The training step moves on to a question or a failure. *)
LEMMA TurnsClean ==
  ASSUME IInv, CleanOK, UNCHANGED <<db, up, poll>>, h.pc = "training",
         NEW pc \in {"asking", "failing"}, h' = At(pc)
  PROVE  CleanOK'
<1>1. h'.pc = pc /\ h'.ticket = h.ticket /\ h'.verdict = h.verdict
  BY CleanFinds, HandlerRow
<1>2. /\ h.verdict.kind = "fence" => ~Held
      /\ db.run.status = "TERMINAL" => ~Held
      /\ db.job.step = "TRAIN"
  BY CleanFinds DEF LeaseOK, EndOK, StepsOK, Busy
<1>3. QED
  BY <1>1, <1>2, QuietClean

(* The engine cannot tell the positive class. *)
LEMMA PositiveClassClean ==
  ASSUME IInv, CleanOK, PositiveClassRequired
  PROVE  CleanOK'
BY TurnsClean DEF PositiveClassRequired, BackendThread

(* The backend raises. *)
LEMMA TrainingFailsClean ==
  ASSUME IInv, CleanOK, TrainingFails
  PROVE  CleanOK'
BY TurnsClean DEF TrainingFails, BackendThread

(* The fresh fence check before the publication. *)
LEMMA BeginPublishingClean ==
  ASSUME IInv, CleanOK, BeginPublishing
  PROVE  CleanOK'
<1> DEFINE g == [h EXCEPT !.pc = "publishing", !.next = "EVALUATION_REPORT"]
<1>1. h.pc = "training" /\ UNCHANGED <<db, up, poll>> /\ h \in Handlers
  BY CleanFinds DEF BeginPublishing, BackendThread
<1>2. db.job.step = "TRAIN" /\ (h.verdict.kind = "fence" => ~Held)
  BY <1>1, CleanFinds DEF StepsOK, LeaseOK
<1>3. CASE ~Held
  <2>1. h' = Done(Raised("fence"))
    BY <1>3 DEF BeginPublishing, Held
  <2>2. QED
    BY <1>1, <1>3, <2>1, VerdictRow, ReturnClean
<1>4. CASE Held /\ db.run.status = "TERMINAL"
  <2>1. h' = Done(COMPLETE)
    BY <1>4 DEF BeginPublishing, Held
  <2>2. QED
    BY <1>1, <2>1, VerdictRow, ReturnClean
<1>5. CASE Held /\ db.run.status = "PAUSED"
  <2>1. h' = Done(CHECKPOINT("TRAIN", "WAITING"))
    BY <1>5 DEF BeginPublishing, Held
  <2>2. ~Going
    BY <1>5 DEF Going
  <2>3. QED
    BY <1>1, <1>2, <2>1, <2>2, VerdictRow, ReturnClean
<1>6. CASE Held /\ db.run.status \notin {"TERMINAL", "PAUSED"}
  <2>1. h' \in {Done(Raised("error")), g}
    BY <1>6 DEF BeginPublishing, Held
  <2>2. CASE h' = Done(Raised("error"))
    BY <1>1, <2>2, VerdictRow, ReturnClean
  <2>3. CASE h' = g
    <3>1. h'.pc = "publishing" /\ h'.ticket = h.ticket /\ h'.verdict = h.verdict
      BY <1>1, <2>3, HandlerRow
    <3>2. QED
      BY <1>1, <1>2, <1>6, <3>1, QuietClean
  <2>4. QED
    BY <2>1, <2>2, <2>3
<1>7. QED
  BY <1>3, <1>4, <1>5, <1>6

(* Any other exception. *)
LEMMA HandlerRaisesClean ==
  ASSUME IInv, CleanOK, HandlerRaises
  PROVE  CleanOK'
<1>1. h.pc \notin {"idle", "done"} /\ h' = Done(Raised("error")) /\ UNCHANGED <<db, up, poll>>
  BY DEF HandlerRaises, BackendThread
<1>2. QED
  BY <1>1, VerdictRow, ReturnClean

(* The split's upload fails; the callback of a handler that is gone is not  *)
(* missed.                                                                  *)
LEMMA SplitUploadFailsClean ==
  ASSUME IInv, CleanOK, SplitUploadFails
  PROVE  CleanOK'
<1>1. /\ UNCHANGED <<db, up, poll>>
      /\ h' = IF h.pc = "training" THEN Done(Raised("error")) ELSE h
  BY DEF SplitUploadFails
<1>2. CASE h.pc = "training"
  <2>1. h' = Done(Raised("error")) /\ h.pc \notin {"idle", "done"}
    BY <1>1, <1>2
  <2>2. QED
    BY <1>1, <2>1, VerdictRow, ReturnClean
<1>3. CASE h.pc # "training"
  BY <1>1, <1>3, CleanStays
<1>4. QED
  BY <1>2, <1>3

(* The renewal that opens a callback. *)
LEMMA CallBackClean ==
  ASSUME IInv, CleanOK, NEW p \in {"PLAN", "TRAIN"}, CallBack(p)
  PROVE  CleanOK'
<1>1. h.pc = "training" /\ UNCHANGED <<db, up, poll>>
  BY DEF CallBack, BackendThread
<1>2. CASE UNCHANGED h
  BY <1>1, <1>2, CleanStays
<1>3. CASE ~Held /\ h' = At("failing")
  BY <1>1, <1>3, TurnsClean
<1>4. CASE ~Held /\ h' = Done(Raised("fence"))
  BY <1>1, <1>4, VerdictRow, ReturnClean
<1>5. QED
  BY <1>2, <1>3, <1>4 DEF CallBack, Held

-----------------------------------------------------------------------------
(* The handlers' writes. *)

(* Nobody cuts a section while the process lives. *)
LEMMA Survives ==
  ASSUME ~Down
  PROVE  \A ss : ~CrashDuring(ss)
BY DEF CrashDuring

(* The step of a handler that is at work. *)
LEMMA AtWork ==
  ASSUME IInv, CleanOK, h.pc \in Busy
  PROVE  /\ poll /\ StepAhead = db.job.step /\ NoneOpen(db) /\ db.run.status # "ABSENT"
         /\ h.verdict.kind = "fence" => ~Held
         /\ db.run.status = "TERMINAL" => ~Held
         /\ Held \/ db.job.status = "READY"
         /\ db.result # NoResult => db.job.status = "READY"
         /\ db.job.step # "PROFILE" => Quality(db) > 0
         /\ db.job.step # "RESOLVE_TASK" => ~db.run.answering
         /\ db.job.step = "PROFILE" => Quality(db) = 0 /\ db.packets = <<>>
<1>1. /\ poll /\ NoneOpen(db) /\ db.run.status # "ABSENT" /\ h.pc # "idle" /\ h.pc # "done"
      /\ LeaseOK /\ EndOK /\ StepsOK /\ AnswerOK /\ FileOK(db) /\ Quality(db) \in Nat
      /\ db.job # NoJob
  BY CleanFinds
<1>2. StepAhead = db.job.step
  BY <1>1 DEF StepAhead, Checkpointing
<1>3. db.job.step # "PROFILE" => Quality(db) > 0
  BY <1>1, Fields DEF FileOK, JobOK, StagesOK, StageOutputs, Published, Quality
<1>4. /\ h.verdict.kind = "fence" => ~Held
      /\ db.run.status = "TERMINAL" => ~Held
      /\ Held \/ db.job.status = "READY"
  BY <1>1 DEF LeaseOK, EndOK
<1>5. db.result # NoResult => db.job.status = "READY"
  BY <1>1, <1>4 DEF EndOK
<1>6. /\ db.job.step # "RESOLVE_TASK" => ~db.run.answering
      /\ db.job.step = "PROFILE" => Quality(db) = 0 /\ db.packets = <<>>
  BY <1>1, <1>2 DEF StepsOK, AnswerOK
<1>7. QED
  BY <1>1, <1>2, <1>3, <1>4, <1>5, <1>6

(* _execute_profile: the only writer of the report, before the job has left *)
(* the step.                                                                *)
LEMMA CommitProfileClean ==
  ASSUME IInv, CleanOK, CommitProfile, ~Down
  PROVE  CleanOK'
<1> DEFINE r == [db.run EXCEPT !.phase = "PROFILE", !.status = "RUNNING"]
           running  == PutRun(<<db>>, r)
           ingested == CompleteStage(running, "INGEST")
           reported == CommitOutput(ingested, "DATA_QUALITY_REPORT")
           profiled == CompleteStage(reported, "PROFILE")
           q == [Final(profiled).run EXCEPT !.phase = "PLAN", !.status = "QUEUED",
                                            !.actions = {"PAUSE", "CANCEL"}]
           queued == PutRun(profiled, q)
           asked  == RequestDecision(profiled, "task")
<1>1. h.pc = "profiling" /\ db.run.status # "TERMINAL" /\ h \in Handlers
  BY CleanFinds DEF CommitProfile
<1>2. /\ Chain(<<db>>) /\ Final(<<db>>) = db /\ Row(db)
      /\ AnswerOK /\ db.packets \in Seq(Packet) /\ db.job.step = "PROFILE"
  BY <1>1, CleanFinds, ChainStarts DEF StepsOK
<1>3. /\ NoneOpen(db) /\ Quality(db) = 0 /\ db.packets = <<>> /\ ~db.run.answering
      /\ Held \/ db.job.status = "READY"
      /\ db.result # NoResult => db.job.status = "READY"
  BY <1>1, <1>2, AtWork DEF Busy
<1>4. {"status", "answering"} \subseteq DOMAIN r /\ r.answering = db.run.answering
  BY <1>2 DEF Row
<1>5. Chain(running) /\ Final(running).run = r /\ Apart(db, Final(running), {"run"})
  BY <1>2, <1>4, RunPut
<1> HIDE DEF running
<1>6. Chain(ingested) /\ Apart(Final(running), Final(ingested), {})
  BY <1>5, StageRow
<1> HIDE DEF ingested
<1>7. /\ Chain(reported) /\ Apart(Final(ingested), Final(reported), {"quality"})
      /\ Quality(Final(reported)) = Quality(Final(ingested)) + 1
  BY <1>6, Reported
<1> HIDE DEF reported
<1>8. Chain(profiled) /\ Apart(Final(reported), Final(profiled), {})
  BY <1>7, StageRow
<1> HIDE DEF profiled
<1>9. /\ Quality(Final(profiled)) = 1 /\ Final(profiled).job = db.job
      /\ Final(profiled).packets = <<>> /\ Final(profiled).result = db.result
      /\ Answers(Final(profiled)) = Answers(db) /\ Final(profiled).run = r
  BY <1>3, <1>5, <1>6, <1>7, <1>8 DEF Apart
<1>10. /\ {"status", "answering"} \subseteq DOMAIN q
       /\ q.status = "QUEUED" /\ q.answering = db.run.answering
  BY <1>4, <1>9
<1> HIDE DEF r, q
<1>11. CASE db' = Final(queued) /\ h' = Done(CHECKPOINT("TRAIN", "READY")) /\ UNCHANGED <<up, poll>>
  <2>1. Chain(queued) /\ Final(queued).run = q /\ Apart(Final(profiled), Final(queued), {"run"})
    BY <1>8, <1>10, RunPut
  <2>2. /\ db'.run = q /\ Quality(db') = 1 /\ db'.job = db.job /\ db'.packets = <<>>
        /\ db'.result = db.result /\ Answers(db') = Answers(db)
    BY <1>9, <1>11, <2>1 DEF Apart
  <2>3. /\ h'.pc = "done" /\ h'.ticket = h.ticket /\ h'.verdict.kind = "checkpoint"
        /\ h'.verdict.step = "TRAIN" /\ h'.verdict.status = "READY"
    BY <1>1, <1>11, HandlerRow, VerdictRow
  <2>4. NoneOpen(db')
    BY <2>2 DEF NoneOpen
  <2>5. StepsOK'
    BY <1>3, <1>10, <2>2, <2>3, <2>4 DEF StepsOK, StepAhead, Checkpointing
  <2>6. AnswerOK'
    BY <1>2, <1>3, <1>10, <2>2, <2>4 DEF AnswerOK
  <2>7. QED
    BY <1>1, <1>3, <1>10, <1>11, <2>2, <2>3, <2>5, <2>6, HandlerClean DEF Busy
<1>12. CASE /\ db' = Final(asked) /\ h' = Done(CHECKPOINT("RESOLVE_TASK", "WAITING"))
            /\ UNCHANGED <<up, poll>>
  <2> DEFINE ps == Append(<<>>, [asks |-> "task", status |-> "OPEN"])
  <2>1. /\ Apart(Final(profiled), Final(asked), {"run", "packets"})
        /\ Final(asked).run.status = "WAITING_USER"
        /\ Final(asked).run.answering = Final(profiled).run.answering
        /\ Final(asked).packets = ps
    BY <1>8, <1>9, Asked
  <2>2. /\ db'.run.status = "WAITING_USER" /\ ~db'.run.answering /\ Quality(db') = 1
        /\ db'.job = db.job /\ db'.packets = ps
        /\ db'.result = db.result /\ Answers(db') = Answers(db)
    BY <1>3, <1>4, <1>9, <1>12, <2>1 DEF Apart
  <2>3. /\ h'.pc = "done" /\ h'.ticket = h.ticket /\ h'.verdict.kind = "checkpoint"
        /\ h'.verdict.step = "RESOLVE_TASK"
    BY <1>1, <1>12, HandlerRow, VerdictRow
  <2> HIDE DEF ps
  <2>4. StepsOK'
    BY <2>2, <2>3 DEF StepsOK, StepAhead, Checkpointing
  <2>5. AnswerOK'
    BY <1>2, <1>3, <2>2 DEF AnswerOK
  <2>6. ~Going'
    BY <2>2 DEF Going
  <2>7. QED
    BY <1>1, <1>3, <1>12, <2>2, <2>3, <2>4, <2>5, <2>6, HandlerClean DEF Busy
<1>13. QED
  <2>1. \/ HandlerSection(queued, Done(CHECKPOINT("TRAIN", "READY")))
        \/ HandlerSection(asked, Done(CHECKPOINT("RESOLVE_TASK", "WAITING")))
    BY DEF CommitProfile, profiled, reported, ingested, running, q, r
  <2>2. QED
    BY <1>11, <1>12, <2>1, Survives DEF HandlerSection

(* Questions, answers and the report are as they were. *)
LEMMA AnswersStay ==
  ASSUME AnswerOK, Apart(db, db', {"run", "job", "result"}), db'.run.answering = db.run.answering
  PROVE  AnswerOK' /\ NoneOpen(db') = NoneOpen(db) /\ Quality(db') = Quality(db)
<1>1. db'.packets = db.packets /\ Quality(db') = Quality(db) /\ Answers(db') = Answers(db)
  BY DEF Apart
<1>2. NoneOpen(db') = NoneOpen(db)
  BY <1>1 DEF NoneOpen
<1>3. AnswerOK'
  BY <1>1, <1>2 DEF AnswerOK
<1>4. QED
  BY <1>1, <1>2, <1>3

(* _execute_resolved_task: the answer's command and its mark go together. *)
LEMMA ResolveTaskClean ==
  ASSUME IInv, CleanOK, ResolveTask, ~Down
  PROVE  CleanOK'
<1> DEFINE r == [db.run EXCEPT !.phase = "PLAN", !.status = "QUEUED",
                               !.actions = {"PAUSE", "CANCEL"}, !.answering = FALSE]
           queued == PutRun(<<db>>, r)
           tt == IF db.run.answering THEN Settle(queued, "ANSWER") ELSE queued
<1>1. h.pc = "resolving" /\ db.run.status # "TERMINAL" /\ h \in Handlers
  BY CleanFinds DEF ResolveTask
<1>2. /\ Chain(<<db>>) /\ Final(<<db>>) = db /\ Row(db)
      /\ AnswerOK /\ Answers(db) \in Nat /\ db.job.step = "RESOLVE_TASK"
  BY <1>1, CleanFinds, ChainStarts DEF StepsOK
<1>3. /\ NoneOpen(db) /\ Quality(db) > 0
      /\ Held \/ db.job.status = "READY"
      /\ db.result # NoResult => db.job.status = "READY"
  BY <1>1, <1>2, AtWork DEF Busy
<1>4. {"status", "answering"} \subseteq DOMAIN r /\ r.answering = FALSE /\ r.status = "QUEUED"
  BY <1>2 DEF Row
<1> HIDE DEF r
<1>5. Chain(queued) /\ Final(queued).run = r /\ Apart(db, Final(queued), {"run"})
  BY <1>2, <1>4, RunPut
<1> HIDE DEF queued
<1>6. /\ Final(tt).run = r /\ Apart(db, Final(tt), {"run", "answers"})
      /\ Answers(Final(tt)) = IF db.run.answering THEN Answers(db) - 1 ELSE Answers(db)
  <2>1. CASE db.run.answering
    BY <1>5, <2>1, CommandTaken DEF Apart
  <2>2. CASE ~db.run.answering
    BY <1>5, <2>2 DEF Apart
  <2>3. QED
    BY <2>1, <2>2
<1> HIDE DEF tt
<1>7. db' = Final(tt) /\ h' = Done(CHECKPOINT("TRAIN", "READY")) /\ UNCHANGED <<up, poll>>
  <2>1. HandlerSection(tt, Done(CHECKPOINT("TRAIN", "READY")))
    BY DEF ResolveTask, tt, queued, r
  <2>2. QED
    BY <2>1, Survives DEF HandlerSection
<1>8. /\ db'.run = r /\ Quality(db') = Quality(db) /\ db'.job = db.job
      /\ db'.packets = db.packets /\ db'.result = db.result /\ Answers(db') = 0
  BY <1>2, <1>6, <1>7 DEF Apart, AnswerOK
<1>9. /\ h'.pc = "done" /\ h'.ticket = h.ticket /\ h'.verdict.kind = "checkpoint"
      /\ h'.verdict.step = "TRAIN" /\ h'.verdict.status = "READY"
  BY <1>1, <1>7, HandlerRow, VerdictRow
<1>10. NoneOpen(db')
  BY <1>3, <1>8 DEF NoneOpen
<1>11. StepsOK'
  BY <1>4, <1>8, <1>9, <1>10 DEF StepsOK, StepAhead, Checkpointing
<1>12. AnswerOK'
  BY <1>2, <1>4, <1>8, <1>10 DEF AnswerOK
<1>13. QED
  BY <1>1, <1>3, <1>4, <1>7, <1>8, <1>9, <1>11, <1>12, HandlerClean DEF Busy

(* The steps of a handler at TRAIN: no question is open, no answer pending. *)
LEMMA TrainClean ==
  ASSUME IInv, CleanOK, UNCHANGED <<up, poll>>,
         h.pc \in {"starting", "training", "asking", "failing", "publishing"},
         h'.pc # "idle", h'.pc \notin {"profiling", "resolving"}, h'.ticket = h.ticket,
         Apart(db, db', {"run", "result"}), db'.run.status # "ABSENT",
         db'.run.answering = db.run.answering,
         h'.verdict.kind = "fence" => ~Held,
         h'.pc = "publishing" => Held,
         h'.pc = "done" /\ h'.verdict.kind = "checkpoint" =>
           h'.verdict.step # "PROFILE" /\ (h'.verdict.status = "WAITING" /\ Going' => ~Held),
         h'.pc \in Busy /\ db'.run.status = "TERMINAL" => ~Held,
         db'.result = db.result \/ db'.run.status = "TERMINAL"
  PROVE  CleanOK'
<1>1. /\ LeaseOK /\ EndOK /\ StepsOK /\ AnswerOK /\ db'.job = db.job /\ db.job.step = "TRAIN"
      /\ h.pc \in Busy
  BY CleanFinds DEF Apart, Busy, StepsOK
<1>2. /\ poll /\ NoneOpen(db) /\ Quality(db) > 0 /\ ~db.run.answering
      /\ db.result # NoResult => db.job.status = "READY"
  BY <1>1, AtWork
<1>3. AnswerOK' /\ NoneOpen(db') /\ Quality(db') = Quality(db)
  <2>1. Apart(db, db', {"run", "job", "result"})
    BY DEF Apart
  <2>2. QED
    BY <1>1, <1>2, <2>1, AnswersStay
<1>4. StepAhead' # "PROFILE"
  BY <1>1 DEF StepAhead, Checkpointing
<1>5. StepsOK'
  BY <1>1, <1>2, <1>3, <1>4 DEF StepsOK
<1>6. db'.result # NoResult /\ db'.run.status # "TERMINAL" => db.job.status = "READY"
  BY <1>2
<1>7. Checkpointing' /\ h'.verdict.status = "WAITING" /\ Going' => ~Held
  BY DEF Checkpointing
<1>8. QED
  BY <1>1, <1>3, <1>5, <1>6, <1>7, HandlerClean DEF Busy

(* _execute_training, up to the backend's thread. *)
LEMMA StartTrainingClean ==
  ASSUME IInv, CleanOK, StartTraining, ~Down
  PROVE  CleanOK'
<1> DEFINE r == [db.run EXCEPT !.phase = "PLAN", !.status = "RUNNING"]
           running == PutRun(<<db>>, r)
           g == [h EXCEPT !.pc = "training", !.next = "PLAN"]
<1>1. /\ h.pc = "starting" /\ h \in Handlers /\ Chain(<<db>>) /\ Final(<<db>>) = db /\ Row(db)
      /\ db.job.step = "TRAIN" /\ db.run.status \notin {"ABSENT", "TERMINAL"}
  BY CleanFinds, ChainStarts DEF StartTraining, StepsOK
<1>2. h.verdict.kind = "fence" => ~Held
  BY <1>1, AtWork DEF Busy
<1>3. CASE db.run.status = "PAUSED"
  <2>1. HandlerSection(<<db>>, Done(CHECKPOINT("TRAIN", "WAITING")))
    BY <1>3 DEF StartTraining
  <2>2. UNCHANGED <<db, up, poll>> /\ h' = Done(CHECKPOINT("TRAIN", "WAITING"))
    BY <1>1, <2>1, Survives DEF HandlerSection
  <2>3. ~Going
    BY <1>3 DEF Going
  <2>4. QED
    BY <1>1, <2>2, <2>3, VerdictRow, ReturnClean
<1>4. CASE db.run.status # "PAUSED"
  <2>1. {"status", "answering"} \subseteq DOMAIN r /\ r.answering = db.run.answering
        /\ r.status = "RUNNING"
    BY <1>1 DEF Row
  <2>2. HandlerSection(running, g)
    BY <1>4 DEF StartTraining
  <2>3. db' = Final(running) /\ h' = g /\ UNCHANGED <<up, poll>>
    BY <2>2, Survives DEF HandlerSection
  <2> HIDE DEF r
  <2>4. db'.run = r /\ Apart(db, db', {"run"})
    BY <1>1, <2>1, <2>3, RunPut
  <2>5. h'.pc = "training" /\ h'.ticket = h.ticket /\ h'.verdict = h.verdict
    BY <1>1, <2>3, HandlerRow
  <2>6. Apart(db, db', {"run", "result"}) /\ db'.result = db.result
    BY <2>4 DEF Apart
  <2>7. QED
    BY <1>1, <1>2, <2>1, <2>3, <2>4, <2>5, <2>6, TrainClean
<1>5. QED
  BY <1>3, <1>4

(* Asking for the positive class: a run that was ended meanwhile is         *)
(* reopened, but not for this handler - its lease is gone.                  *)
LEMMA AskClean ==
  ASSUME IInv, CleanOK, AskPositiveClass, ~Down
  PROVE  CleanOK'
<1> DEFINE asked == RequestDecision(<<db>>, "positive")
           ps == Append(db.packets, [asks |-> "positive", status |-> "OPEN"])
<1>1. /\ h.pc = "asking" /\ h \in Handlers /\ Chain(<<db>>) /\ Final(<<db>>) = db
      /\ db.job.step = "TRAIN" /\ AnswerOK /\ db.packets \in Seq(Packet)
  BY CleanFinds DEF AskPositiveClass, StepsOK
<1>2. /\ Quality(db) > 0 /\ ~db.run.answering
      /\ db.result # NoResult => db.job.status = "READY"
  BY <1>1, AtWork DEF Busy
<1>3. db' = Final(asked) /\ h' = Done(CHECKPOINT("RESOLVE_TASK", "WAITING")) /\ UNCHANGED <<up, poll>>
  <2>1. HandlerSection(asked, Done(CHECKPOINT("RESOLVE_TASK", "WAITING")))
    BY DEF AskPositiveClass
  <2>2. QED
    BY <2>1, Survives DEF HandlerSection
<1>4. /\ Apart(db, Final(asked), {"run", "packets"})
      /\ Final(asked).run.status = "WAITING_USER"
      /\ Final(asked).run.answering = db.run.answering
  BY <1>1, Asked
<1> HIDE DEF asked
<1>5. /\ db'.run.status = "WAITING_USER" /\ ~db'.run.answering /\ db'.job = db.job
      /\ Quality(db') = Quality(db) /\ Answers(db') = Answers(db) /\ db'.result = db.result
  BY <1>2, <1>3, <1>4 DEF Apart
<1>6. /\ h'.pc = "done" /\ h'.ticket = h.ticket /\ h'.verdict.kind = "checkpoint"
      /\ h'.verdict.step = "RESOLVE_TASK"
  BY <1>1, <1>3, HandlerRow, VerdictRow
<1>7. StepsOK'
  BY <1>5, <1>6 DEF StepsOK, StepAhead, Checkpointing
<1>8. AnswerOK'
  BY <1>1, <1>2, <1>5 DEF AnswerOK
<1>9. ~Going'
  BY <1>5 DEF Going
<1>10. QED
  BY <1>1, <1>2, <1>3, <1>5, <1>6, <1>7, <1>8, <1>9, HandlerClean DEF Busy

(* The failure of a training. *)
LEMMA FailTrainingClean ==
  ASSUME IInv, CleanOK, FailTraining, ~Down
  PROVE  CleanOK'
<1> DEFINE failed == FailRun(<<db>>)
           v == IF db.result = NoResult THEN COMPLETE ELSE Raised("error")
<1>1. /\ h.pc = "failing" /\ h \in Handlers /\ Chain(<<db>>) /\ Final(<<db>>) = db
      /\ db.run.status # "ABSENT"
  BY CleanFinds DEF FailTraining
<1>2. db' = Final(failed) /\ h' = Done(v) /\ UNCHANGED <<up, poll>>
  <2>1. HandlerSection(failed, Done(v))
    BY DEF FailTraining
  <2>2. QED
    BY <2>1, Survives DEF HandlerSection
<1>3. Ends(db, Final(failed))
  BY <1>1, GivenUp
<1> HIDE DEF failed
<1>4. h'.pc = "done" /\ h'.ticket = h.ticket /\ h'.verdict.kind \in {"complete", "error"}
  BY <1>1, <1>2, HandlerRow, VerdictRow
<1>5. QED
  <2>1. /\ Apart(db, db', {"run", "result"}) /\ db'.run.answering = db.run.answering
        /\ db.result # NoResult => db'.run = db.run /\ db'.result = db.result
        /\ db.result = NoResult => db'.run.status = "TERMINAL"
    BY <1>2, <1>3 DEF Ends
  <2>2. QED
    BY <1>1, <1>2, <1>4, <2>1, TrainClean DEF Busy

(* What a publisher finds: its lease, and a run without a result. *)
LEMMA PublisherFinds ==
  ASSUME IInv, CleanOK, h.pc = "publishing"
  PROVE  /\ Held /\ db.run.status \notin {"ABSENT", "TERMINAL"} /\ db.result = NoResult
         /\ h \in Handlers /\ h.verdict.kind # "fence" /\ Chain(<<db>>) /\ Final(<<db>>) = db
         /\ db.run.status # "WAITING_APPROVAL" /\ Row(db)
<1>1. Held /\ (Held => db.job.status = "LEASED")
  BY HeldSays, CleanFinds DEF LeaseOK
<1>2. /\ db.run.status = "TERMINAL" => ~Held
      /\ db.result # NoResult => db.job.status = "READY"
      /\ h.verdict.kind = "fence" => ~Held
      /\ db.run.status # "ABSENT" /\ db.run.status # "WAITING_APPROVAL"
  BY AtWork, Working DEF Busy
<1>3. QED
  BY <1>1, <1>2, CleanFinds, ChainStarts

(* _publish_result, an artifact at a time. *)
LEMMA PublishOutputClean ==
  ASSUME IInv, CleanOK, PublishOutput, ~Down
  PROVE  CleanOK'
<1> DEFINE committed == CommitOutputOnce(<<db>>, h.next)
           evaluated == CompleteStage(committed, "EVALUATE")
           packaging == TransitionTo(evaluated, "PACKAGE")
<1>1. h.pc = "publishing" /\ h.next \in {"EVALUATION_REPORT", "MODEL_CARD"}
  BY DEF PublishOutput
<1>2. /\ Held /\ db.run.status \notin {"ABSENT", "TERMINAL"} /\ db.result = NoResult
      /\ h \in Handlers /\ h.verdict.kind # "fence" /\ Chain(<<db>>) /\ Final(<<db>>) = db
  BY <1>1, PublisherFinds
<1>3. Chain(committed) /\ Apart(db, Final(committed), {})
  BY <1>1, <1>2, OtherOutput
<1>4. ASSUME UNCHANGED <<up, poll>>, Apart(db, db', {"run"}),
             db'.run.status \in {db.run.status, "RUNNING"}, db'.run.answering = db.run.answering,
             NEW n, h' = [h EXCEPT !.next = n]
      PROVE  CleanOK'
  <2>1. h'.pc = "publishing" /\ h'.ticket = h.ticket /\ h'.verdict = h.verdict
    BY <1>1, <1>2, <1>4, HandlerRow
  <2>2. Apart(db, db', {"run", "result"}) /\ db'.result = db.result
    BY <1>4 DEF Apart
  <2>3. QED
    BY <1>1, <1>2, <1>4, <2>1, <2>2, TrainClean
<1>5. CASE db' = Final(packaging) /\ h' = [h EXCEPT !.next = "MODEL_CARD"] /\ UNCHANGED <<up, poll>>
  <2> HIDE DEF committed
  <2>1. Chain(evaluated) /\ Apart(Final(committed), Final(evaluated), {})
    BY <1>3, StageRow
  <2> HIDE DEF evaluated
  <2>2. /\ Apart(Final(evaluated), Final(packaging), {"run"})
        /\ Final(packaging).run.status \in {Final(evaluated).run.status, "RUNNING"}
        /\ Final(packaging).run.answering = Final(evaluated).run.answering
    BY <2>1, PhaseRow
  <2>3. Apart(db, db', {"run"}) /\ Final(evaluated).run = db.run
    BY <1>3, <1>5, <2>1, <2>2 DEF Apart
  <2>4. QED
    BY <1>4, <1>5, <2>2, <2>3
<1>6. CASE db' = Final(committed) /\ h' = [h EXCEPT !.next = "RUN_REPORT"] /\ UNCHANGED <<up, poll>>
  <2>1. Apart(db, db', {"run"}) /\ db'.run = db.run
    BY <1>3, <1>6 DEF Apart
  <2>2. QED
    BY <1>4, <1>6, <2>1
<1>7. QED
  <2>1. \/ HandlerSection(packaging, [h EXCEPT !.next = "MODEL_CARD"])
        \/ HandlerSection(committed, [h EXCEPT !.next = "RUN_REPORT"])
    BY DEF PublishOutput, packaging, evaluated, committed
  <2>2. QED
    BY <1>5, <1>6, <2>1, Survives DEF HandlerSection

(* The last upload, and the approval or the result. *)
LEMMA ClosePublicationClean ==
  ASSUME IInv, CleanOK, ClosePublication, ~Down
  PROVE  CleanOK'
<1> DEFINE reported == CommitOutputOnce(<<db>>, "RUN_REPORT")
           opened == IF db.approval = "OPEN" THEN reported ELSE PutApproval(reported, "OPEN")
           r == [db.run EXCEPT !.phase = "PACKAGE", !.status = "WAITING_APPROVAL",
                               !.outcome = "none", !.blocking = "approval",
                               !.actions = {"APPROVE", "CANCEL"}]
           gated == PutRun(opened, r)
           ended == Finalize(reported, "SUCCEEDED", FALSE)
           v == IF db.result = NoResult THEN COMPLETE ELSE Raised("error")
<1>1. h.pc = "publishing"
  BY DEF ClosePublication
<1>2. /\ Held /\ db.run.status \notin {"ABSENT", "TERMINAL"} /\ db.result = NoResult
      /\ h \in Handlers /\ Chain(<<db>>) /\ Final(<<db>>) = db /\ Row(db)
  BY <1>1, PublisherFinds
<1>3. Chain(reported) /\ Apart(db, Final(reported), {})
  BY <1>2, OtherOutput
<1> HIDE DEF reported
<1>4. {"status", "answering"} \subseteq DOMAIN r /\ r.answering = db.run.answering
      /\ r.status = "WAITING_APPROVAL"
  BY <1>2 DEF Row
<1> HIDE DEF r
<1>5. ASSUME UNCHANGED <<up, poll>>, Apart(db, db', {"run", "result"}), db'.run.status # "ABSENT",
             db'.run.answering = db.run.answering,
             db'.result = db.result \/ db'.run.status = "TERMINAL", h' = Done(v)
      PROVE  CleanOK'
  <2>1. h'.pc = "done" /\ h'.ticket = h.ticket /\ h'.verdict.kind = "complete"
    BY <1>2, <1>5, HandlerRow, VerdictRow
  <2>2. QED
    BY <1>1, <1>5, <2>1, TrainClean DEF Busy
<1>6. CASE db' = Final(gated) /\ h' = Done(COMPLETE) /\ UNCHANGED <<up, poll>>
  <2>1. Chain(opened) /\ Apart(db, Final(opened), {})
    BY <1>3, ApprovalRowPut DEF Apart
  <2> HIDE DEF opened
  <2>2. Final(gated).run = r /\ Apart(Final(opened), Final(gated), {"run"})
    BY <1>4, <2>1, RunPut
  <2>3. Apart(db, db', {"run", "result"}) /\ db'.result = db.result
    BY <1>6, <2>1, <2>2 DEF Apart
  <2>4. QED
    BY <1>2, <1>4, <1>5, <1>6, <2>2, <2>3
<1>7. CASE db' = Final(ended) /\ h' = Done(v) /\ UNCHANGED <<up, poll>>
  <2>1. Ends(Final(reported), Final(ended))
    BY <1>3, ResultPut
  <2> HIDE DEF ended
  <2>2. /\ Apart(db, db', {"run", "result"}) /\ db'.run.status = "TERMINAL"
        /\ db'.run.answering = db.run.answering
    BY <1>2, <1>3, <1>7, <2>1 DEF Apart, Ends
  <2>3. QED
    BY <1>5, <1>7, <2>2
<1>8. QED
  <2>1. \/ HandlerSection(gated, Done(COMPLETE))
        \/ HandlerSection(ended, Done(v))
    BY DEF ClosePublication, OpenApproval, EndUngated, gated, opened, ended, reported, r
  <2>2. QED
    BY <1>6, <1>7, <2>1, Survives DEF HandlerSection

-----------------------------------------------------------------------------
(* run_once. *)

(* A claim: only of a job that was handed back, on a run without a result. *)
LEMMA ClaimClean ==
  ASSUME IInv, CleanOK, Claim
  PROVE  CleanOK'
<1> DEFINE j == Claimed(db.job, 0, 1)
<1>1. /\ up' = up /\ poll' = poll /\ poll /\ h.pc = "idle" /\ db.job # NoJob
      /\ Claimable(db.job, 0)
      /\ db' = [db EXCEPT !.job = j]
      /\ h' = [Idle EXCEPT !.pc = "claimed", !.ticket = [gen |-> j.gen, epoch |-> j.epoch]]
  BY DEF Claim
<1>2. /\ up /\ CreatedOK /\ LeaseOK /\ EndOK /\ StepsOK /\ AnswerOK /\ db.job \in Job
      /\ Chain(<<db>>) /\ Final(<<db>>) = db
  BY <1>1, CleanFinds
<1>3. db'.job = j /\ Apart(db, db', {"job"})
  <2>1. PutJob(<<db>>, j) = Append(<<db>>, db')
    BY <1>1, <1>2 DEF PutJob
  <2>2. Final(PutJob(<<db>>, j)) = db'
    BY <2>1 DEF Final
  <2>3. QED
    BY <1>2, <2>2, JobRowPut
<1>4. j \in Job /\ j.status = "LEASED" /\ j.step = db.job.step /\ j.expires = 1 /\ j # NoJob
  <2>1. j \in Job /\ j.status = "LEASED" /\ j.step = db.job.step
    BY <1>1, <1>2, JobOperations
  <2>2. j.expires = 1
    BY <1>2 DEF Claimed, Job
  <2>3. QED
    BY <2>1, <2>2, NotNoJob
<1>5. /\ h'.pc = "claimed" /\ h'.verdict = Nothing /\ Nothing.kind = "none"
      /\ h'.ticket = [gen |-> j.gen, epoch |-> j.epoch]
  BY <1>1 DEF Idle, Nothing
<1> HIDE DEF j
<1>6. Held'
  BY <1>3, <1>4, <1>5 DEF Held, Passes, FenceHolds, LeaseLive, Leased
<1>7. db'.run = db.run /\ db'.result = db.result
  BY <1>3 DEF Apart
<1>8. AnswerOK' /\ NoneOpen(db') = NoneOpen(db) /\ Quality(db') = Quality(db)
  <2>1. Apart(db, db', {"run", "job", "result"})
    BY <1>3 DEF Apart
  <2>2. QED
    BY <1>2, <1>7, <2>1, AnswersStay
<1>9. CreatedOK' /\ LeaseOK'
  BY <1>1, <1>2, <1>3, <1>4, <1>5, <1>6, <1>7, <1>8 DEF CreatedOK, LeaseOK
<1>10. WorkOK' /\ EndOK'
  BY <1>1, <1>2, <1>3, <1>4, <1>5, <1>7 DEF WorkOK, EndOK, Checkpointing, Busy
<1>11. StepsOK'
  <2>1. StepAhead' = db.job.step /\ StepAhead = db.job.step
    BY <1>1, <1>3, <1>4, <1>5 DEF StepAhead, Checkpointing
  <2>2. QED
    BY <1>1, <1>2, <1>5, <1>7, <1>8, <2>1 DEF StepsOK
<1>12. QED
  BY <1>1, <1>2, <1>8, <1>9, <1>10, <1>11 DEF CleanOK

(* The worker hands the job back under its fence. *)
LEMMA WorkerClean ==
  ASSUME IInv, CleanOK, h.pc = "done", Held, h' = Idle, poll' = TRUE, up' = up,
         Apart(db, db', {"run", "job", "result"}), db'.run.answering = db.run.answering,
         db'.run.status # "ABSENT",
         db'.job \in Job, db'.job.status # "LEASED", db'.job.step = StepAhead,
         Going' => db'.job.status \in {"READY", "RETRY"},
         db'.job.status = "DEAD" => db'.run.status = "TERMINAL",
         db'.result = NoResult \/ db'.run.status = "TERMINAL"
  PROVE  CleanOK'
<1>1. up /\ StepsOK /\ AnswerOK /\ db'.job # NoJob /\ poll
  BY CleanFinds, NotNoJob
<1>2. h'.pc = "idle" /\ h'.verdict = Nothing /\ Nothing.kind = "none"
  BY DEF Idle, Nothing
<1>3. AnswerOK' /\ NoneOpen(db') = NoneOpen(db) /\ Quality(db') = Quality(db)
  BY <1>1, AnswersStay
<1>4. CreatedOK' /\ LeaseOK'
  BY <1>1, <1>2 DEF CreatedOK, LeaseOK
<1>5. WorkOK' /\ EndOK'
  BY <1>2 DEF WorkOK, EndOK, Checkpointing, Busy
<1>6. StepsOK'
  <2>1. StepAhead' = StepAhead
    BY <1>2 DEF StepAhead, Checkpointing
  <2>2. QED
    BY <1>1, <1>2, <1>3, <2>1 DEF StepsOK
<1>7. QED
  BY <1>1, <1>3, <1>4, <1>5, <1>6 DEF CleanOK

(* A worker that holds the lease has no result to reopen. *)
LEMMA HolderFinds ==
  ASSUME IInv, CleanOK, h.pc = "done", Held
  PROVE  /\ db.result = NoResult \/ db.run.status = "TERMINAL"
         /\ db.run.status # "ABSENT" /\ db.job \in Job
         /\ Chain(<<db>>) /\ Final(<<db>>) = db
         /\ h.verdict.kind # "checkpoint" => StepAhead = db.job.step
<1>1. db.job.status = "LEASED"
  BY HeldSays
<1>2. QED
  BY <1>1, CleanFinds DEF EndOK, StepAhead, Checkpointing

(* complete_job and checkpoint_job. *)
LEMMA ApplyVerdictClean ==
  ASSUME IInv, CleanOK, ApplyVerdict, ~Down
  PROVE  CleanOK'
<1> DEFINE j == IF h.verdict.kind = "complete" THEN Completed(db.job)
                ELSE Checkpointed(db.job, h.verdict.step, h.verdict.status, 0)
           tt == PutJob(<<db>>, j)
<1>1. h.pc = "done" /\ h.verdict.kind \in {"complete", "checkpoint"}
  BY DEF ApplyVerdict
<1>2. CASE ~Held
  <2>1. WorkerSection(<<db>>, FALSE)
    <3>1. Passes(h.ticket) = FALSE
      BY <1>2 DEF Held, Passes, FenceHolds, LeaseLive, Leased
    <3>2. QED
      BY <3>1 DEF ApplyVerdict
  <2>2. Final(<<db>>) = db
    BY CleanFinds
  <2>3. db' = db /\ h' = Idle /\ poll' = FALSE /\ up' = up
    BY <2>1, <2>2, Survives DEF WorkerSection
  <2>4. QED
    BY <1>1, <1>2, <2>3, FenceLost
<1>3. CASE Held
  <2>1. WorkerSection(tt, TRUE)
    BY <1>3 DEF ApplyVerdict, Held
  <2>2. db' = Final(tt) /\ h' = Idle /\ poll' = TRUE /\ up' = up
    BY <2>1, Survives DEF WorkerSection
  <2>3. /\ db.result = NoResult \/ db.run.status = "TERMINAL"
        /\ db.run.status # "ABSENT" /\ db.job \in Job
        /\ Chain(<<db>>) /\ Final(<<db>>) = db
        /\ h.verdict.kind # "checkpoint" => StepAhead = db.job.step
    BY <1>1, <1>3, HolderFinds
  <2>4. /\ h.verdict.kind = "complete" => db.run.status \in Resting
        /\ h.verdict.kind = "checkpoint" =>
             h.verdict.step \in Steps /\ h.verdict.status \in {"READY", "WAITING"}
    BY DEF IInv, ProcessOK, VerdictOK
  <2>5. j \in Job /\ j.step = StepAhead /\ j.status \in {"READY", "WAITING", "COMPLETED"}
        /\ (Going => j.status = "READY")
    <3>1. CASE h.verdict.kind = "complete"
      <4>1. j \in Job /\ j.step = db.job.step /\ j.status = "COMPLETED"
        BY <2>3, <3>1, JobOperations
      <4>2. ~Going
        BY <2>4, <3>1 DEF Going, Resting
      <4>3. QED
        BY <2>3, <3>1, <4>1, <4>2
    <3>2. CASE h.verdict.kind = "checkpoint"
      <4>1. j \in Job /\ j.step = h.verdict.step /\ j.status = h.verdict.status
        BY <2>3, <2>4, <3>2, JobCheckpointed
      <4>2. StepAhead = h.verdict.step /\ Checkpointing
        BY <1>1, <3>2 DEF StepAhead, Checkpointing
      <4>3. Going => h.verdict.status # "WAITING"
        BY <1>3, <4>2, CleanFinds DEF WorkOK
      <4>4. QED
        BY <2>4, <3>2, <4>1, <4>2, <4>3
    <3>3. QED
      BY <1>1, <3>1, <3>2
  <2> HIDE DEF j
  <2>6. db'.job = j /\ Apart(db, db', {"job"})
    BY <2>2, <2>3, JobRowPut
  <2>7. Apart(db, db', {"run", "job", "result"}) /\ db'.run = db.run /\ db'.result = db.result
    BY <2>6 DEF Apart
  <2>8. Going' = Going
    BY <2>7 DEF Going
  <2>9. QED
    BY <1>1, <1>3, <2>2, <2>3, <2>5, <2>6, <2>7, <2>8, WorkerClean
<1>4. QED
  BY <1>2, <1>3

(* The error path: the last attempt fails a run that is still open. *)
LEMMA RetryAfterErrorClean ==
  ASSUME IInv, CleanOK, RetryAfterError, ~Down
  PROVE  CleanOK'
<1> DEFINE j == Retried(db.job, 0, 1)
           dying == j.status = "DEAD" /\ db.run.status # "TERMINAL"
           ss == PutJob(<<db>>, j)
           tt == IF dying THEN FailRun(ss) ELSE ss
<1>1. h.pc = "done" /\ h.verdict.kind = "error"
  BY DEF RetryAfterError
<1>2. CASE ~Held
  <2>1. WorkerSection(<<db>>, FALSE)
    BY <1>2 DEF RetryAfterError, Held
  <2>2. Final(<<db>>) = db
    BY CleanFinds
  <2>3. db' = db /\ h' = Idle /\ poll' = FALSE /\ up' = up
    BY <2>1, <2>2, Survives DEF WorkerSection
  <2>4. QED
    BY <1>1, <1>2, <2>3, FenceLost
<1>3. CASE Held
  <2>1. /\ db.result = NoResult \/ db.run.status = "TERMINAL"
        /\ db.run.status # "ABSENT" /\ db.job \in Job
        /\ Chain(<<db>>) /\ Final(<<db>>) = db /\ StepAhead = db.job.step
    BY <1>1, <1>3, HolderFinds
  <2>2. WorkerSection(tt, dying => db.result = NoResult)
    BY <1>3 DEF RetryAfterError, AfterRetry, Held
  <2>3. (dying => db.result = NoResult) = TRUE
    BY <2>1
  <2>4. db' = Final(tt) /\ h' = Idle /\ poll' = TRUE /\ up' = up
    BY <2>2, <2>3, Survives DEF WorkerSection
  <2>5. j \in Job /\ j.step = StepAhead /\ j.status \in {"RETRY", "DEAD"}
    BY <2>1, JobOperations
  <2> HIDE DEF j
  <2>6. Chain(ss) /\ Final(ss).job = j /\ Apart(db, Final(ss), {"job"})
    BY <2>1, JobRowPut
  <2>7. CASE dying
    <3>1. Ends(Final(ss), Final(FailRun(ss)))
      BY <2>6, GivenUp
    <3>2. db' = Final(FailRun(ss)) /\ db.result = NoResult
      BY <2>1, <2>4, <2>7
    <3>3. /\ Apart(db, db', {"run", "job", "result"}) /\ db'.run.status = "TERMINAL"
          /\ db'.run.answering = db.run.answering /\ db'.job = j
      BY <2>6, <3>1, <3>2 DEF Apart, Ends
    <3>4. QED
      BY <1>1, <1>3, <2>4, <2>5, <3>3, WorkerClean DEF Going
  <2>8. CASE ~dying
    <3>1. /\ Apart(db, db', {"run", "job", "result"}) /\ db'.job = j
          /\ db'.run = db.run /\ db'.result = db.result
      BY <2>4, <2>6, <2>8 DEF Apart
    <3>2. QED
      BY <1>1, <1>3, <2>1, <2>4, <2>5, <2>8, <3>1, WorkerClean DEF Going
  <2>9. QED
    BY <2>7, <2>8
<1>4. QED
  BY <1>2, <1>3

(* JobFenceError. *)
LEMMA FenceClean ==
  ASSUME IInv, CleanOK, FenceRaised \/ HeartbeatFenced, ~Down
  PROVE  CleanOK'
<1>1. h.pc # "idle" /\ ~Held /\ WorkerSection(<<db>>, FALSE)
  BY CleanFinds DEF FenceRaised, HeartbeatFenced, Held, LeaseOK
<1>2. Final(<<db>>) = db
  BY CleanFinds
<1>3. db' = db /\ h' = Idle /\ poll' = FALSE /\ up' = up
  BY <1>1, <1>2, Survives DEF WorkerSection
<1>4. QED
  BY <1>1, <1>3, FenceLost

(* Steps that wait for a lease nobody left behind. *)
LEMMA NoLeaseLeft ==
  ASSUME IInv, CleanOK
  PROVE  ~Sweep /\ ~LeaseExpires /\ ~Restart
BY CleanFinds DEF LeaseOK, Sweep, Exhausted, LeaseOver, Leased, LeaseExpires, Restart

(* A backoff is over. *)
LEMMA BackoffClean ==
  ASSUME IInv, CleanOK, BackoffElapses
  PROVE  CleanOK'
<1> DEFINE j == [db.job EXCEPT !.avail = 0]
<1>1. /\ db.job.status \in {"READY", "RETRY"} /\ UNCHANGED <<up, poll, h>>
      /\ db' = [db EXCEPT !.job = j]
  BY DEF BackoffElapses
<1>2. /\ up /\ CreatedOK /\ LeaseOK /\ WorkOK /\ EndOK /\ StepsOK /\ AnswerOK
      /\ Chain(<<db>>) /\ Final(<<db>>) = db /\ db.job \in Job /\ db.job # NoJob
  BY <1>1, CleanFinds DEF NoJob
<1>3. db'.job = j /\ Apart(db, db', {"job"})
  <2>1. PutJob(<<db>>, j) = Append(<<db>>, db')
    BY <1>1, <1>2 DEF PutJob
  <2>2. Final(PutJob(<<db>>, j)) = db'
    BY <2>1 DEF Final
  <2>3. QED
    BY <1>2, <2>2, JobRowPut
<1>4. j \in Job /\ j.status = db.job.status /\ j.step = db.job.step /\ j # NoJob
  <2>1. j \in Job
    BY <1>2, ColumnTypes, ColumnValues
  <2>2. j.status = db.job.status /\ j.step = db.job.step
    BY <1>2 DEF Job
  <2>3. QED
    BY <2>1, <2>2, NotNoJob
<1> HIDE DEF j
<1>5. db'.run = db.run /\ db'.result = db.result
  BY <1>3 DEF Apart
<1>6. AnswerOK' /\ NoneOpen(db') = NoneOpen(db) /\ Quality(db') = Quality(db)
  <2>1. Apart(db, db', {"run", "job", "result"})
    BY <1>3 DEF Apart
  <2>2. QED
    BY <1>2, <1>5, <2>1, AnswersStay
<1>7. ~Held /\ ~Held'
  BY <1>1, <1>3, <1>4, HeldSays
<1>8. CreatedOK' /\ LeaseOK'
  <2>1. CreatedOK'
    BY <1>2, <1>3, <1>4, <1>5, <1>6 DEF CreatedOK
  <2>2. LeaseOK'
    BY <1>1, <1>2, <1>3, <1>4, <1>7 DEF LeaseOK
  <2>3. QED
    BY <2>1, <2>2
<1>9. Checkpointing' = Checkpointing /\ Going' = Going
  BY <1>1, <1>5 DEF Checkpointing, Going
<1>10. WorkOK' /\ EndOK'
  BY <1>1, <1>2, <1>3, <1>4, <1>5, <1>7, <1>9 DEF WorkOK, EndOK
<1>11. StepsOK'
  <2>1. StepAhead' = StepAhead
    BY <1>1, <1>3, <1>4, <1>9 DEF StepAhead
  <2>2. QED
    BY <1>1, <1>2, <1>3, <1>4, <1>5, <1>6, <2>1 DEF StepsOK
<1>12. QED
  BY <1>1, <1>2, <1>6, <1>8, <1>10, <1>11 DEF CleanOK

-----------------------------------------------------------------------------
(* Stage callbacks. *)

(* A callback moves the run and its thread on; one that has outlived its    *)
(* handler leaves the poll loop ended.                                      *)
LEMMA CallbackClean ==
  ASSUME IInv, CleanOK, cb.pc # "none", UNCHANGED <<up, poll>>,
         h'.pc = h.pc, h'.ticket = h.ticket, h'.verdict = h.verdict,
         Apart(db, db', {"run"}), db'.run.status \in {db.run.status, "RUNNING"},
         db'.run.answering = db.run.answering
  PROVE  CleanOK'
<1>1. h.pc \in {"training", "idle"} /\ (h.pc = "training" \/ ~poll)
  BY CallingBack
<1>2. /\ up /\ CreatedOK /\ LeaseOK /\ EndOK /\ StepsOK /\ AnswerOK
  BY CleanFinds
<1>3. db'.job = db.job /\ db'.result = db.result /\ (Held' <=> Held)
  BY HeldSays DEF Apart
<1>4. AnswerOK' /\ NoneOpen(db') = NoneOpen(db) /\ Quality(db') = Quality(db)
  <2>1. Apart(db, db', {"run", "job", "result"})
    BY DEF Apart
  <2>2. QED
    BY <1>2, <2>1, AnswersStay
<1>5. h.pc = "training" => h.pc \in Busy
  BY DEF Busy
<1>6. /\ db.job.status # "DEAD" /\ db.job # NoJob
      /\ h.pc = "idle" => db.job.status = "READY"
      /\ db.result # NoResult => db.job.status = "READY"
  <2>1. db.job.status # "DEAD"
    BY CallingBack DEF Closed
  <2>2. h.pc = "idle" => db.job.status = "READY"
    BY <1>1, <1>2 DEF LeaseOK
  <2>3. h.pc = "training" => db.job # NoJob /\ (db.result # NoResult => db.job.status = "READY")
    BY <1>5, AtWork, CleanFinds
  <2>4. db.job.status = "READY" => db.job # NoJob
    BY DEF NoJob
  <2>5. QED
    BY <1>1, <2>1, <2>2, <2>3, <2>4
<1>7. CreatedOK' /\ LeaseOK'
  <2>1. db'.run.status # "ABSENT"
    BY <1>2, <1>6 DEF CreatedOK
  <2>2. CreatedOK'
    BY <1>3, <1>6, <2>1 DEF CreatedOK
  <2>3. LeaseOK'
    BY <1>2, <1>3 DEF LeaseOK
  <2>4. QED
    BY <2>2, <2>3
<1>8. WorkOK'
  BY <1>1, <1>3, <1>6 DEF WorkOK, Checkpointing
<1>9. EndOK'
  BY <1>1, <1>2, <1>3, <1>6 DEF EndOK
<1>10. StepsOK'
  <2>1. StepAhead' = StepAhead
    BY <1>1, <1>3 DEF StepAhead, Checkpointing
  <2>2. QED
    BY <1>2, <1>3, <1>4, <2>1 DEF StepsOK
<1>11. QED
  BY <1>2, <1>4, <1>7, <1>8, <1>9, <1>10 DEF CleanOK

(* The section of a callback: its thread's place moves, nothing else of it. *)
LEMMA CallbackMoves ==
  ASSUME IInv, CleanOK, cb.pc # "none", ~Down, NEW ss, NEW c, CallbackSection(ss, c),
         Apart(db, Final(ss), {"run"}), Final(ss).run.status \in {db.run.status, "RUNNING"},
         Final(ss).run.answering = db.run.answering
  PROVE  CleanOK'
<1>1. /\ db' = Final(ss) /\ UNCHANGED <<up, poll>>
      /\ h' = IF c = NoCallback THEN Return ELSE h
  BY Survives DEF CallbackSection
<1>2. h'.pc = h.pc /\ h'.ticket = h.ticket /\ h'.verdict = h.verdict
  <2>1. Return.pc = h.pc /\ Return.ticket = h.ticket /\ Return.verdict = h.verdict
    BY CleanFinds, HandlerRow DEF Return
  <2>2. QED
    BY <1>1, <2>1
<1>3. QED
  BY <1>1, <1>2, CallbackClean

(* A run that has ended. *)
LEMMA CallbackFindsTerminalClean ==
  ASSUME IInv, CleanOK, CallbackFindsTerminal, ~Down
  PROVE  CleanOK'
<1>1. cb.pc # "none" /\ CallbackSection(<<db>>, NoCallback)
  BY DEF CallbackFindsTerminal
<1>2. Final(<<db>>) = db /\ Apart(db, Final(<<db>>), {"run"})
  BY CleanFinds DEF Apart
<1>3. QED
  BY <1>1, <1>2, CallbackMoves

(* PLAN's first upload. *)
LEMMA PublishTaskClean ==
  ASSUME IInv, CleanOK, PublishTask, ~Down
  PROVE  CleanOK'
<1>1. cb.pc # "none" /\ Chain(<<db>>) /\ Final(<<db>>) = db
  BY CleanFinds DEF PublishTask
<1>2. CASE CallbackSection(TransitionTo(<<db>>, "TRAIN"), NoCallback)
  <2> DEFINE tt == TransitionTo(<<db>>, "TRAIN")
  <2>1. /\ Apart(db, Final(tt), {"run"}) /\ Final(tt).run.status \in {db.run.status, "RUNNING"}
        /\ Final(tt).run.answering = db.run.answering
    BY <1>1, PhaseRow
  <2> HIDE DEF tt
  <2>2. CallbackSection(tt, NoCallback)
    BY <1>2 DEF tt
  <2>3. QED
    BY <1>1, <2>1, <2>2, CallbackMoves
<1>3. CASE CallbackSection(CommitOutputOnce(<<db>>, "TASK_SPEC"), [cb EXCEPT !.pc = "writing"])
  <2> DEFINE tt == CommitOutputOnce(<<db>>, "TASK_SPEC")
  <2>1. Apart(db, Final(tt), {})
    BY <1>1, OtherOutput
  <2> HIDE DEF tt
  <2>2. Apart(db, Final(tt), {"run"}) /\ Final(tt).run = db.run
    BY <2>1 DEF Apart
  <2>3. CallbackSection(tt, [cb EXCEPT !.pc = "writing"])
    BY <1>3 DEF tt
  <2>4. QED
    BY <1>1, <2>2, <2>3, CallbackMoves
<1>4. QED
  BY <1>2, <1>3 DEF PublishTask

(* PLAN's second upload. *)
LEMMA PublishSplitClean ==
  ASSUME IInv, CleanOK, PublishSplit, ~Down
  PROVE  CleanOK'
<1> DEFINE split == CommitOutputOnce(<<db>>, "SPLIT_MANIFEST")
           planned == CompleteStage(split, "PLAN")
           tt == TransitionTo(planned, "TRAIN")
<1>1. /\ cb.pc # "none" /\ Chain(<<db>>) /\ Final(<<db>>) = db
      /\ CallbackSection(tt, NoCallback)
  BY CleanFinds DEF PublishSplit
<1>2. Chain(split) /\ Apart(db, Final(split), {})
  BY <1>1, OtherOutput
<1> HIDE DEF split
<1>3. Chain(planned) /\ Apart(Final(split), Final(planned), {})
  BY <1>2, StageRow
<1> HIDE DEF planned
<1>4. /\ Apart(Final(planned), Final(tt), {"run"})
      /\ Final(tt).run.status \in {Final(planned).run.status, "RUNNING"}
      /\ Final(tt).run.answering = Final(planned).run.answering
  BY <1>3, PhaseRow
<1> HIDE DEF tt
<1>5. Apart(db, Final(tt), {"run"}) /\ Final(planned).run = db.run
  BY <1>2, <1>3, <1>4 DEF Apart
<1>6. QED
  BY <1>1, <1>4, <1>5, CallbackMoves

(* TRAIN's uploads. *)
LEMMA PublishTrialsClean ==
  ASSUME IInv, CleanOK, PublishTrials, ~Down
  PROVE  CleanOK'
<1> DEFINE baseline == CommitOutputOnce(<<db>>, "BASELINE_RESULT")
           tried == CommitOutputOnce(baseline, "TRIAL_RESULT")
           completed == CompleteStage(tried, "TRAIN")
           trained == IF HasStage(db, "TRAIN") THEN <<db>> ELSE completed
           tt == TransitionTo(trained, "EVALUATE")
<1>1. /\ cb.pc # "none" /\ Chain(<<db>>) /\ Final(<<db>>) = db
      /\ CallbackSection(tt, NoCallback)
  BY CleanFinds DEF PublishTrials
<1>2. Chain(baseline) /\ Apart(db, Final(baseline), {})
  BY <1>1, OtherOutput
<1> HIDE DEF baseline
<1>3. Chain(tried) /\ Apart(Final(baseline), Final(tried), {})
  BY <1>2, OtherOutput
<1> HIDE DEF tried
<1>4. Chain(completed) /\ Apart(Final(tried), Final(completed), {})
  BY <1>3, StageRow
<1> HIDE DEF completed
<1>5. Chain(trained) /\ Apart(db, Final(trained), {})
  BY <1>1, <1>2, <1>3, <1>4 DEF Apart
<1> HIDE DEF trained
<1>6. /\ Apart(Final(trained), Final(tt), {"run"})
      /\ Final(tt).run.status \in {Final(trained).run.status, "RUNNING"}
      /\ Final(tt).run.answering = Final(trained).run.answering
  BY <1>5, PhaseRow
<1> HIDE DEF tt
<1>7. Apart(db, Final(tt), {"run"}) /\ Final(trained).run = db.run
  BY <1>5, <1>6 DEF Apart
<1>8. QED
  BY <1>1, <1>6, <1>7, CallbackMoves

-----------------------------------------------------------------------------
(* The clients. *)

(* create_run: nothing was there before it. *)
LEMMA CreateRunClean ==
  ASSUME IInv, CleanOK, CreateRun, ~Down
  PROVE  CleanOK'
<1>1. PICK known \in {{}, {"task"}} :
        LET r == [db.run EXCEPT !.status = "QUEUED", !.actions = {"PAUSE", "CANCEL"},
                                !.known = known]
        IN  ClientSection(PutJob(PutRun(<<db>>, r), NewJob("PROFILE", 0)))
  BY DEF CreateRun
<1> DEFINE r == [db.run EXCEPT !.status = "QUEUED", !.actions = {"PAUSE", "CANCEL"},
                               !.known = known]
           j == NewJob("PROFILE", 0)
           ss == PutRun(<<db>>, r)
           tt == PutJob(ss, j)
<1>2. /\ up /\ CreatedOK /\ LeaseOK /\ EndOK /\ StepsOK /\ AnswerOK /\ Chain(<<db>>) /\ Row(db)
      /\ Final(<<db>>) = db /\ db.packets \in Seq(Packet) /\ db.run.status = "ABSENT"
  BY CleanFinds, ChainStarts DEF CreateRun
<1>3. /\ db.job = NoJob /\ Quality(db) = 0 /\ db.packets = <<>> /\ ~db.run.answering
      /\ db.job.status = "ABSENT"
  BY <1>2 DEF CreatedOK, AnswerOK, NoJob
<1>4. h.pc = "idle" /\ poll /\ db.result = NoResult
  BY <1>2, <1>3, CleanFinds DEF LeaseOK, EndOK
<1>5. {"status", "answering"} \subseteq DOMAIN r /\ r.answering = db.run.answering
      /\ r.status = "QUEUED"
  BY <1>2 DEF Row
<1> HIDE DEF r
<1>6. Chain(ss) /\ Final(ss).run = r /\ Apart(db, Final(ss), {"run"})
  BY <1>2, <1>5, RunPut
<1> HIDE DEF ss
<1>7. j \in Job /\ j.status = "READY" /\ j.step = "PROFILE" /\ j # NoJob
  BY JobOperations, NotNoJob
<1> HIDE DEF j
<1>8. Final(tt).job = j /\ Apart(Final(ss), Final(tt), {"job"})
  BY <1>6, JobRowPut
<1> HIDE DEF tt
<1>9. db' = Final(tt) /\ UNCHANGED <<up, poll, h>>
  <2>1. ClientSection(tt)
    BY <1>1 DEF tt, ss, r, j
  <2>2. QED
    BY <2>1, Survives DEF ClientSection
<1>10. /\ db'.run = r /\ db'.job = j /\ Apart(db, db', {"run", "job", "result"})
      /\ db'.result = db.result
  BY <1>6, <1>8, <1>9 DEF Apart
<1>11. AnswerOK' /\ NoneOpen(db') = NoneOpen(db) /\ Quality(db') = Quality(db)
  BY <1>2, <1>5, <1>10, AnswersStay
<1>12. NoneOpen(db)
  BY <1>3 DEF NoneOpen
<1>13. CreatedOK' /\ LeaseOK'
  <2>1. CreatedOK'
    BY <1>5, <1>7, <1>10 DEF CreatedOK
  <2>2. ~Held'
    BY <1>7, <1>10, HeldSays
  <2>3. LeaseOK'
    BY <1>2, <1>4, <1>7, <1>9, <1>10, <2>2 DEF LeaseOK
  <2>4. QED
    BY <2>1, <2>3
<1>14. WorkOK' /\ EndOK'
  BY <1>4, <1>5, <1>7, <1>9, <1>10 DEF WorkOK, EndOK, Checkpointing, Busy
<1>15. StepsOK'
  BY <1>3, <1>4, <1>5, <1>9, <1>10, <1>11, <1>12 DEF StepsOK
<1>16. QED
  BY <1>2, <1>9, <1>11, <1>13, <1>14, <1>15 DEF CleanOK

(* What a control command finds. *)
LEMMA ClientFinds ==
  ASSUME IInv, CleanOK, LockFree, db.run.status \notin {"ABSENT", "TERMINAL"}
  PROVE  /\ h.pc # "publishing" /\ db.job \in Job /\ db.job # NoJob /\ db.job.status # "DEAD"
         /\ db.run.status # "WAITING_APPROVAL" => db.job.status \notin Closed
         /\ db.job.status \in Closed => h.pc = "idle"
         /\ poll /\ (~NoneOpen(db) \/ db.run.answering) => StepAhead = "RESOLVE_TASK"
         /\ Chain(<<db>>) /\ Final(<<db>>) = db /\ Row(db) /\ AnswerOK
         /\ db.packets \in Seq(Packet)
<1>1. /\ CreatedOK /\ EndOK /\ StepsOK /\ AnswerOK /\ db.job \in Job \cup {NoJob}
      /\ h.pc # "idle" => db.job.status \notin Closed
      /\ Chain(<<db>>) /\ Final(<<db>>) = db /\ Row(db) /\ FileOK(db)
      /\ db.packets \in Seq(Packet)
  BY CleanFinds, ChainStarts
<1>2. h.pc # "publishing" /\ db.job # NoJob /\ db.job.status # "DEAD"
  BY <1>1 DEF LockFree, CreatedOK, EndOK
<1>3. db.job.status = "COMPLETED" => db.run.status = "WAITING_APPROVAL"
  BY <1>1 DEF FileOK, JobOK, Resting
<1>4. poll /\ (~NoneOpen(db) \/ db.run.answering) => StepAhead = "RESOLVE_TASK"
  BY <1>1 DEF StepsOK
<1>5. QED
  BY <1>1, <1>2, <1>3, <1>4 DEF Closed

(* A pause. *)
LEMMA PauseClean ==
  ASSUME IInv, CleanOK, Pause, ~Down
  PROVE  CleanOK'
<1> DEFINE r == [db.run EXCEPT !.status = "PAUSED", !.actions = {"RESUME", "CANCEL"}]
           accepted == Accept(<<db>>, "PAUSE")
           paused == PutRun(accepted, r)
           tt == Settle(paused, "PAUSE")
<1>1. db.run.status \notin {"ABSENT", "TERMINAL"} /\ LockFree
  BY DEF Pause, MayControl
<1>2. /\ Chain(<<db>>) /\ Final(<<db>>) = db /\ Row(db) /\ AnswerOK
      /\ poll /\ (~NoneOpen(db) \/ db.run.answering) => StepAhead = "RESOLVE_TASK"
  BY <1>1, ClientFinds
<1>3. {"status", "answering"} \subseteq DOMAIN r /\ r.answering = db.run.answering
      /\ r.status = "PAUSED"
  BY <1>2 DEF Row
<1> HIDE DEF r
<1>4. /\ Chain(accepted) /\ Apart(db, Final(accepted), {"answers"})
      /\ Answers(Final(accepted)) = Answers(db)
  BY <1>2, CommandPut
<1> HIDE DEF accepted
<1>5. Chain(paused) /\ Final(paused).run = r /\ Apart(Final(accepted), Final(paused), {"run"})
  BY <1>3, <1>4, RunPut
<1> HIDE DEF paused
<1>6. /\ Apart(Final(paused), Final(tt), {"answers"})
      /\ Answers(Final(tt)) = Answers(Final(paused))
  BY <1>5, CommandTaken
<1> HIDE DEF tt
<1>7. db' = Final(tt) /\ UNCHANGED <<up, poll, h>>
  <2>1. ControlSection(tt)
    BY DEF Pause, tt, paused, accepted, r
  <2>2. QED
    BY <2>1, Survives DEF ControlSection
<1>8. /\ db'.run = r /\ Apart(db, db', {"run", "job", "result"})
      /\ db'.result = db.result /\ db'.job = db.job
  BY <1>4, <1>5, <1>6, <1>7 DEF Apart
<1>9. AnswerOK' /\ NoneOpen(db') = NoneOpen(db) /\ Quality(db') = Quality(db)
  BY <1>2, <1>3, <1>8, AnswersStay
<1>10. ~Going' /\ db'.run.status = "PAUSED" /\ db'.run.answering = db.run.answering
  BY <1>3, <1>8 DEF Going
<1>11. QED
  BY <1>1, <1>2, <1>7, <1>8, <1>9, <1>10, ClientClean

(* A resumption. *)
LEMMA ResumeClean ==
  ASSUME IInv, CleanOK, Resume, ~Down
  PROVE  CleanOK'
<1> DEFINE asking == OpenPackets(db) # {}
           r == [db.run EXCEPT !.status = IF asking THEN "WAITING_USER" ELSE "RUNNING",
                               !.actions = {"PAUSE", "CANCEL"} \cup {c \in {"ANSWER"} : asking}]
           accepted == Accept(<<db>>, "RESUME")
           resumed == PutRun(accepted, r)
           settled == Settle(resumed, "RESUME")
           tt == Wake(settled)
<1>1. db.run.status = "PAUSED" /\ LockFree
  BY DEF Resume, MayControl
<1>2. /\ Chain(<<db>>) /\ Final(<<db>>) = db /\ Row(db) /\ AnswerOK
      /\ h.pc # "publishing" /\ db.job \in Job /\ db.job # NoJob /\ db.job.status \notin Closed
      /\ poll /\ (~NoneOpen(db) \/ db.run.answering) => StepAhead = "RESOLVE_TASK"
  BY <1>1, ClientFinds
<1>3. {"status", "answering"} \subseteq DOMAIN r /\ r.answering = db.run.answering
      /\ r.status \in {"WAITING_USER", "RUNNING"}
  BY <1>2 DEF Row
<1> HIDE DEF r
<1>4. /\ Chain(accepted) /\ Apart(db, Final(accepted), {"answers"})
      /\ Answers(Final(accepted)) = Answers(db)
  BY <1>2, CommandPut
<1> HIDE DEF accepted
<1>5. Chain(resumed) /\ Final(resumed).run = r /\ Apart(Final(accepted), Final(resumed), {"run"})
  BY <1>3, <1>4, RunPut
<1> HIDE DEF resumed
<1>6. /\ Chain(settled) /\ Apart(Final(resumed), Final(settled), {"answers"})
      /\ Answers(Final(settled)) = Answers(Final(resumed))
  BY <1>5, CommandTaken
<1> HIDE DEF settled
<1>7. Final(settled).job = db.job
  BY <1>4, <1>5, <1>6 DEF Apart
<1>8. /\ Apart(Final(settled), Final(tt), {"job"})
      /\ Final(tt).job # NoJob /\ Final(tt).job.status = "READY" /\ Final(tt).job.step = db.job.step
  BY <1>2, <1>6, <1>7, Awake
<1> HIDE DEF tt
<1>9. db' = Final(tt) /\ UNCHANGED <<up, poll, h>>
  <2>1. ControlSection(tt)
    BY DEF Resume, tt, settled, resumed, accepted, r
  <2>2. QED
    BY <2>1, Survives DEF ControlSection
<1>10. /\ db'.run = r /\ Apart(db, db', {"run", "job", "result"}) /\ db'.result = db.result
       /\ db'.job # NoJob /\ db'.job.status = "READY" /\ db'.job.step = db.job.step
  BY <1>4, <1>5, <1>6, <1>8, <1>9 DEF Apart
<1>11. AnswerOK' /\ NoneOpen(db') = NoneOpen(db) /\ Quality(db') = Quality(db)
  BY <1>2, <1>3, <1>10, AnswersStay
<1>12. QED
  BY <1>1, <1>2, <1>3, <1>9, <1>10, <1>11, ClientClean

(* As many packets as before. *)
LEMMA SamePackets ==
  ASSUME NEW ps, NEW qs \in Seq(Packet), DOMAIN ps = DOMAIN qs, ps \in [DOMAIN qs -> Packet]
  PROVE  qs = <<>> => ps = <<>>
<1>1. ps \in [1..Len(qs) -> Packet]
  OBVIOUS
<1>2. ps \in Seq(Packet) /\ Len(ps) = Len(qs)
  BY <1>1
<1>3. QED
  BY <1>2

(* Cancelling, also where the result exists and only the packets close. *)
LEMMA CancelClean ==
  ASSUME IInv, CleanOK, Cancel, ~Down
  PROVE  CleanOK'
<1> DEFINE ps == [i \in DOMAIN db.packets |->
                    IF i \in OpenPackets(db) THEN [db.packets[i] EXCEPT !.status = "SUPERSEDED"]
                                             ELSE db.packets[i]]
           accepted == Accept(<<db>>, "CANCEL")
           superseded == IF ps = db.packets THEN accepted ELSE PutPackets(accepted, ps)
           ended == Finalize(superseded, "CANCELED", FALSE)
           settled == Settle(ended, "CANCEL")
           tt == Wake(settled)
<1>1. db.run.status \notin {"ABSENT", "TERMINAL"} /\ LockFree
  BY DEF Cancel, MayControl
<1>2. /\ Chain(<<db>>) /\ Final(<<db>>) = db /\ AnswerOK /\ db.packets \in Seq(Packet)
      /\ h.pc # "publishing" /\ db.job \in Job /\ db.job # NoJob
      /\ db.job.status \in Closed => h.pc = "idle"
      /\ poll /\ (~NoneOpen(db) \/ db.run.answering) => StepAhead = "RESOLVE_TASK"
  BY <1>1, ClientFinds
<1>3. ControlSection(IF db.result # NoResult THEN superseded ELSE tt)
  BY Zenon DEF Cancel
<1>4. /\ DOMAIN ps = DOMAIN db.packets /\ ps \in [DOMAIN db.packets -> Packet]
      /\ \A i \in DOMAIN ps : ps[i].status # "OPEN"
  BY PacketsSuperseded DEF IInv
<1> HIDE DEF ps
<1>5. ps # <<>> => db.packets # <<>>
  BY <1>2, <1>4, SamePackets
<1>6. /\ Chain(accepted) /\ Apart(db, Final(accepted), {"answers"})
      /\ Answers(Final(accepted)) = Answers(db)
  BY <1>2, CommandPut
<1> HIDE DEF accepted
<1>7. /\ Chain(superseded) /\ Apart(db, Final(superseded), {"packets"})
      /\ Final(superseded).packets = ps
  <2>1. CASE ps = db.packets
    BY <1>6, <2>1 DEF Apart
  <2>2. CASE ps # db.packets
    <3>1. /\ Chain(PutPackets(accepted, ps)) /\ Final(PutPackets(accepted, ps)).packets = ps
          /\ Apart(Final(accepted), Final(PutPackets(accepted, ps)), {"packets"})
      BY <1>6, PacketRowsPut
    <3>2. superseded = PutPackets(accepted, ps)
      BY <2>2
    <3>3. QED
      BY <1>6, <3>1, <3>2 DEF Apart
  <2>3. QED
    BY <2>1, <2>2
<1> HIDE DEF superseded
<1>8. ASSUME Apart(db, db', {"run", "job", "packets", "result"}), db'.packets = ps,
             db'.run.answering = db.run.answering
      PROVE  AnswerOK' /\ NoneOpen(db') /\ Quality(db') = Quality(db)
  <2>1. NoneOpen(db')
    BY <1>4, <1>8 DEF NoneOpen
  <2>2. Quality(db') = Quality(db) /\ Answers(db') = Answers(db)
    BY <1>8 DEF Apart
  <2>3. db.packets = <<>> => ps = <<>>
    BY <1>5
  <2>4. db.run.answering => ps # <<>>
    <3>1. db.packets # <<>> => ps # <<>>
      BY <1>2, <1>4
    <3>2. QED
      BY <1>2, <3>1 DEF AnswerOK
  <2>5. AnswerOK'
    BY <1>2, <1>8, <2>1, <2>2, <2>3, <2>4 DEF AnswerOK
  <2>6. QED
    BY <2>1, <2>2, <2>5
<1>9. CASE db.result # NoResult
  <2>1. db' = Final(superseded) /\ UNCHANGED <<up, poll, h>>
    BY <1>3, <1>9, Survives DEF ControlSection
  <2>2. /\ Apart(db, db', {"run", "job", "packets", "result"}) /\ db'.packets = ps
        /\ db'.run = db.run /\ db'.job = db.job /\ db'.result = db.result
    BY <1>7, <2>1 DEF Apart
  <2>3. AnswerOK' /\ NoneOpen(db') /\ Quality(db') = Quality(db)
    BY <1>8, <2>2
  <2>4. Going' => Going
    BY <2>2 DEF Going
  <2>5. QED
    BY <1>1, <1>2, <2>1, <2>2, <2>3, <2>4, ClientClean
<1>10. CASE db.result = NoResult
  <2>1. db' = Final(tt) /\ UNCHANGED <<up, poll, h>>
    BY <1>3, <1>10, Survives DEF ControlSection
  <2>2. Chain(ended) /\ Ends(Final(superseded), Final(ended))
    BY <1>7, ResultPut
  <2> HIDE DEF ended
  <2>3. /\ Chain(settled) /\ Apart(Final(ended), Final(settled), {"answers"})
        /\ Answers(Final(settled)) = Answers(Final(ended))
    BY <2>2, CommandTaken
  <2> HIDE DEF settled
  <2>4. Final(settled).job = db.job
    BY <1>7, <2>2, <2>3 DEF Apart, Ends
  <2>5. /\ Apart(Final(settled), Final(tt), {"job"})
        /\ db.job.status \in Closed => Final(tt).job = db.job
        /\ db.job.status \notin Closed =>
             /\ Final(tt).job # NoJob /\ Final(tt).job.status = "READY"
             /\ Final(tt).job.step = db.job.step
    BY <1>2, <2>3, <2>4, Awake
  <2> HIDE DEF tt
  <2>6. /\ Apart(db, db', {"run", "job", "packets", "result"}) /\ db'.packets = ps
        /\ db'.run.status = "TERMINAL" /\ db'.run.answering = db.run.answering
    BY <1>7, <1>10, <2>1, <2>2, <2>3, <2>5 DEF Apart, Ends
  <2>7. AnswerOK' /\ NoneOpen(db') /\ Quality(db') = Quality(db)
    BY <1>8, <2>6
  <2>8. /\ \/ db'.job = db.job
           \/ db'.job # NoJob /\ db'.job.status = "READY" /\ db'.job.step = db.job.step
        /\ h.pc \in Busy => db'.job.status = "READY"
    BY <1>2, <2>1, <2>5 DEF Busy
  <2>9. ~Going'
    BY <2>6 DEF Going
  <2>10. QED
    BY <1>1, <1>2, <2>1, <2>6, <2>7, <2>8, <2>9, ClientClean
<1>11. QED
  BY <1>9, <1>10

(* An answer: the only one, of the only open packet. *)
LEMMA AnswerClean ==
  ASSUME IInv, CleanOK, Answer, ~Down
  PROVE  CleanOK'
<1>1. PICK i \in OpenPackets(db) :
        LET accepted == Accept(<<db>>, "ANSWER")
            answered == PutPackets(accepted, Closing(db.packets, i, "ANSWERED"))
            r == [db.run EXCEPT !.status = "QUEUED", !.blocking = "none",
                                !.actions = {"PAUSE", "CANCEL"}, !.answering = TRUE,
                                !.known = @ \cup {db.packets[i].asks}]
        IN  ClientSection(Wake(PutRun(answered, r)))
  BY Zenon DEF Answer
<1> DEFINE ps == Closing(db.packets, i, "ANSWERED")
           r == [db.run EXCEPT !.status = "QUEUED", !.blocking = "none",
                               !.actions = {"PAUSE", "CANCEL"}, !.answering = TRUE,
                               !.known = @ \cup {db.packets[i].asks}]
           accepted == Accept(<<db>>, "ANSWER")
           answered == PutPackets(accepted, ps)
           queued == PutRun(answered, r)
           tt == Wake(queued)
<1>2. db.run.status = "WAITING_USER" /\ LockFree
  BY DEF Answer
<1>3. /\ Chain(<<db>>) /\ Final(<<db>>) = db /\ Row(db) /\ AnswerOK /\ db.packets \in Seq(Packet)
      /\ h.pc # "publishing" /\ db.job \in Job /\ db.job # NoJob /\ db.job.status \notin Closed
      /\ poll /\ (~NoneOpen(db) \/ db.run.answering) => StepAhead = "RESOLVE_TASK"
  BY <1>2, ClientFinds
<1>4. i \in DOMAIN db.packets /\ ~NoneOpen(db)
  BY DEF OpenPackets, NoneOpen
<1>5. /\ DOMAIN ps = DOMAIN db.packets /\ \A k \in DOMAIN ps : ps[k].status # "OPEN"
  BY OpenPacketClosed DEF IInv
<1> HIDE DEF ps
<1>6. /\ Chain(accepted) /\ Apart(db, Final(accepted), {"answers"})
      /\ Answers(Final(accepted)) = Answers(db) + 1
  BY <1>3, CommandPut
<1> HIDE DEF accepted
<1>7. /\ Chain(answered) /\ Final(answered).packets = ps
      /\ Apart(Final(accepted), Final(answered), {"packets"})
  BY <1>6, PacketRowsPut
<1> HIDE DEF answered
<1>8. {"status", "answering"} \subseteq DOMAIN r /\ r.answering = TRUE /\ r.status = "QUEUED"
  BY <1>3 DEF Row
<1> HIDE DEF r
<1>9. Chain(queued) /\ Final(queued).run = r /\ Apart(Final(answered), Final(queued), {"run"})
  BY <1>7, <1>8, RunPut
<1> HIDE DEF queued
<1>10. Final(queued).job = db.job
  BY <1>6, <1>7, <1>9 DEF Apart
<1>11. /\ Apart(Final(queued), Final(tt), {"job"})
       /\ Final(tt).job # NoJob /\ Final(tt).job.status = "READY" /\ Final(tt).job.step = db.job.step
  BY <1>3, <1>9, <1>10, Awake
<1>12. ClientSection(tt)
  BY <1>1 DEF tt, queued, r, answered, accepted, ps
<1> HIDE DEF tt
<1>13. db' = Final(tt) /\ UNCHANGED <<up, poll, h>>
  BY <1>12, Survives DEF ClientSection
<1>14. /\ db'.run = r /\ db'.packets = ps /\ db'.result = db.result
       /\ Quality(db') = Quality(db) /\ Answers(db') = Answers(db) + 1
       /\ db'.job # NoJob /\ db'.job.status = "READY" /\ db'.job.step = db.job.step
  BY <1>6, <1>7, <1>9, <1>11, <1>13 DEF Apart
<1>15. NoneOpen(db')
  BY <1>5, <1>14 DEF NoneOpen
<1>16. db.packets # <<>> /\ ps # <<>>
  BY <1>3, <1>4, <1>5
<1>17. ~db.run.answering /\ Answers(db) = 0
  BY <1>3, <1>4 DEF AnswerOK
<1>18. AnswerOK'
  BY <1>3, <1>8, <1>14, <1>15, <1>16, <1>17 DEF AnswerOK
<1>19. QED
  BY <1>2, <1>3, <1>4, <1>8, <1>13, <1>14, <1>15, <1>18, ClientClean

(* A decision ends the run, an expired one changes only the approval. *)
LEMMA DecideApprovalClean ==
  ASSUME IInv, CleanOK, DecideApproval, ~Down
  PROVE  CleanOK'
<1>1. /\ db.run.status = "WAITING_APPROVAL" /\ AnswerOK /\ StepsOK
      /\ Chain(<<db>>) /\ Final(<<db>>) = db
  BY CleanFinds DEF DecideApproval
<1>2. h.pc \notin Busy
  BY <1>1 DEF IInv, ProcessOK, RestOK, Parked, Busy
<1>3. poll /\ (~NoneOpen(db) \/ db.run.answering) => StepAhead = "RESOLVE_TASK"
  BY <1>1 DEF StepsOK
<1>4. ASSUME NEW tt, ClientSection(tt), Apart(db, Final(tt), {"run", "result"}),
             Final(tt).run.answering = db.run.answering,
             Final(tt).run.status \in {"WAITING_APPROVAL", "TERMINAL"},
             Final(tt).result = db.result \/ Final(tt).run.status = "TERMINAL"
      PROVE  CleanOK'
  <2>1. db' = Final(tt) /\ UNCHANGED <<up, poll, h>>
    BY <1>4, Survives DEF ClientSection
  <2>2. Apart(db, db', {"run", "job", "result"}) /\ db'.job = db.job
    BY <1>4, <2>1 DEF Apart
  <2>3. AnswerOK' /\ NoneOpen(db') = NoneOpen(db) /\ Quality(db') = Quality(db)
    BY <1>1, <1>4, <2>1, <2>2, AnswersStay
  <2>4. ~Going'
    BY <1>4, <2>1 DEF Going
  <2>5. QED
    BY <1>1, <1>2, <1>3, <1>4, <2>1, <2>2, <2>3, <2>4, ClientClean
<1>5. \A s : Chain(Decided(s)) /\ Apart(db, Final(Decided(s)), {})
  BY <1>1, ApprovalRowPut DEF Decided
<1>6. CASE ClientSection(Decided("EXPIRED"))
  <2> DEFINE tt == Decided("EXPIRED")
  <2>1. Apart(db, Final(tt), {})
    BY <1>5
  <2> HIDE DEF tt
  <2>2. /\ Apart(db, Final(tt), {"run", "result"}) /\ Final(tt).run = db.run
        /\ Final(tt).result = db.result
    BY <2>1 DEF Apart
  <2>3. ClientSection(tt)
    BY <1>6 DEF tt
  <2>4. QED
    BY <1>1, <1>4, <2>2, <2>3
<1>7. ASSUME NEW s \in {"APPROVED", "DECLINED"}, ClientSection(Concluded(Decided(s), s))
      PROVE  CleanOK'
  <2> DEFINE decided == Decided(s)
             registered == IF s = "APPROVED" THEN RegisterModel(decided) ELSE decided
             eligible == s = "APPROVED"
             tt == Finalize(registered, "SUCCEEDED", eligible)
  <2>1. Chain(decided) /\ Apart(db, Final(decided), {})
    BY <1>5
  <2>2. ClientSection(tt)
    BY <1>7 DEF Concluded
  <2> HIDE DEF decided, eligible
  <2>3. Chain(registered) /\ Apart(db, Final(registered), {})
    BY <2>1, ModelRowPut DEF Apart
  <2> HIDE DEF registered
  <2>4. Ends(Final(registered), Final(tt))
    BY <2>3, ResultPut
  <2> HIDE DEF tt
  <2>5. /\ Apart(db, Final(tt), {"run", "result"}) /\ Final(tt).run.answering = db.run.answering
        /\ \/ Final(tt).run.status = "TERMINAL"
           \/ Final(tt).run = db.run /\ Final(tt).result = db.result
    BY <2>3, <2>4 DEF Apart, Ends
  <2>6. QED
    BY <1>1, <1>4, <2>2, <2>5
<1>8. QED
  BY <1>6, <1>7 DEF DecideApproval

-----------------------------------------------------------------------------
(* Theorems. *)

(* Before anything happened. *)
LEMMA InitClean ==
  ASSUME Init
  PROVE  CleanOK
<1>1. /\ up /\ poll /\ h = Idle /\ db.run.status = "ABSENT" /\ db.run.answering = FALSE
      /\ db.job = NoJob /\ db.packets = <<>> /\ db.result = NoResult
      /\ db.outputs = [x \in OutputTypes |-> 0] /\ db.unsettled = [x \in Commands |-> 0]
  BY DEF Init, EmptyDatabase, Zero
<1>2. Quality(db) = 0 /\ Answers(db) = 0
  BY <1>1 DEF Quality, Answers, OutputTypes, Commands
<1>3. h.pc = "idle" /\ h.verdict.kind = "none" /\ db.job.status = "ABSENT"
  BY <1>1 DEF Idle, Nothing, NoJob
<1>4. NoneOpen(db)
  BY <1>1 DEF NoneOpen
<1>5. CreatedOK /\ LeaseOK
  BY <1>1, <1>2, <1>3 DEF CreatedOK, LeaseOK
<1>6. WorkOK /\ EndOK
  BY <1>1, <1>3 DEF WorkOK, EndOK, Going, Checkpointing, Busy
<1>7. StepsOK /\ AnswerOK
  BY <1>1, <1>2, <1>3, <1>4 DEF StepsOK, AnswerOK
<1>8. QED
  BY <1>1, <1>5, <1>6, <1>7 DEF CleanOK

(* Deaths are counted, and nothing else counts as one. *)
LEMMA DeathsCounted ==
  ASSUME IInv, [Next]_vars
  PROVE  (Down /\ used'.crashes > used.crashes) \/ (~Down /\ used'.crashes = used.crashes)
<1>1. used \in [controls: 0..MaxControls, crashes: 0..MaxCrashes, failures: 0..MaxFailures]
      /\ used.crashes \in Nat
  BY Working, FlagsAssumption
<1>2. Down => used'.crashes > used.crashes
  BY <1>1 DEF Down
<1>3. Down \/ used'.crashes = used.crashes
  <2>1. CASE Client
    <3>1. ASSUME NEW ss, ClientSection(ss)
          PROVE  Down \/ used'.crashes = used.crashes
      BY <3>1 DEF ClientSection, CrashDuring
    <3>2. ASSUME NEW ss, ControlSection(ss)
          PROVE  Down \/ used'.crashes = used.crashes
      BY <1>1, <3>2 DEF ControlSection, CrashDuring
    <3>3. CASE CreateRun
      BY <3>1, <3>3 DEF CreateRun
    <3>4. CASE Pause
      BY <3>2, <3>4 DEF Pause
    <3>5. CASE Resume
      BY <3>2, <3>5 DEF Resume
    <3>6. CASE Cancel
      BY <3>2, <3>6 DEF Cancel
    <3>7. CASE Answer
      BY <3>1, <3>7 DEF Answer
    <3>8. CASE DecideApproval
      BY <3>1, <3>8 DEF DecideApproval
    <3>9. QED
      BY <2>1, <3>3, <3>4, <3>5, <3>6, <3>7, <3>8 DEF Client
  <2>2. CASE Worker
    <3>1. ASSUME NEW ss, NEW g, HandlerSection(ss, g)
          PROVE  Down \/ used'.crashes = used.crashes
      BY <3>1 DEF HandlerSection, CrashDuring
    <3>2. ASSUME NEW ss, NEW alive, WorkerSection(ss, alive)
          PROVE  Down \/ used'.crashes = used.crashes
      BY <3>2 DEF WorkerSection, CrashDuring
    <3>3. ASSUME NEW ss, NEW c, CallbackSection(ss, c)
          PROVE  Down \/ used'.crashes = used.crashes
      BY <3>3 DEF CallbackSection, CrashDuring
    <3>4. CASE \/ Claim \/ Sweep \/ Dispatch \/ PositiveClassRequired \/ BeginPublishing
               \/ \E pc \in {"profiling", "resolving", "starting"} : FindsTerminal(pc)
               \/ \E p \in {"PLAN", "TRAIN"} : CallBack(p)
      BY <3>4 DEF Claim, Sweep, Dispatch, PositiveClassRequired, BeginPublishing, FindsTerminal,
                  CallBack
    <3>5. CASE \/ CommitProfile \/ ResolveTask \/ StartTraining \/ AskPositiveClass \/ FailTraining
               \/ PublishOutput \/ ClosePublication
      BY <3>1, <3>5 DEF CommitProfile, ResolveTask, StartTraining, AskPositiveClass, FailTraining,
                        PublishOutput, ClosePublication
    <3>6. CASE ApplyVerdict \/ RetryAfterError \/ FenceRaised \/ HeartbeatFenced
      BY <3>2, <3>6 DEF ApplyVerdict, RetryAfterError, FenceRaised, HeartbeatFenced
    <3>7. CASE CallbackFindsTerminal \/ PublishTask \/ PublishSplit \/ PublishTrials
      BY <3>3, <3>7 DEF CallbackFindsTerminal, PublishTask, PublishSplit, PublishTrials
    <3>8. QED
      BY <2>2, <3>4, <3>5, <3>6, <3>7 DEF Worker
  <2>3. CASE Failure
    BY <1>1, <2>3 DEF Failure, TrainingFails, HandlerRaises, SplitUploadFails, Crash, Stop
  <2>4. CASE BackoffElapses \/ LeaseExpires \/ Restart \/ UNCHANGED vars
    BY <2>4 DEF BackoffElapses, LeaseExpires, Restart, vars
  <2>5. QED
    BY <2>1, <2>2, <2>3, <2>4 DEF Next
<1>4. QED
  BY <1>1, <1>2, <1>3

(* Every step but a death keeps the file and the process clean. *)
LEMMA CleanStep ==
  ASSUME IInv, CleanOK, [Next]_vars, ~Down
  PROVE  CleanOK'
<1>1. CASE Client
  BY <1>1, CreateRunClean, PauseClean, ResumeClean, CancelClean, AnswerClean, DecideApprovalClean
     DEF Client
<1>2. CASE Worker
  <2>1. CASE \/ Claim \/ Sweep \/ Dispatch
             \/ \E pc \in {"profiling", "resolving", "starting"} : FindsTerminal(pc)
    BY <2>1, ClaimClean, NoLeaseLeft, DispatchClean, FindsTerminalClean
  <2>2. CASE \/ CommitProfile \/ ResolveTask \/ StartTraining
             \/ PositiveClassRequired \/ AskPositiveClass \/ FailTraining
    BY <2>2, CommitProfileClean, ResolveTaskClean, StartTrainingClean, PositiveClassClean, AskClean,
       FailTrainingClean
  <2>3. CASE \/ BeginPublishing \/ PublishOutput \/ ClosePublication
             \/ ApplyVerdict \/ RetryAfterError \/ FenceRaised \/ HeartbeatFenced
    BY <2>3, BeginPublishingClean, PublishOutputClean, ClosePublicationClean, ApplyVerdictClean,
       RetryAfterErrorClean, FenceClean
  <2>4. CASE \/ \E p \in {"PLAN", "TRAIN"} : CallBack(p)
             \/ CallbackFindsTerminal \/ PublishTask \/ PublishSplit \/ PublishTrials
    BY <2>4, CallBackClean, CallbackFindsTerminalClean, PublishTaskClean, PublishSplitClean,
       PublishTrialsClean
  <2>5. QED
    BY <1>2, <2>1, <2>2, <2>3, <2>4 DEF Worker
<1>3. CASE Failure
  BY <1>3, TrainingFailsClean, HandlerRaisesClean, SplitUploadFailsClean DEF Failure, Crash, Stop
<1>4. CASE BackoffElapses \/ LeaseExpires \/ Restart
  BY <1>4, BackoffClean, NoLeaseLeft
<1>5. CASE UNCHANGED vars
  BY <1>5, CleanStays DEF vars
<1>6. QED
  BY <1>1, <1>2, <1>3, <1>4, <1>5 DEF Next

(* The invariant of a service that has not been stopped or killed yet.      *)
THEOREM CrashFreeInvariant == Spec => []CrashFree
<1>1. Init => CrashFree
  BY InitClean DEF CrashFree
<1>2. IInv /\ CrashFree /\ [Next]_vars => CrashFree'
  <2> SUFFICES ASSUME IInv, CrashFree, [Next]_vars, used'.crashes = 0
               PROVE  CleanOK'
    BY DEF CrashFree
  <2>1. ~Down /\ used.crashes = 0
    <3>1. used.crashes \in Nat
      BY Working, FlagsAssumption
    <3>2. QED
      BY <3>1, DeathsCounted
  <2>2. QED
    BY <2>1, CleanStep DEF CrashFree
<1>3. QED
  BY <1>1, <1>2, DurableInvariant, PTL DEF Spec

(* Until the first crash or stop no wake-up is lost: beside a run that is to *)
(* go on, an idle worker finds a job it will claim, whatever commands        *)
(* arrived while a handler's verdict was under way.                          *)
THEOREM NoWakeUpIsLost == Spec => []RunnableRunHasWork
<1>1. CrashFree => RunnableRunHasWork
  BY DEF CrashFree, CleanOK, WorkOK, Going, RunnableRunHasWork
<1>2. QED
  BY <1>1, CrashFreeInvariant, PTL

(* Until then a job that exhausts its attempts leaves a run that has ended.  *)
THEOREM DeadJobsFailTheirRuns == Spec => []DeadJobFailsRun
<1>1. CrashFree => DeadJobFailsRun
  BY DEF CrashFree, CleanOK, EndOK, DeadJobFailsRun
<1>2. QED
  BY <1>1, CrashFreeInvariant, PTL

(* Until then the profile is reported once, over all retries of its step.    *)
THEOREM ProfileIsReportedOnce == Spec => []OneQualityReport
<1>1. CrashFree => OneQualityReport
  BY DEF CrashFree, CleanOK, AnswerOK, Quality, OneQualityReport
<1>2. QED
  BY <1>1, CrashFreeInvariant, PTL

(* Until then training never runs beside an answer that is not settled.      *)
THEOREM AnswersComeFirst == Spec => []AnswersAppliedFirst
<1>1. IInv /\ CrashFree => AnswersAppliedFirst
  <2> SUFFICES ASSUME IInv, CleanOK, used.crashes = 0, h.pc \in {"training", "publishing"}
               PROVE  db.unsettled["ANSWER"] = 0
    BY DEF CrashFree, AnswersAppliedFirst
  <2>1. h.pc \in Busy /\ db.job.step = "TRAIN" /\ AnswerOK
    BY CleanFinds DEF Busy, StepsOK
  <2>2. ~db.run.answering
    BY <2>1, AtWork
  <2>3. QED
    BY <2>1, <2>2 DEF AnswerOK, Answers
<1>2. QED
  BY <1>1, DurableInvariant, CrashFreeInvariant, PTL
=============================================================================
