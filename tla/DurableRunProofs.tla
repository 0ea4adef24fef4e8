-------------------------- MODULE DurableRunProofs --------------------------
(***************************************************************************)
(* Machine-checked proofs about the durable workflow of one run, for any   *)
(* request, any number of attempts, commands, crashes and exceptions.      *)
(*                                                                         *)
(* FileOK is what holds of the file in every state of a section, so that a *)
(* crash may keep any prefix of it; ProcessOK relates the file to what the *)
(* handler and the callback still remember of it.  One lemma per mutation  *)
(* shows that it keeps FileOK, one lemma per action composes them and      *)
(* re-establishes ProcessOK.                                               *)
(***************************************************************************)
EXTENDS DurableRun, FiniteSetTheorems, TLAPS

Resting == {"TERMINAL", "WAITING_APPROVAL"}
NoneOpen(d) == \A i \in DOMAIN d.packets : d.packets[i].status # "OPEN"
IsDecided(d) == d.approval \notin {"none", "OPEN"}

(* Terminal state, outcome and result are one. *)
SettledOK(d) ==
  d.run.status = "TERMINAL" =>
    /\ d.result # NoResult /\ d.result.outcome = d.run.outcome
    /\ d.run.actions = {} /\ d.run.blocking = "none"

(* Stages are a prefix of the phases, and each has its outputs. *)
Published(d, types) == \A t \in types : d.outputs[t] > 0
StageOutputs(d, n) ==
  /\ n >= 2 => Published(d, {"DATA_QUALITY_REPORT"})
  /\ n >= 3 => Published(d, {"TASK_SPEC", "SPLIT_MANIFEST"})
  /\ n >= 4 => Published(d, {"BASELINE_RESULT", "TRIAL_RESULT"})
  /\ n >= 5 => Published(d, {"EVALUATION_REPORT"})
  /\ n >= 6 => Published(d, {"MODEL_CARD", "RUN_REPORT"})
StagesOK(d) ==
  /\ Len(d.stages) <= 6
  /\ \A i \in DOMAIN d.stages : d.stages[i] = Phases[i]
  /\ StageOutputs(d, Len(d.stages))
  /\ Len(d.stages) >= 6 => d.result # NoResult

OutputsOK(d) == \A t \in OutputTypes \ {"DATA_QUALITY_REPORT"} : d.outputs[t] <= 1

(* A job is past PROFILE when that stage is complete, and completed when    *)
(* the run rests.                                                          *)
JobOK(d) ==
  /\ d.job # NoJob /\ d.job.step # "PROFILE" => Len(d.stages) >= 2
  /\ d.job.status = "COMPLETED" => d.run.status \in Resting

(* An approval is asked for what was published, and only it makes a model. *)
ApprovalOK(d) ==
  /\ d.approval # "none" => /\ Len(d.stages) >= 5
                            /\ Published(d, {"MODEL_CARD", "RUN_REPORT"})
  /\ d.model => d.approval = "APPROVED"
  /\ d.result.eligible => d.model
  /\ IsDecided(d) => d.run.status \in Resting
  /\ d.run.status = "WAITING_APPROVAL" =>
       d.run.actions = {"APPROVE", "CANCEL"} /\ d.approval # "none"

(* One packet is open at most, beside a run that does not go on. *)
PacketsOK(d) ==
  /\ \A i, j \in DOMAIN d.packets :
       d.packets[i].status = "OPEN" /\ d.packets[j].status = "OPEN" => i = j
  /\ NoneOpen(d) \/ d.run.status \in {"WAITING_USER", "PAUSED", "TERMINAL"}

(* What holds of the file, wherever a section is cut. *)
FileOK(d) ==
  /\ d \in Database
  /\ d.run.answering => d.unsettled["ANSWER"] >= 1
  /\ SettledOK(d) /\ StagesOK(d) /\ OutputsOK(d) /\ JobOK(d) /\ ApprovalOK(d) /\ PacketsOK(d)

-----------------------------------------------------------------------------
(* The process. *)

Verdicts == [kind: {"none", "complete", "checkpoint", "error", "fence"},
             step: Steps \cup {"none"}, status: {"none", "READY", "WAITING"}]
Handlers == [pc: HandlerPcs, ticket: [gen: Nat, epoch: Nat],
             next: {"none", "PLAN", "TRAIN", "return"} \cup OutputTypes, verdict: Verdicts]
Busy   == {"profiling", "resolving", "starting", "training", "asking", "failing", "publishing"}
Past   == {"resolving", "starting", "training", "asking", "publishing"}
Parked == h.pc \in {"idle", "claimed", "done"} /\ cb.pc = "none"
Ended  == db.run.status = "TERMINAL"

ProcessTypes ==
  /\ up \in BOOLEAN /\ poll \in BOOLEAN
  /\ h \in Handlers
  /\ cb \in [pc: {"none", "waiting", "writing"}, phase: {"PLAN", "TRAIN"}]
  /\ used \in [controls: 0..MaxControls, crashes: 0..MaxCrashes, failures: 0..MaxFailures]

HandlerOK ==
  /\ h.pc # "idle" => up /\ db.job # NoJob /\ db.job.status \notin Closed
  /\ h.pc \in Busy => NoneOpen(db)
  /\ h.pc \in Past => Len(db.stages) >= 2
  /\ h.pc = "training" =>
       /\ h.next \in {"PLAN", "TRAIN", "return"}
       /\ h.next = "TRAIN" => Len(db.stages) >= 3 \/ Ended
       /\ h.next = "return" => Len(db.stages) >= 4 \/ Ended
  /\ h.pc = "publishing" =>
       /\ h.next \in {"EVALUATION_REPORT", "MODEL_CARD", "RUN_REPORT"}
       /\ Len(db.stages) >= 4
       /\ h.next # "EVALUATION_REPORT" => Len(db.stages) >= 5
       /\ h.next = "RUN_REPORT" => db.outputs["MODEL_CARD"] > 0

VerdictOK ==
  /\ h.verdict.kind = "complete" => h.pc = "done" /\ db.run.status \in Resting
  /\ h.verdict.kind = "checkpoint" =>
       /\ h.pc = "done" /\ h.verdict.step \in Steps /\ h.verdict.status \in {"READY", "WAITING"}
       /\ h.verdict.step # "PROFILE" => Len(db.stages) >= 2

(* A callback outlives its handler only where the poll loop has ended. *)
CallbackOK ==
  /\ cb.pc # "none" =>
       /\ up /\ (h.pc = "training" \/ (h.pc = "idle" /\ ~poll))
       /\ db.job.status \notin Closed
       /\ NoneOpen(db) /\ Len(db.stages) >= 2
       /\ cb.phase = "TRAIN" => Len(db.stages) >= 3 \/ Ended
  /\ cb.pc = "writing" => cb.phase = "PLAN" /\ db.outputs["TASK_SPEC"] > 0

(* A run that waits for an approval, or has a decided one, is left alone. *)
RestOK == db.run.status = "WAITING_APPROVAL" \/ IsDecided(db) => Parked

ProcessOK == ProcessTypes /\ HandlerOK /\ VerdictOK /\ CallbackOK /\ RestOK

IInv == FileOK(db) /\ ProcessOK

-----------------------------------------------------------------------------
(* The file's types. *)

(* The fields of a file. *)
LEMMA Fields ==
  ASSUME NEW d \in Database
  PROVE  /\ d.run \in Run /\ d.job \in Job \cup {NoJob} /\ d.packets \in Seq(Packet)
         /\ d.approval \in Approval /\ d.model \in BOOLEAN /\ d.result \in Result
         /\ d.stages \in Seq(Phase) /\ d.outputs \in [OutputTypes -> Nat]
         /\ d.announced \in [OutputTypes -> Nat] /\ d.unsettled \in [Commands -> Nat]
BY DEF Database

Others(d, e, field) ==
  /\ field = "run" \/ e.run = d.run
  /\ field = "job" \/ e.job = d.job
  /\ field = "packets" \/ e.packets = d.packets
  /\ field = "approval" \/ e.approval = d.approval
  /\ field = "model" \/ e.model = d.model
  /\ field = "result" \/ e.result = d.result
  /\ field = "stages" \/ e.stages = d.stages
  /\ field = "outputs" \/ e.outputs = d.outputs
  /\ field = "announced" \/ e.announced = d.announced
  /\ field = "unsettled" \/ e.unsettled = d.unsettled

(* Writing the run's row leaves a file, and its other parts alone. *)
LEMMA RunWritten ==
  ASSUME NEW d \in Database, NEW r \in Run
  PROVE  LET e == [d EXCEPT !.run = r] IN e \in Database /\ e.run = r /\ Others(d, e, "run")
BY DEF Database, Others

(* Writing the job's row. *)
LEMMA JobWritten ==
  ASSUME NEW d \in Database, NEW j \in Job \cup {NoJob}
  PROVE  LET e == [d EXCEPT !.job = j] IN e \in Database /\ e.job = j /\ Others(d, e, "job")
BY DEF Database, Others

(* Writing the decision packets. *)
LEMMA PacketsWritten ==
  ASSUME NEW d \in Database, NEW ps \in Seq(Packet)
  PROVE  LET e == [d EXCEPT !.packets = ps] IN
         e \in Database /\ e.packets = ps /\ Others(d, e, "packets")
BY DEF Database, Others

(* Writing the approval. *)
LEMMA ApprovalWritten ==
  ASSUME NEW d \in Database, NEW a \in Approval
  PROVE  LET e == [d EXCEPT !.approval = a] IN
         e \in Database /\ e.approval = a /\ Others(d, e, "approval")
BY DEF Database, Others

(* Writing the registered model. *)
LEMMA ModelWritten ==
  ASSUME NEW d \in Database
  PROVE  LET e == [d EXCEPT !.model = TRUE] IN e \in Database /\ e.model /\ Others(d, e, "model")
BY DEF Database, Others

(* Writing the stage completions. *)
LEMMA StagesWritten ==
  ASSUME NEW d \in Database, NEW stages \in Seq(Phase)
  PROVE  LET e == [d EXCEPT !.stages = stages] IN
         e \in Database /\ e.stages = stages /\ Others(d, e, "stages")
BY DEF Database, Others

(* Writing the outputs. *)
LEMMA OutputsWritten ==
  ASSUME NEW d \in Database, NEW outputs \in [OutputTypes -> Nat]
  PROVE  LET e == [d EXCEPT !.outputs = outputs] IN
         e \in Database /\ e.outputs = outputs /\ Others(d, e, "outputs")
BY DEF Database, Others

(* Writing the output.committed events. *)
LEMMA AnnouncedWritten ==
  ASSUME NEW d \in Database, NEW announced \in [OutputTypes -> Nat]
  PROVE  LET e == [d EXCEPT !.announced = announced] IN
         e \in Database /\ e.announced = announced /\ Others(d, e, "announced")
BY DEF Database, Others

(* Writing the commands that are not settled. *)
LEMMA UnsettledWritten ==
  ASSUME NEW d \in Database, NEW unsettled \in [Commands -> Nat]
  PROVE  LET e == [d EXCEPT !.unsettled = unsettled] IN
         e \in Database /\ e.unsettled = unsettled /\ Others(d, e, "unsettled")
BY DEF Database, Others

(* The phases by number. *)
LEMMA PhaseNumbers ==
  /\ Phases[1] = "INGEST" /\ Phases[2] = "PROFILE" /\ Phases[3] = "PLAN"
  /\ Phases[4] = "TRAIN" /\ Phases[5] = "EVALUATE" /\ Phases[6] = "PACKAGE"
  /\ DOMAIN Phases = 1..6
  /\ Phase = {"INGEST", "PROFILE", "PLAN", "TRAIN", "EVALUATE", "PACKAGE"}
<1>1. /\ Phases[1] = "INGEST" /\ Phases[2] = "PROFILE" /\ Phases[3] = "PLAN"
      /\ Phases[4] = "TRAIN" /\ Phases[5] = "EVALUATE" /\ Phases[6] = "PACKAGE"
      /\ DOMAIN Phases = 1..6
  BY DEF Phases
<1>2. 1..6 = {1, 2, 3, 4, 5, 6}
  OBVIOUS
<1>3. Phase = {"INGEST", "PROFILE", "PLAN", "TRAIN", "EVALUATE", "PACKAGE"}
  BY <1>1, <1>2 DEF Phase
<1>4. QED
  BY <1>1, <1>3

-----------------------------------------------------------------------------
(* Sections. *)

(* What no mutation undoes. *)
Follows(d) ==
  /\ db.result # NoResult => d.result = db.result
  /\ Len(d.stages) >= Len(db.stages)
  /\ \A t \in OutputTypes : d.outputs[t] >= db.outputs[t]
  /\ db.job # NoJob => d.job # NoJob

Good(d) == FileOK(d) /\ Follows(d)

Section(ss) ==
  db \in Database /\ ss \in Seq(Database) /\ Len(ss) >= 1 /\ \A i \in 1..Len(ss) : Good(ss[i])

(* A section starts with the file as it is. *)
LEMMA SectionStarts ==
  ASSUME FileOK(db)
  PROVE  Section(<<db>>) /\ Final(<<db>>) = db /\ Good(db)
<1>1. Good(db)
  BY Fields DEF Good, Follows, FileOK
<1>2. <<db>> \in Seq(Database) /\ Len(<<db>>) = 1 /\ <<db>>[1] = db
  BY DEF FileOK
<1>3. QED
  BY <1>1, <1>2 DEF Section, Final, FileOK

(* One more mutation. *)
LEMMA SectionGrows ==
  ASSUME NEW ss, Section(ss), NEW d, Good(d)
  PROVE  Section(Append(ss, d)) /\ Final(Append(ss, d)) = d
<1>1. d \in Database /\ ss \in Seq(Database)
  BY DEF Good, FileOK, Section
<1>2. /\ Append(ss, d) \in Seq(Database) /\ Len(Append(ss, d)) = Len(ss) + 1
      /\ Append(ss, d)[Len(ss) + 1] = d
      /\ \A i \in 1..Len(ss) : Append(ss, d)[i] = ss[i]
  BY <1>1
<1>3. Len(ss) \in Nat
  BY <1>1
<1>4. QED
  BY <1>1, <1>2, <1>3 DEF Section, Final

(* What a section ends with. *)
LEMMA SectionEnds ==
  ASSUME NEW ss, Section(ss)
  PROVE  Good(Final(ss)) /\ Final(ss) \in Database
<1>1. Len(ss) \in 1..Len(ss)
  BY DEF Section
<1>2. QED
  BY <1>1 DEF Section, Final, Good, FileOK

-----------------------------------------------------------------------------
(* The mutations, each on the file a section ended with. *)

(* The run goes on, or waits for the user. *)
LEMMA RunGoesOn ==
  ASSUME NEW ss, Section(ss), NEW r \in Run, r.status \notin Resting,
         ~IsDecided(Final(ss)), Final(ss).job.status # "COMPLETED",
         NoneOpen(Final(ss)) \/ r.status \in {"WAITING_USER", "PAUSED"},
         r.answering => Final(ss).unsettled["ANSWER"] >= 1
  PROVE  /\ Section(PutRun(ss, r)) /\ Final(PutRun(ss, r)).run = r
         /\ Others(Final(ss), Final(PutRun(ss, r)), "run")
<1> DEFINE d == Final(ss)
           e == [d EXCEPT !.run = r]
<1>1. Good(d) /\ d \in Database
  BY SectionEnds
<1>2. e \in Database /\ e.run = r /\ Others(d, e, "run")
  BY <1>1, RunWritten
<1> HIDE DEF e
<1>3. FileOK(e)
  <2>1. /\ e.run = r /\ e.job = d.job /\ e.packets = d.packets /\ e.approval = d.approval
        /\ e.model = d.model /\ e.result = d.result /\ e.stages = d.stages
        /\ e.outputs = d.outputs /\ e.unsettled = d.unsettled
    BY <1>2 DEF Others
  <2>2. SettledOK(e) /\ OutputsOK(e) /\ (r.answering => e.unsettled["ANSWER"] >= 1)
    BY <1>1, <2>1 DEF Good, FileOK, SettledOK, OutputsOK, Resting
  <2>3. StagesOK(e)
    BY <1>1, <2>1 DEF Good, FileOK, StagesOK, StageOutputs, Published
  <2>4. JobOK(e)
    BY <1>1, <2>1 DEF Good, FileOK, JobOK
  <2>5. ApprovalOK(e)
    BY <1>1, <2>1 DEF Good, FileOK, ApprovalOK, IsDecided, Resting, Published
  <2>6. PacketsOK(e)
    BY <1>1, <2>1 DEF Good, FileOK, PacketsOK, NoneOpen
  <2>7. QED
    BY <1>2, <2>1, <2>2, <2>3, <2>4, <2>5, <2>6 DEF FileOK
<1>4. Good(e)
  BY <1>1, <1>2, <1>3 DEF Good, Follows, Others
<1>5. PutRun(ss, r) = Append(ss, e)
  BY DEF PutRun, e
<1>6. QED
  BY <1>2, <1>4, <1>5, SectionGrows

(* A job that is not completed, at a step the stages justify. *)
LEMMA JobGoesOn ==
  ASSUME NEW ss, Section(ss), NEW j \in Job,
         j.status = "COMPLETED" => Final(ss).run.status \in Resting,
         j.step # "PROFILE" => Len(Final(ss).stages) >= 2
  PROVE  /\ Section(PutJob(ss, j)) /\ Final(PutJob(ss, j)).job = j
         /\ Others(Final(ss), Final(PutJob(ss, j)), "job")
<1> DEFINE d == Final(ss)
           e == [d EXCEPT !.job = j]
<1>1. Good(d) /\ d \in Database
  BY SectionEnds
<1>2. e \in Database /\ e.job = j /\ Others(d, e, "job")
  BY <1>1, JobWritten
<1>3. j # NoJob
  BY DEF Job, NoJob, JobStatus
<1> HIDE DEF e
<1>4. FileOK(e)
  <2>1. /\ e.run = d.run /\ e.job = j /\ e.packets = d.packets /\ e.approval = d.approval
        /\ e.model = d.model /\ e.result = d.result /\ e.stages = d.stages
        /\ e.outputs = d.outputs /\ e.unsettled = d.unsettled
    BY <1>2 DEF Others
  <2>2. SettledOK(e) /\ OutputsOK(e) /\ (e.run.answering => e.unsettled["ANSWER"] >= 1)
    BY <1>1, <2>1 DEF Good, FileOK, SettledOK, OutputsOK
  <2>3. StagesOK(e)
    BY <1>1, <2>1 DEF Good, FileOK, StagesOK, StageOutputs, Published
  <2>4. JobOK(e)
    BY <1>1, <2>1 DEF JobOK
  <2>5. ApprovalOK(e)
    BY <1>1, <2>1 DEF Good, FileOK, ApprovalOK, IsDecided, Published
  <2>6. PacketsOK(e)
    BY <1>1, <2>1 DEF Good, FileOK, PacketsOK, NoneOpen
  <2>7. QED
    BY <1>2, <2>1, <2>2, <2>3, <2>4, <2>5, <2>6 DEF FileOK
<1>5. Good(e)
  BY <1>1, <1>2, <1>3, <1>4 DEF Good, Follows, Others
<1>6. PutJob(ss, j) = Append(ss, e)
  BY DEF PutJob, e
<1>7. QED
  BY <1>2, <1>5, <1>6, SectionGrows

MoreOutputs(d, e) == \A u \in OutputTypes : e.outputs[u] >= d.outputs[u]
Kept(d, e) ==
  /\ e.run = d.run /\ e.job = d.job /\ e.packets = d.packets /\ e.approval = d.approval
  /\ e.model = d.model /\ e.result = d.result /\ e.unsettled = d.unsettled

(* An output's row and its event. *)
LEMMA OutputCommitted ==
  ASSUME NEW ss, Section(ss), NEW t \in OutputTypes,
         t = "DATA_QUALITY_REPORT" \/ Final(ss).outputs[t] = 0
  PROVE  LET tt == CommitOutput(ss, t)
             d == Final(ss)
             e == Final(tt)
         IN  /\ Section(tt) /\ Published(e, {t})
             /\ MoreOutputs(d, e) /\ Kept(d, e) /\ e.stages = d.stages
<1> DEFINE d == Final(ss)
           outputs == [d.outputs EXCEPT ![t] = @ + 1]
           stored == [d EXCEPT !.outputs = outputs]
           announced == [d.announced EXCEPT ![t] = @ + 1]
           e == [stored EXCEPT !.announced = announced]
<1>1. Good(d) /\ d \in Database
  BY SectionEnds
<1>2. /\ outputs \in [OutputTypes -> Nat] /\ outputs[t] = d.outputs[t] + 1
      /\ \A u \in OutputTypes : u # t => outputs[u] = d.outputs[u]
      /\ \A u \in OutputTypes : outputs[u] >= d.outputs[u]
      /\ announced \in [OutputTypes -> Nat]
  BY <1>1, Fields
<1>3. d.outputs[t] \in Nat
  BY <1>1, Fields
<1> HIDE DEF outputs, announced
<1>4. stored \in Database /\ stored.outputs = outputs /\ Others(d, stored, "outputs")
  BY <1>1, <1>2, OutputsWritten
<1>5. e \in Database /\ e.announced = announced /\ Others(stored, e, "announced")
  <2> HIDE DEF stored
  <2>1. QED
    BY <1>2, <1>4, AnnouncedWritten
<1>6. CommitOutput(ss, t) = ss \o <<stored, e>>
  <2>1. stored.announced = d.announced
    BY <1>4 DEF Others
  <2>2. e = [stored EXCEPT !.announced[t] = @ + 1]
    BY <2>1 DEF announced
  <2>3. stored = [d EXCEPT !.outputs[t] = @ + 1]
    BY DEF outputs
  <2>4. QED
    BY <2>2, <2>3 DEF CommitOutput
<1> HIDE DEF stored, e
<1>7. ASSUME NEW x \in Database, x.outputs = outputs, x.run = d.run, x.job = d.job,
             x.packets = d.packets, x.approval = d.approval, x.model = d.model,
             x.result = d.result, x.stages = d.stages, x.unsettled = d.unsettled
      PROVE  Good(x)
  <2>1. SettledOK(x) /\ (x.run.answering => x.unsettled["ANSWER"] >= 1)
    BY <1>1, <1>7 DEF Good, FileOK, SettledOK
  <2>2. OutputsOK(x)
    BY <1>1, <1>2, <1>3, <1>7 DEF Good, FileOK, OutputsOK
  <2>3. \A types \in SUBSET OutputTypes : Published(d, types) => Published(x, types)
    BY <1>1, <1>2, <1>7, Fields DEF Published
  <2>4. StagesOK(x)
    BY <1>1, <1>7, <2>3 DEF Good, FileOK, StagesOK, StageOutputs, OutputTypes
  <2>5. JobOK(x)
    BY <1>1, <1>7 DEF Good, FileOK, JobOK
  <2>6. ApprovalOK(x)
    BY <1>1, <1>7, <2>3 DEF Good, FileOK, ApprovalOK, IsDecided, OutputTypes
  <2>7. PacketsOK(x)
    BY <1>1, <1>7 DEF Good, FileOK, PacketsOK, NoneOpen
  <2>8. FileOK(x)
    BY <1>7, <2>1, <2>2, <2>4, <2>5, <2>6, <2>7 DEF FileOK
  <2>9. \A u \in OutputTypes : x.outputs[u] >= db.outputs[u]
    <3>1. \A u \in OutputTypes : x.outputs[u] >= d.outputs[u] /\ d.outputs[u] >= db.outputs[u]
      BY <1>1, <1>2, <1>7 DEF Good, Follows
    <3>2. \A u \in OutputTypes : x.outputs[u] \in Nat /\ d.outputs[u] \in Nat
      BY <1>1, <1>7, Fields
    <3>3. \A u \in OutputTypes : db.outputs[u] \in Nat
      BY Fields DEF Section
    <3>4. QED
      BY <3>1, <3>2, <3>3
  <2>10. QED
    BY <1>1, <1>7, <2>8, <2>9 DEF Good, Follows
<1>8. Good(stored) /\ Good(e)
  BY <1>4, <1>5, <1>7 DEF Others
<1>9. ss \o <<stored, e>> = Append(Append(ss, stored), e)
  BY <1>4, <1>5 DEF Section
<1>10. Section(ss \o <<stored, e>>) /\ Final(ss \o <<stored, e>>) = e
  <2>1. Section(Append(ss, stored))
    BY <1>8, SectionGrows
  <2>2. Section(Append(Append(ss, stored), e)) /\ Final(Append(Append(ss, stored), e)) = e
    BY <1>8, <2>1, SectionGrows
  <2>3. QED
    BY <1>9, <2>2
<1>11. /\ e.outputs = outputs /\ e.run = d.run /\ e.job = d.job /\ e.packets = d.packets
       /\ e.approval = d.approval /\ e.model = d.model /\ e.result = d.result
       /\ e.stages = d.stages /\ e.unsettled = d.unsettled
  BY <1>4, <1>5 DEF Others
<1>12. Published(e, {t})
  BY <1>2, <1>3, <1>11 DEF Published
<1>13. QED
  BY <1>2, <1>6, <1>10, <1>11, <1>12 DEF MoreOutputs, Kept

(* More of the same outputs. *)
LEMMA StillPublished ==
  ASSUME NEW d \in Database, NEW e \in Database, MoreOutputs(d, e),
         NEW types \in SUBSET OutputTypes, Published(d, types)
  PROVE  Published(e, types)
BY Fields DEF MoreOutputs, Published

(* The types whose writers look for an output first. *)
LEMMA OnceTypes ==
  /\ "TASK_SPEC" \in OutputTypes \ {"DATA_QUALITY_REPORT"}
  /\ "SPLIT_MANIFEST" \in OutputTypes \ {"DATA_QUALITY_REPORT"}
  /\ "BASELINE_RESULT" \in OutputTypes \ {"DATA_QUALITY_REPORT"}
  /\ "TRIAL_RESULT" \in OutputTypes \ {"DATA_QUALITY_REPORT"}
  /\ "RUN_REPORT" \in OutputTypes \ {"DATA_QUALITY_REPORT"}
  /\ "FAILURE_REPORT" \in OutputTypes \ {"DATA_QUALITY_REPORT"}
BY DEF OutputTypes

(* An output of a type that a run has once. *)
LEMMA OutputOnce ==
  ASSUME NEW ss, Section(ss), NEW t \in OutputTypes \ {"DATA_QUALITY_REPORT"}
  PROVE  LET tt == CommitOutputOnce(ss, t)
             d == Final(ss)
             e == Final(tt)
         IN  /\ Section(tt) /\ Published(e, {t})
             /\ MoreOutputs(d, e) /\ Kept(d, e) /\ e.stages = d.stages
<1>1. Final(ss) \in Database
  BY SectionEnds
<1>2. Final(ss).outputs \in [OutputTypes -> Nat]
  BY <1>1, Fields
<1>3. CASE Final(ss).outputs[t] > 0
  BY <1>2, <1>3 DEF CommitOutputOnce, MoreOutputs, Kept, Published
<1>4. CASE Final(ss).outputs[t] = 0
  BY <1>4, OutputCommitted DEF CommitOutputOnce
<1>5. QED
  BY <1>2, <1>3, <1>4

(* A stage is there when the prefix has its number. *)
LEMMA StageNumber ==
  ASSUME NEW d \in Database, StagesOK(d), NEW n \in 1..6
  PROVE  HasStage(d, Phases[n]) <=> Len(d.stages) >= n
<1>1. d.stages \in Seq(Phase) /\ Len(d.stages) \in Nat /\ DOMAIN d.stages = 1..Len(d.stages)
  BY Fields
<1>2. \A i, j \in 1..6 : Phases[i] = Phases[j] => i = j
  BY PhaseNumbers
<1>3. QED
  BY <1>1, <1>2 DEF HasStage, StagesOK

(* The next stage. *)
LEMMA StageCompleted ==
  ASSUME NEW ss, Section(ss), NEW n \in 1..5, Len(Final(ss).stages) >= n - 1,
         StageOutputs(Final(ss), n)
  PROVE  LET tt == CompleteStage(ss, Phases[n])
             d == Final(ss)
             e == Final(tt)
         IN  /\ Section(tt) /\ Len(e.stages) >= n /\ Len(e.stages) >= Len(d.stages)
             /\ Kept(d, e) /\ e.outputs = d.outputs
<1> DEFINE d == Final(ss)
           stages == Append(d.stages, Phases[n])
           e == [d EXCEPT !.stages = stages]
<1>1. Good(d) /\ d \in Database /\ d.stages \in Seq(Phase) /\ Len(d.stages) \in Nat
  BY SectionEnds, Fields
<1>2. HasStage(d, Phases[n]) <=> Len(d.stages) >= n
  BY <1>1, StageNumber DEF Good, FileOK
<1>3. CASE HasStage(d, Phases[n])
  BY <1>1, <1>2, <1>3 DEF CompleteStage, Kept
<1>4. CASE ~HasStage(d, Phases[n])
  <2>1. Len(d.stages) = n - 1
    BY <1>1, <1>2, <1>4
  <2>2. /\ stages \in Seq(Phase) /\ Len(stages) = n /\ stages[n] = Phases[n]
        /\ \A i \in 1..(n - 1) : stages[i] = d.stages[i]
        /\ DOMAIN stages = 1..n
    <3>1. Phases[n] \in Phase
      BY PhaseNumbers DEF Phase
    <3>2. QED
      BY <1>1, <2>1, <3>1
  <2> HIDE DEF stages
  <2>3. e \in Database /\ e.stages = stages /\ Others(d, e, "stages")
    BY <1>1, <2>2, StagesWritten
  <2> HIDE DEF e
  <2>4. Kept(d, e) /\ e.outputs = d.outputs
    BY <2>3 DEF Others, Kept
  <2>5. FileOK(e)
    <3>1. SettledOK(e) /\ OutputsOK(e) /\ (e.run.answering => e.unsettled["ANSWER"] >= 1)
      BY <1>1, <2>4 DEF Good, FileOK, SettledOK, OutputsOK, Kept
    <3>2. StagesOK(e)
      <4>1. \A i \in DOMAIN e.stages : e.stages[i] = Phases[i]
        BY <1>1, <2>1, <2>2, <2>3 DEF Good, FileOK, StagesOK
      <4>2. StageOutputs(e, n)
        BY <2>4 DEF StageOutputs, Published
      <4>3. Len(e.stages) = n
        BY <2>2, <2>3
      <4>4. QED
        BY <4>1, <4>2, <4>3 DEF StagesOK, StageOutputs
    <3>3. JobOK(e)
      BY <1>1, <2>1, <2>2, <2>3, <2>4 DEF Good, FileOK, JobOK, Kept
    <3>4. ApprovalOK(e)
      BY <1>1, <2>1, <2>2, <2>3, <2>4 DEF Good, FileOK, ApprovalOK, IsDecided, Published, Kept
    <3>5. PacketsOK(e)
      BY <1>1, <2>4 DEF Good, FileOK, PacketsOK, NoneOpen, Kept
    <3>6. QED
      BY <2>3, <3>1, <3>2, <3>3, <3>4, <3>5 DEF FileOK
  <2>6. Len(db.stages) \in Nat
    BY Fields DEF Section
  <2>7. Good(e)
    BY <1>1, <2>1, <2>2, <2>3, <2>4, <2>5, <2>6 DEF Good, Follows, Kept
  <2>8. CompleteStage(ss, Phases[n]) = Append(ss, e)
    BY <1>4 DEF CompleteStage, e, stages
  <2>9. Section(Append(ss, e)) /\ Final(Append(ss, e)) = e
    BY <2>7, SectionGrows
  <2>10. QED
    BY <2>1, <2>2, <2>3, <2>4, <2>8, <2>9
<1>5. QED
  BY <1>3, <1>4

(* When a run may be finalized, and what its finalization leaves. *)
MayFinalize(d, outcome, eligible) ==
  /\ outcome \in {"SUCCEEDED", "FAILED", "CANCELED"}
  /\ eligible \in BOOLEAN /\ (eligible = FALSE \/ d.model = TRUE)
  /\ outcome = "SUCCEEDED" => Len(d.stages) >= 5 /\ Published(d, {"MODEL_CARD", "RUN_REPORT"})

Finalizes(ss, tt) ==
  LET d == Final(ss)
      e == Final(tt)
  IN  /\ Section(tt) /\ e.result # NoResult
      /\ d.result = NoResult => e.run.status = "TERMINAL"
      /\ d.result # NoResult => tt = ss
      /\ Len(e.stages) >= Len(d.stages)
      /\ e.job = d.job /\ e.packets = d.packets /\ e.approval = d.approval
      /\ e.model = d.model /\ e.outputs = d.outputs /\ e.unsettled = d.unsettled

(* The result, and with it the end of the run. *)
LEMMA Finalized ==
  ASSUME NEW ss, Section(ss), NEW outcome, NEW eligible, MayFinalize(Final(ss), outcome, eligible)
  PROVE  Finalizes(ss, Finalize(ss, outcome, eligible))
<1> DEFINE d == Final(ss)
           done == outcome = "SUCCEEDED"
           phase == IF done THEN "PACKAGE" ELSE d.run.phase
           run == [d.run EXCEPT !.status = "TERMINAL", !.outcome = outcome, !.actions = {},
                                !.blocking = "none", !.phase = phase]
           result == [outcome |-> outcome, eligible |-> eligible]
           stages == IF done THEN Append(d.stages, "PACKAGE") ELSE d.stages
           e == [d EXCEPT !.result = result, !.run = run, !.stages = stages]
<1> /\ outcome \in {"SUCCEEDED", "FAILED", "CANCELED"}
    /\ eligible \in BOOLEAN /\ (eligible = FALSE \/ d.model = TRUE)
    /\ done => Len(d.stages) >= 5 /\ Published(d, {"MODEL_CARD", "RUN_REPORT"})
  BY DEF MayFinalize
<1>1. /\ Good(d) /\ d \in Database /\ d.stages \in Seq(Phase) /\ Len(d.stages) \in Nat
      /\ d.run \in Run
  BY SectionEnds, Fields
<1>2. CASE d.result # NoResult
  BY <1>1, <1>2 DEF Finalize, Finalizes
<1>3. CASE d.result = NoResult
  <2>1. /\ run \in Run /\ run.status = "TERMINAL" /\ run.outcome = outcome /\ run.actions = {}
        /\ run.blocking = "none" /\ run.answering = d.run.answering
    <3>1. phase \in Phase
      BY <1>1, PhaseNumbers DEF Run
    <3> HIDE DEF phase
    <3>2. QED
      BY <1>1, <3>1 DEF Run
  <2>2. /\ result \in Result /\ result # NoResult
        /\ result.outcome = outcome /\ result.eligible = eligible
    BY DEF Result, NoResult
  <2>3. PICK n \in Nat : n = Len(d.stages)
    BY <1>1
  <2>4. done => n = 5
    <3>1. n <= 6 /\ ~(n >= 6)
      BY <1>1, <1>3, <2>3 DEF Good, FileOK, StagesOK
    <3>2. done => n >= 5
      BY <2>3
    <3>3. QED
      BY <3>1, <3>2
  <2>5. /\ stages \in Seq(Phase)
        /\ done => /\ Len(stages) = n + 1 /\ stages[n + 1] = "PACKAGE"
                   /\ \A i \in 1..n : stages[i] = d.stages[i]
        /\ ~done => stages = d.stages
    <3>1. CASE done
      <4>1. stages = Append(d.stages, "PACKAGE") /\ "PACKAGE" \in Phase
        BY <3>1, PhaseNumbers
      <4>2. QED
        BY <1>1, <2>3, <3>1, <4>1
    <3>2. CASE ~done
      BY <1>1, <3>2
    <3>3. QED
      BY <3>1, <3>2
  <2>6. Finalize(ss, outcome, eligible) = Append(ss, e)
    BY <1>3, Zenon DEF Finalize
  <2> HIDE DEF run, result, stages
  <2>7. /\ e \in Database /\ e.result = result /\ e.run = run /\ e.stages = stages
        /\ e.job = d.job /\ e.packets = d.packets /\ e.approval = d.approval
        /\ e.model = d.model /\ e.outputs = d.outputs /\ e.unsettled = d.unsettled
    BY <1>1, <2>1, <2>2, <2>5 DEF Database
  <2> HIDE DEF e
  <2>8. Len(stages) \in Nat /\ Len(stages) >= Len(d.stages)
    BY <1>1, <2>3, <2>5
  <2>9. FileOK(e)
    <3>1. SettledOK(e) /\ OutputsOK(e) /\ (e.run.answering => e.unsettled["ANSWER"] >= 1)
      BY <1>1, <2>1, <2>2, <2>7 DEF Good, FileOK, SettledOK, OutputsOK
    <3>2. StagesOK(e)
      <4>1. CASE done
        <5>1. DOMAIN stages = 1..(n + 1) /\ n + 1 = 6
          BY <2>4, <2>5, <4>1
        <5>2. \A i \in DOMAIN e.stages : e.stages[i] = Phases[i]
          <6>1. \A i \in 1..n : d.stages[i] = Phases[i]
            BY <1>1, <2>3 DEF Good, FileOK, StagesOK
          <6>2. stages[n + 1] = Phases[n + 1]
            BY <2>5, <4>1, <5>1, PhaseNumbers
          <6>3. QED
            BY <2>5, <2>7, <4>1, <5>1, <6>1, <6>2
        <5>3. StageOutputs(d, n) /\ n = 5
          BY <1>1, <2>3, <2>4, <4>1 DEF Good, FileOK, StagesOK
        <5>4. StageOutputs(e, n + 1)
          BY <2>7, <4>1, <5>3 DEF StageOutputs, Published
        <5>5. Len(e.stages) = n + 1 /\ n + 1 <= 6
          BY <2>5, <2>7, <4>1, <5>1
        <5>6. QED
          BY <2>2, <2>7, <5>2, <5>4, <5>5 DEF StagesOK, StageOutputs
      <4>2. CASE ~done
        BY <1>1, <1>3, <2>2, <2>5, <2>7, <4>2 DEF Good, FileOK, StagesOK, StageOutputs, Published
      <4>3. QED
        BY <4>1, <4>2
    <3>3. JobOK(e)
      BY <1>1, <2>1, <2>7, <2>8 DEF Good, FileOK, JobOK, Resting
    <3>4. ApprovalOK(e)
      BY <1>1, <2>1, <2>2, <2>7, <2>8 DEF Good, FileOK, ApprovalOK, IsDecided, Resting, Published
    <3>5. PacketsOK(e)
      BY <1>1, <2>1, <2>7 DEF Good, FileOK, PacketsOK, NoneOpen
    <3>6. QED
      BY <2>7, <3>1, <3>2, <3>3, <3>4, <3>5 DEF FileOK
  <2>10. Len(db.stages) \in Nat
    BY Fields DEF Section
  <2>11. Good(e)
    BY <1>1, <1>3, <2>7, <2>8, <2>9, <2>10 DEF Good, Follows
  <2>12. Section(Append(ss, e)) /\ Final(Append(ss, e)) = e
    BY <2>11, SectionGrows
  <2>13. QED
    BY <1>3, <2>1, <2>2, <2>6, <2>7, <2>8, <2>12 DEF Finalizes
<1>4. QED
  BY <1>2, <1>3

(* _fail_run *)
LEMMA RunFailed ==
  ASSUME NEW ss, Section(ss)
  PROVE  LET tt == FailRun(ss)
             d == Final(ss)
             e == Final(tt)
         IN  /\ Section(tt)
             /\ d.result = NoResult => e.run.status = "TERMINAL"
             /\ d.result # NoResult => e.run = d.run
             /\ Len(e.stages) >= Len(d.stages) /\ MoreOutputs(d, e)
             /\ e.job = d.job /\ e.packets = d.packets /\ e.approval = d.approval
<1> DEFINE reported == CommitOutputOnce(ss, "FAILURE_REPORT")
<1>1. /\ Section(reported) /\ MoreOutputs(Final(ss), Final(reported))
      /\ Kept(Final(ss), Final(reported))
      /\ Final(reported).stages = Final(ss).stages
  BY OutputOnce, OnceTypes
<1> HIDE DEF reported
<1> DEFINE tt == Finalize(reported, "FAILED", FALSE)
<1>2. MayFinalize(Final(reported), "FAILED", FALSE)
  BY DEF MayFinalize
<1>3. Finalizes(reported, tt)
  BY <1>1, <1>2, Finalized
<1> HIDE DEF tt
<1>4. FailRun(ss) = tt
  BY DEF FailRun, tt, reported
<1>5. QED
  BY <1>1, <1>3, <1>4 DEF Finalizes, Kept, MoreOutputs

(* What another running phase changes: status and phase. *)
LEMMA Transited ==
  ASSUME NEW ss, Section(ss), NEW p \in Phase, ~IsDecided(Final(ss)),
         Final(ss).job.status # "COMPLETED", NoneOpen(Final(ss))
  PROVE  LET tt == TransitionTo(ss, p)
             d == Final(ss)
             e == Final(tt)
         IN  /\ Section(tt) /\ Others(d, e, "run") /\ e.run.status \in {d.run.status, "RUNNING"}
<1> DEFINE d == Final(ss)
           r == [d.run EXCEPT !.phase = p, !.status = "RUNNING"]
<1>1. Good(d) /\ d.run \in Run
  BY SectionEnds, Fields
<1>2. r \in Run /\ r.status = "RUNNING" /\ r.answering = d.run.answering
  BY <1>1 DEF Run
<1>3. CASE PhaseNo(d.run.phase) >= PhaseNo(p)
  BY <1>3 DEF TransitionTo, Others
<1>4. CASE ~(PhaseNo(d.run.phase) >= PhaseNo(p))
  <2>1. TransitionTo(ss, p) = PutRun(ss, r)
    BY <1>4 DEF TransitionTo
  <2> HIDE DEF r
  <2>2. /\ Section(PutRun(ss, r)) /\ Final(PutRun(ss, r)).run = r
        /\ Others(d, Final(PutRun(ss, r)), "run")
    BY <1>1, <1>2, RunGoesOn DEF Resting, Good, FileOK
  <2>3. QED
    BY <1>2, <2>1, <2>2
<1>5. QED
  BY <1>3, <1>4

(* Writing the packets: none is opened but for a run that waits. *)
LEMMA PacketsPut ==
  ASSUME NEW ss, Section(ss), NEW ps \in Seq(Packet),
         \A i, j \in DOMAIN ps : ps[i].status = "OPEN" /\ ps[j].status = "OPEN" => i = j,
         \/ \A i \in DOMAIN ps : ps[i].status # "OPEN"
         \/ Final(ss).run.status \in {"WAITING_USER", "PAUSED", "TERMINAL"}
  PROVE  /\ Section(PutPackets(ss, ps)) /\ Final(PutPackets(ss, ps)).packets = ps
         /\ Others(Final(ss), Final(PutPackets(ss, ps)), "packets")
<1> DEFINE d == Final(ss)
           e == [d EXCEPT !.packets = ps]
<1>1. Good(d) /\ d \in Database
  BY SectionEnds
<1>2. e \in Database /\ e.packets = ps /\ Others(d, e, "packets")
  BY <1>1, PacketsWritten
<1> HIDE DEF e
<1>3. FileOK(e)
  <2>1. /\ e.run = d.run /\ e.job = d.job /\ e.packets = ps /\ e.approval = d.approval
        /\ e.model = d.model /\ e.result = d.result /\ e.stages = d.stages
        /\ e.outputs = d.outputs /\ e.unsettled = d.unsettled
    BY <1>2 DEF Others
  <2>2. /\ SettledOK(e) /\ OutputsOK(e) /\ (e.run.answering => e.unsettled["ANSWER"] >= 1)
        /\ JobOK(e)
    BY <1>1, <2>1 DEF Good, FileOK, SettledOK, OutputsOK, JobOK
  <2>3. StagesOK(e) /\ ApprovalOK(e)
    BY <1>1, <2>1 DEF Good, FileOK, StagesOK, StageOutputs, Published, ApprovalOK, IsDecided
  <2>4. PacketsOK(e)
    BY <2>1 DEF PacketsOK, NoneOpen
  <2>5. QED
    BY <1>2, <2>2, <2>3, <2>4 DEF FileOK
<1>4. Good(e)
  BY <1>1, <1>2, <1>3 DEF Good, Follows, Others
<1>5. PutPackets(ss, ps) = Append(ss, e)
  BY DEF PutPackets, e
<1>6. QED
  BY <1>2, <1>4, <1>5, SectionGrows

(* _request_decision: the run waits, then the packet is there. *)
LEMMA DecisionRequested ==
  ASSUME NEW ss, Section(ss), NEW topic \in Topics, ~IsDecided(Final(ss)),
         Final(ss).job.status # "COMPLETED", NoneOpen(Final(ss))
  PROVE  LET tt == RequestDecision(ss, topic)
             d == Final(ss)
             e == Final(tt)
         IN  /\ Section(tt) /\ e.run.status = "WAITING_USER"
             /\ e.job = d.job /\ e.approval = d.approval /\ e.stages = d.stages
<1> DEFINE d == Final(ss)
           r == [d.run EXCEPT !.phase = "PLAN", !.status = "WAITING_USER", !.blocking = "packet",
                              !.actions = {"ANSWER", "PAUSE", "CANCEL"}]
           waiting == PutRun(ss, r)
           w == Final(waiting)
           ps == Append(w.packets, [asks |-> topic, status |-> "OPEN"])
<1>1. Good(d) /\ d.run \in Run
  BY SectionEnds, Fields
<1>2. r \in Run /\ r.status = "WAITING_USER" /\ r.answering = d.run.answering
  BY <1>1, PhaseNumbers DEF Run, Commands
<1>3. RequestDecision(ss, topic) = PutPackets(waiting, ps)
  BY DEF RequestDecision, NewPacket
<1> HIDE DEF r
<1>4. Section(waiting) /\ w.run = r /\ Others(d, w, "run")
  BY <1>1, <1>2, RunGoesOn DEF Resting, Good, FileOK
<1> HIDE DEF waiting
<1>5. w.packets \in Seq(Packet) /\ [asks |-> topic, status |-> "OPEN"] \in Packet
  BY <1>4, SectionEnds, Fields DEF Packet
<1>6. NoneOpen(w)
  BY <1>4 DEF Others, NoneOpen
<1>7. /\ ps \in Seq(Packet)
      /\ \A i, j \in DOMAIN ps : ps[i].status = "OPEN" /\ ps[j].status = "OPEN" => i = j
  <2>1. /\ ps \in Seq(Packet) /\ DOMAIN ps = 1..(Len(w.packets) + 1) /\ Len(w.packets) \in Nat
        /\ \A i \in 1..Len(w.packets) : ps[i] = w.packets[i]
        /\ DOMAIN w.packets = 1..Len(w.packets)
    BY <1>5
  <2>2. \A i \in DOMAIN ps : ps[i].status = "OPEN" => i = Len(w.packets) + 1
    BY <1>6, <2>1 DEF NoneOpen
  <2>3. QED
    BY <2>1, <2>2
<1> HIDE DEF ps
<1>8. Section(PutPackets(waiting, ps)) /\ Others(w, Final(PutPackets(waiting, ps)), "packets")
  BY <1>2, <1>4, <1>7, PacketsPut
<1>9. QED
  BY <1>2, <1>3, <1>4, <1>8 DEF Others

(* Counting commands. *)
LEMMA UnsettledPut ==
  ASSUME NEW ss, Section(ss), NEW u \in [Commands -> Nat],
         Final(ss).run.answering => u["ANSWER"] >= 1
  PROVE  LET tt == Append(ss, [Final(ss) EXCEPT !.unsettled = u])
         IN  Section(tt) /\ Final(tt).unsettled = u /\ Others(Final(ss), Final(tt), "unsettled")
<1> DEFINE d == Final(ss)
           e == [d EXCEPT !.unsettled = u]
<1>1. Good(d) /\ d \in Database
  BY SectionEnds
<1>2. e \in Database /\ e.unsettled = u /\ Others(d, e, "unsettled")
  BY <1>1, UnsettledWritten
<1> HIDE DEF e
<1>3. FileOK(e)
  <2>1. /\ e.run = d.run /\ e.job = d.job /\ e.packets = d.packets /\ e.approval = d.approval
        /\ e.model = d.model /\ e.result = d.result /\ e.stages = d.stages
        /\ e.outputs = d.outputs /\ e.unsettled = u
    BY <1>2 DEF Others
  <2>2. /\ SettledOK(e) /\ OutputsOK(e) /\ (e.run.answering => e.unsettled["ANSWER"] >= 1)
        /\ JobOK(e)
    BY <1>1, <2>1 DEF Good, FileOK, SettledOK, OutputsOK, JobOK
  <2>3. StagesOK(e) /\ ApprovalOK(e)
    BY <1>1, <2>1 DEF Good, FileOK, StagesOK, StageOutputs, Published, ApprovalOK, IsDecided
  <2>4. PacketsOK(e)
    BY <1>1, <2>1 DEF Good, FileOK, PacketsOK, NoneOpen
  <2>5. QED
    BY <1>2, <2>2, <2>3, <2>4 DEF FileOK
<1>4. Good(e)
  BY <1>1, <1>2, <1>3 DEF Good, Follows, Others
<1>5. Section(Append(ss, e)) /\ Final(Append(ss, e)) = e
  BY <1>4, SectionGrows
<1>6. QED
  BY <1>2, <1>5 DEF e

(* A command is accepted. *)
LEMMA Accepted ==
  ASSUME NEW ss, Section(ss), NEW c \in Commands
  PROVE  LET tt == Accept(ss, c)
             d == Final(ss)
             e == Final(tt)
         IN  /\ Section(tt) /\ Others(d, e, "unsettled") /\ e.unsettled[c] >= 1
             /\ \A k \in Commands : e.unsettled[k] >= d.unsettled[k]
<1> DEFINE d == Final(ss)
           u == [d.unsettled EXCEPT ![c] = @ + 1]
<1>1. Good(d) /\ d.unsettled \in [Commands -> Nat]
  BY SectionEnds, Fields
<1>2. u \in [Commands -> Nat] /\ u[c] >= 1 /\ \A k \in Commands : u[k] >= d.unsettled[k]
  BY <1>1
<1>3. "ANSWER" \in Commands /\ d.unsettled["ANSWER"] \in Nat /\ u["ANSWER"] \in Nat
  BY <1>1, <1>2 DEF Commands
<1>4. Accept(ss, c) = Append(ss, [d EXCEPT !.unsettled = u])
  BY DEF Accept
<1> HIDE DEF u
<1>5. d.run.answering => u["ANSWER"] >= 1
  BY <1>1, <1>2, <1>3 DEF Good, FileOK
<1>6. QED
  BY <1>2, <1>4, <1>5, UnsettledPut

(* An accepted command is settled, an answer only when nothing awaits it. *)
LEMMA CommandSettled ==
  ASSUME NEW ss, Section(ss), NEW c \in Commands, Final(ss).unsettled[c] >= 1,
         c = "ANSWER" => ~Final(ss).run.answering
  PROVE  LET tt == Settle(ss, c)
             d == Final(ss)
             e == Final(tt)
         IN  Section(tt) /\ Others(d, e, "unsettled")
<1> DEFINE d == Final(ss)
           u == [d.unsettled EXCEPT ![c] = @ - 1]
<1>1. Good(d) /\ d.unsettled \in [Commands -> Nat]
  BY SectionEnds, Fields
<1>2. u \in [Commands -> Nat] /\ \A k \in Commands : k # c => u[k] = d.unsettled[k]
  BY <1>1
<1>3. "ANSWER" \in Commands
  BY DEF Commands
<1>4. Settle(ss, c) = Append(ss, [d EXCEPT !.unsettled = u])
  BY DEF Settle
<1> HIDE DEF u
<1>5. d.run.answering => u["ANSWER"] >= 1
  BY <1>1, <1>2, <1>3 DEF Good, FileOK
<1>6. QED
  BY <1>2, <1>4, <1>5, UnsettledPut

-----------------------------------------------------------------------------
(* The rest of the mutations. *)

(* Writing one column of a job's row. *)
LEMMA ColumnTypes ==
  ASSUME NEW j \in Job
  PROVE  /\ \A x \in Steps : [j EXCEPT !.step = x] \in Job
         /\ \A x \in JobStatus : [j EXCEPT !.status = x] \in Job
         /\ \A x \in 0..MaxAttempts : [j EXCEPT !.attempt = x] \in Job
         /\ \A x \in Time : [j EXCEPT !.avail = x] \in Job
         /\ \A x \in Time : [j EXCEPT !.expires = x] \in Job
         /\ \A x \in Nat : [j EXCEPT !.gen = x] \in Job
         /\ \A x \in Nat : [j EXCEPT !.epoch = x] \in Job
BY DEF Job

(* What the operations write is of the columns' types. *)
LEMMA ColumnValues ==
  /\ NoTime \in Time /\ 0 \in Time /\ 0 \in 0..MaxAttempts
  /\ \A delay \in {0, 1} : 0 + delay \in Time
  /\ JobStatus = {"READY", "RETRY", "LEASED", "WAITING", "COMPLETED", "DEAD"}
  /\ \A j \in Job : j.gen + 1 \in Nat /\ j.epoch + 1 \in Nat
  /\ \A j \in Job : Claimable(j, 0) => j.attempt + 1 \in 0..MaxAttempts
BY AttemptsAssumption DEF Time, NoTime, JobStatus, Job, Claimable

(* A checkpoint's row. *)
LEMMA JobCheckpointed ==
  ASSUME NEW j \in Job, NEW s \in Steps, NEW status \in {"READY", "WAITING"}
  PROVE  /\ Checkpointed(j, s, status, 0) \in Job
         /\ Checkpointed(j, s, status, 0).status = status
         /\ Checkpointed(j, s, status, 0).step = s
<1>1. Checkpointed(j, s, status, 0) \in Job
  BY ColumnTypes, ColumnValues DEF Checkpointed
<1>2. QED
  BY <1>1 DEF Checkpointed, Job

(* What the other operations leave in a job's row. *)
LEMMA JobOperations ==
  /\ NewJob("PROFILE", 0) \in Job /\ NewJob("PROFILE", 0).status = "READY"
  /\ NewJob("PROFILE", 0).step = "PROFILE"
  /\ \A j \in Job :
       /\ Woken(j, 0) \in Job /\ Woken(j, 0).status = "READY" /\ Woken(j, 0).step = j.step
       /\ Completed(j) \in Job /\ Completed(j).status = "COMPLETED" /\ Completed(j).step = j.step
       /\ \A delay \in {0, 1} :
            /\ Retried(j, 0, delay) \in Job /\ Retried(j, 0, delay).status \in {"RETRY", "DEAD"}
            /\ Retried(j, 0, delay).step = j.step
       /\ Claimable(j, 0) =>
            /\ Claimed(j, 0, 1) \in Job /\ Claimed(j, 0, 1).status = "LEASED"
            /\ Claimed(j, 0, 1).step = j.step
       /\ Swept(j, 0) \in Job /\ Swept(j, 0).status \in {j.status, "DEAD"}
       /\ Swept(j, 0).step = j.step
<1>1. /\ NewJob("PROFILE", 0) \in Job /\ NewJob("PROFILE", 0).status = "READY"
      /\ NewJob("PROFILE", 0).step = "PROFILE"
  BY ColumnValues DEF NewJob, Job, Steps
<1>2. ASSUME NEW j \in Job
      PROVE  /\ Woken(j, 0) \in Job /\ Woken(j, 0).status = "READY" /\ Woken(j, 0).step = j.step
             /\ Completed(j) \in Job /\ Completed(j).status = "COMPLETED"
             /\ Completed(j).step = j.step
  <2>1. Woken(j, 0) \in Job /\ Completed(j) \in Job
    BY ColumnTypes, ColumnValues DEF Woken, Completed
  <2>2. QED
    BY <2>1 DEF Woken, Completed, Job
<1>3. ASSUME NEW j \in Job, NEW delay \in {0, 1}
      PROVE  /\ Retried(j, 0, delay) \in Job /\ Retried(j, 0, delay).status \in {"RETRY", "DEAD"}
             /\ Retried(j, 0, delay).step = j.step
  <2>1. Retried(j, 0, delay) \in Job
    BY ColumnTypes, ColumnValues DEF Retried
  <2>2. QED
    BY <2>1 DEF Retried, Job
<1>4. ASSUME NEW j \in Job, Claimable(j, 0)
      PROVE  /\ Claimed(j, 0, 1) \in Job /\ Claimed(j, 0, 1).status = "LEASED"
             /\ Claimed(j, 0, 1).step = j.step
  <2>1. Claimed(j, 0, 1) \in Job
    BY <1>4, ColumnTypes, ColumnValues DEF Claimed
  <2>2. QED
    BY <2>1 DEF Claimed, Job
<1>5. ASSUME NEW j \in Job
      PROVE  /\ Swept(j, 0) \in Job /\ Swept(j, 0).status \in {j.status, "DEAD"}
             /\ Swept(j, 0).step = j.step
  <2>1. Swept(j, 0) \in Job
    BY ColumnTypes, ColumnValues DEF Swept
  <2>2. QED
    BY <2>1 DEF Swept, Job
<1>6. QED
  BY <1>1, <1>2, <1>3, <1>4, <1>5

(* wake_execution_job *)
LEMMA JobWoken ==
  ASSUME NEW ss, Section(ss)
  PROVE  LET tt == Wake(ss)
             d == Final(ss)
             e == Final(tt)
         IN  /\ Section(tt) /\ Others(d, e, "job")
             /\ e.job.status \in Closed => d.job.status \in Closed
<1> DEFINE d == Final(ss)
           j == d.job
<1>1. Good(d) /\ d.job \in Job \cup {NoJob}
  BY SectionEnds, Fields
<1>2. CASE j = NoJob \/ j.status \in Closed
  BY <1>2 DEF Wake, Others
<1>3. CASE ~(j = NoJob \/ j.status \in Closed)
  <2>1. Wake(ss) = PutJob(ss, Woken(j, 0))
    BY <1>3 DEF Wake
  <2>2. Woken(j, 0) \in Job /\ Woken(j, 0).status = "READY" /\ Woken(j, 0).step = j.step
    BY <1>1, <1>3, JobOperations
  <2>3. Woken(j, 0).step # "PROFILE" => Len(d.stages) >= 2
    BY <1>1, <1>3, <2>2 DEF Good, FileOK, JobOK
  <2>4. /\ Section(PutJob(ss, Woken(j, 0))) /\ Final(PutJob(ss, Woken(j, 0))).job = Woken(j, 0)
        /\ Others(d, Final(PutJob(ss, Woken(j, 0))), "job")
    BY <2>2, <2>3, JobGoesOn
  <2>5. QED
    BY <2>1, <2>2, <2>4 DEF Closed
<1>4. QED
  BY <1>2, <1>3

(* Opening, deciding and expiring an approval of what was published. *)
LEMMA ApprovalPut ==
  ASSUME NEW ss, Section(ss), NEW s \in Approval \ {"none"},
         Len(Final(ss).stages) >= 5, Published(Final(ss), {"MODEL_CARD", "RUN_REPORT"}),
         Final(ss).model = FALSE \/ s = "APPROVED", s = "OPEN" \/ Final(ss).run.status \in Resting
  PROVE  /\ Section(PutApproval(ss, s)) /\ Final(PutApproval(ss, s)).approval = s
         /\ Others(Final(ss), Final(PutApproval(ss, s)), "approval")
<1> DEFINE d == Final(ss)
           e == [d EXCEPT !.approval = s]
<1>1. Good(d) /\ d \in Database
  BY SectionEnds
<1>2. e \in Database /\ e.approval = s /\ Others(d, e, "approval")
  BY <1>1, ApprovalWritten
<1> HIDE DEF e
<1>3. FileOK(e)
  <2>1. /\ e.run = d.run /\ e.job = d.job /\ e.packets = d.packets /\ e.approval = s
        /\ e.model = d.model /\ e.result = d.result /\ e.stages = d.stages
        /\ e.outputs = d.outputs /\ e.unsettled = d.unsettled
    BY <1>2 DEF Others
  <2>2. /\ SettledOK(e) /\ OutputsOK(e) /\ (e.run.answering => e.unsettled["ANSWER"] >= 1)
        /\ JobOK(e)
    BY <1>1, <2>1 DEF Good, FileOK, SettledOK, OutputsOK, JobOK
  <2>3. StagesOK(e) /\ PacketsOK(e)
    BY <1>1, <2>1 DEF Good, FileOK, StagesOK, StageOutputs, Published, PacketsOK, NoneOpen
  <2>4. d.model \in BOOLEAN
    BY <1>1, Fields
  <2>5. ApprovalOK(e)
    BY <1>1, <2>1, <2>4 DEF Good, FileOK, ApprovalOK, IsDecided, Published
  <2>6. QED
    BY <1>2, <2>2, <2>3, <2>5 DEF FileOK
<1>4. Good(e)
  BY <1>1, <1>2, <1>3 DEF Good, Follows, Others
<1>5. PutApproval(ss, s) = Append(ss, e)
  BY DEF PutApproval, e
<1>6. QED
  BY <1>2, <1>4, <1>5, SectionGrows

(* The approved candidate is registered. *)
LEMMA ModelRegistered ==
  ASSUME NEW ss, Section(ss), Final(ss).approval = "APPROVED"
  PROVE  /\ Section(RegisterModel(ss)) /\ Final(RegisterModel(ss)).model = TRUE
         /\ Others(Final(ss), Final(RegisterModel(ss)), "model")
<1> DEFINE d == Final(ss)
           e == [d EXCEPT !.model = TRUE]
<1>1. Good(d) /\ d \in Database
  BY SectionEnds
<1>2. e \in Database /\ e.model = TRUE /\ Others(d, e, "model")
  BY <1>1, ModelWritten DEF Database
<1> HIDE DEF e
<1>3. FileOK(e)
  <2>1. /\ e.run = d.run /\ e.job = d.job /\ e.packets = d.packets /\ e.approval = d.approval
        /\ e.model = TRUE /\ e.result = d.result /\ e.stages = d.stages
        /\ e.outputs = d.outputs /\ e.unsettled = d.unsettled
    BY <1>2 DEF Others
  <2>2. /\ SettledOK(e) /\ OutputsOK(e) /\ (e.run.answering => e.unsettled["ANSWER"] >= 1)
        /\ JobOK(e)
    BY <1>1, <2>1 DEF Good, FileOK, SettledOK, OutputsOK, JobOK
  <2>3. StagesOK(e) /\ PacketsOK(e)
    BY <1>1, <2>1 DEF Good, FileOK, StagesOK, StageOutputs, Published, PacketsOK, NoneOpen
  <2>4. ApprovalOK(e)
    BY <1>1, <2>1 DEF Good, FileOK, ApprovalOK, IsDecided, Published
  <2>5. QED
    BY <1>2, <2>2, <2>3, <2>4 DEF FileOK
<1>4. Good(e)
  BY <1>1, <1>2, <1>3 DEF Good, Follows, Others
<1>5. RegisterModel(ss) = Append(ss, e)
  BY DEF RegisterModel, e
<1>6. QED
  BY <1>2, <1>4, <1>5, SectionGrows

(* The run waits for its approval. *)
LEMMA RunAwaits ==
  ASSUME NEW ss, Section(ss), NEW r \in Run, r.status = "WAITING_APPROVAL",
         r.actions = {"APPROVE", "CANCEL"}, Final(ss).approval # "none", NoneOpen(Final(ss)),
         r.answering = Final(ss).run.answering
  PROVE  /\ Section(PutRun(ss, r)) /\ Final(PutRun(ss, r)).run = r
         /\ Others(Final(ss), Final(PutRun(ss, r)), "run")
<1> DEFINE d == Final(ss)
           e == [d EXCEPT !.run = r]
<1>1. Good(d) /\ d \in Database
  BY SectionEnds
<1>2. e \in Database /\ e.run = r /\ Others(d, e, "run")
  BY <1>1, RunWritten
<1> HIDE DEF e
<1>3. FileOK(e)
  <2>1. /\ e.run = r /\ e.job = d.job /\ e.packets = d.packets /\ e.approval = d.approval
        /\ e.model = d.model /\ e.result = d.result /\ e.stages = d.stages
        /\ e.outputs = d.outputs /\ e.unsettled = d.unsettled
    BY <1>2 DEF Others
  <2>2. SettledOK(e) /\ OutputsOK(e) /\ (r.answering => e.unsettled["ANSWER"] >= 1)
    BY <1>1, <2>1 DEF Good, FileOK, SettledOK, OutputsOK, Resting
  <2>3. StagesOK(e)
    BY <1>1, <2>1 DEF Good, FileOK, StagesOK, StageOutputs, Published
  <2>4. JobOK(e) /\ PacketsOK(e)
    BY <1>1, <2>1 DEF Good, FileOK, JobOK, Resting, PacketsOK, NoneOpen
  <2>5. ApprovalOK(e)
    BY <1>1, <2>1 DEF Good, FileOK, ApprovalOK, IsDecided, Resting, Published
  <2>6. QED
    BY <1>2, <2>1, <2>2, <2>3, <2>4, <2>5 DEF FileOK
<1>4. Good(e)
  BY <1>1, <1>2, <1>3 DEF Good, Follows, Others
<1>5. PutRun(ss, r) = Append(ss, e)
  BY DEF PutRun, e
<1>6. QED
  BY <1>2, <1>4, <1>5, SectionGrows

-----------------------------------------------------------------------------
(* The steps.  Each keeps the invariant and a result that is there. *)

Holds == IInv' /\ (db.result # NoResult => db'.result = db.result)

(* What a step that the handler has no part in may not do to it. *)
Calm(d) ==
  /\ d.job.status \in Closed => db.job.status \in Closed
  /\ NoneOpen(db) => NoneOpen(d)
  /\ Ended => d.run.status = "TERMINAL"
  /\ db.run.status \in Resting => d.run.status \in Resting
  /\ d.run.status = "WAITING_APPROVAL" => db.run.status = "WAITING_APPROVAL"
  /\ IsDecided(d) => IsDecided(db) \/ db.run.status = "WAITING_APPROVAL"

(* A crash keeps a prefix of a section. *)
LEMMA ProcessDies ==
  ASSUME IInv, Good(db'), used.crashes < MaxCrashes, Down
  PROVE  Holds
<1>1. FileOK(db')
  BY DEF Good
<1>2. ProcessTypes'
  <2>1. used' \in [controls: 0..MaxControls, crashes: 0..MaxCrashes, failures: 0..MaxFailures]
    BY FlagsAssumption DEF IInv, ProcessOK, ProcessTypes, Down
  <2>2. Idle \in Handlers
    BY DEF Idle, Handlers, NoTicket, Nothing, Verdicts, HandlerPcs
  <2>3. NoCallback \in [pc: {"none", "waiting", "writing"}, phase: {"PLAN", "TRAIN"}]
    BY DEF NoCallback
  <2>4. QED
    BY <2>1, <2>2, <2>3 DEF Down, ProcessTypes
<1>3. /\ h'.pc = "idle" /\ h'.verdict.kind = "none" /\ cb'.pc = "none"
  BY DEF Down, Idle, Nothing, NoCallback
<1>4. HandlerOK' /\ VerdictOK' /\ CallbackOK' /\ RestOK'
  BY <1>3 DEF HandlerOK, VerdictOK, CallbackOK, RestOK, Parked, Busy, Past
<1>5. QED
  BY <1>1, <1>2, <1>4 DEF Holds, IInv, ProcessOK, Good, Follows

(* A crash between two mutations of a section keeps the invariant. *)
LEMMA CrashKeeps ==
  ASSUME IInv, NEW ss, Section(ss), CrashDuring(ss)
  PROVE  Holds
<1>1. PICK i \in 1..(Len(ss) - 1) : db' = ss[i]
  BY DEF CrashDuring
<1>2. Good(db')
  BY <1>1 DEF Section
<1>3. QED
  BY <1>2, ProcessDies DEF CrashDuring

(* A step of somebody else. *)
LEMMA CalmStep ==
  ASSUME IInv, Good(db'), Calm(db'), UNCHANGED <<up, poll, h, cb>>,
         used' \in [controls: 0..MaxControls, crashes: 0..MaxCrashes, failures: 0..MaxFailures]
  PROVE  Holds
<1>1. FileOK(db')
  BY DEF Good
<1>2. /\ Len(db'.stages) >= Len(db.stages) /\ Len(db'.stages) \in Nat /\ Len(db.stages) \in Nat
      /\ \A t \in OutputTypes : db'.outputs[t] >= db.outputs[t]
      /\ \A t \in OutputTypes : db'.outputs[t] \in Nat /\ db.outputs[t] \in Nat
      /\ db.job # NoJob => db'.job # NoJob
  BY <1>1, Fields DEF IInv, FileOK, Good, Follows
<1>3. ProcessTypes'
  BY DEF IInv, ProcessOK, ProcessTypes
<1>4. HandlerOK'
  <2>1. NoneOpen(db) => NoneOpen(db')
    BY DEF Calm
  <2>2. "MODEL_CARD" \in OutputTypes
    BY DEF OutputTypes
  <2>3. QED
    BY <1>2, <2>1, <2>2 DEF IInv, ProcessOK, HandlerOK, Calm, Ended
<1>5. VerdictOK'
  BY <1>2 DEF IInv, ProcessOK, VerdictOK, Calm
<1>6. CallbackOK'
  <2>1. NoneOpen(db) => NoneOpen(db')
    BY DEF Calm
  <2>2. "TASK_SPEC" \in OutputTypes
    BY DEF OutputTypes
  <2>3. QED
    BY <1>2, <2>1, <2>2 DEF IInv, ProcessOK, CallbackOK, Calm, Ended
<1>7. RestOK'
  BY DEF IInv, ProcessOK, RestOK, Parked, Calm, IsDecided
<1>8. QED
  BY <1>1, <1>3, <1>4, <1>5, <1>6, <1>7 DEF Holds, IInv, ProcessOK, Good, Follows

(* An endpoint's section, whole or cut by a crash, that leaves the handler be. *)
LEMMA ClientStep ==
  ASSUME IInv, NEW ss, Section(ss), Calm(Final(ss)), ClientSection(ss)
  PROVE  Holds
<1>1. CASE CrashDuring(ss)
  BY <1>1, CrashKeeps
<1>2. CASE db' = Final(ss) /\ UNCHANGED <<up, poll, h, cb, used>>
  <2>1. Good(db') /\ Calm(db')
    BY <1>2, SectionEnds
  <2>2. QED
    BY <1>2, <2>1, CalmStep DEF IInv, ProcessOK, ProcessTypes
<1>3. QED
  BY <1>1, <1>2 DEF ClientSection

(* The same of a control command, which the bound counts. *)
LEMMA ControlStep ==
  ASSUME IInv, NEW ss, Section(ss), Calm(Final(ss)), used.controls < MaxControls, ControlSection(ss)
  PROVE  Holds
<1>1. CASE CrashDuring(ss)
  BY <1>1, CrashKeeps
<1>2. CASE /\ db' = Final(ss) /\ used' = [used EXCEPT !.controls = @ + 1]
           /\ UNCHANGED <<up, poll, h, cb>>
  <2>1. Good(db') /\ Calm(db')
    BY <1>2, SectionEnds
  <2>2. used' \in [controls: 0..MaxControls, crashes: 0..MaxCrashes, failures: 0..MaxFailures]
    BY <1>2, FlagsAssumption DEF IInv, ProcessOK, ProcessTypes
  <2>3. QED
    BY <1>2, <2>1, <2>2, CalmStep
<1>3. QED
  BY <1>1, <1>2 DEF ControlSection

(* A run that goes on is undecided, and its job is not completed. *)
LEMMA GoingOn ==
  ASSUME FileOK(db)
  PROVE  /\ Section(<<db>>) /\ Final(<<db>>) = db /\ Good(db) /\ db.run \in Run
         /\ db.run.status \notin Resting => ~IsDecided(db) /\ db.job.status # "COMPLETED"
         /\ db.run.status \in {"ABSENT", "QUEUED", "RUNNING"} => NoneOpen(db)
         /\ db.run.answering => db.unsettled["ANSWER"] >= 1
BY SectionStarts, Fields DEF FileOK, JobOK, ApprovalOK, PacketsOK

(* create_run: no packet, approval or completed job can be there before it. *)
LEMMA CreateRunStep ==
  ASSUME IInv, CreateRun
  PROVE  Holds
<1>1. PICK known \in {{}, {"task"}} :
        LET r == [db.run EXCEPT !.status = "QUEUED", !.actions = {"PAUSE", "CANCEL"},
                                !.known = known]
        IN  ClientSection(PutJob(PutRun(<<db>>, r), NewJob("PROFILE", 0)))
  BY DEF CreateRun
<1> DEFINE r == [db.run EXCEPT !.status = "QUEUED", !.actions = {"PAUSE", "CANCEL"},
                               !.known = known]
           ss == PutRun(<<db>>, r)
           tt == PutJob(ss, NewJob("PROFILE", 0))
<1>2. /\ Section(<<db>>) /\ Final(<<db>>) = db /\ db.run \in Run /\ db.run.status = "ABSENT"
      /\ ~IsDecided(db) /\ db.job.status # "COMPLETED" /\ NoneOpen(db)
      /\ db.run.answering => db.unsettled["ANSWER"] >= 1
  BY GoingOn DEF IInv, CreateRun, Resting
<1>3. r \in Run /\ r.status = "QUEUED" /\ r.answering = db.run.answering
  BY <1>2 DEF Run, Commands, Topics
<1>4. ClientSection(tt)
  BY <1>1
<1> HIDE DEF r
<1>5. Section(ss) /\ Final(ss).run = r /\ Others(db, Final(ss), "run")
  BY <1>2, <1>3, RunGoesOn DEF Resting
<1> HIDE DEF ss
<1>6. /\ Section(tt) /\ Final(tt).job = NewJob("PROFILE", 0) /\ Others(Final(ss), Final(tt), "job")
  BY <1>5, JobOperations, JobGoesOn
<1> HIDE DEF tt
<1>7. /\ Final(tt).job.status = "READY" /\ Final(tt).packets = db.packets
      /\ Final(tt).run.status = "QUEUED" /\ Final(tt).approval = db.approval
  BY <1>3, <1>5, <1>6, JobOperations DEF Others
<1>8. Calm(Final(tt))
  BY <1>2, <1>7 DEF Calm, Closed, NoneOpen, Ended, Resting, IsDecided
<1>9. QED
  BY <1>4, <1>6, <1>8, ClientStep

(* What a control command finds. *)
LEMMA ControlFinds ==
  ASSUME IInv, NEW c \in Commands, MayControl(c)
  PROVE  /\ used.controls < MaxControls /\ db.run.status # "TERMINAL"
         /\ c # "CANCEL" => db.run.status \notin Resting
         /\ Section(Accept(<<db>>, c)) /\ Others(db, Final(Accept(<<db>>, c)), "unsettled")
         /\ Final(Accept(<<db>>, c)).unsettled[c] >= 1
         /\ db.run.answering => Final(Accept(<<db>>, c)).unsettled["ANSWER"] >= 1
<1>1. Section(<<db>>) /\ Final(<<db>>) = db /\ db.unsettled \in [Commands -> Nat]
  BY GoingOn, Fields DEF IInv, FileOK
<1>2. c # "CANCEL" => db.run.status \notin Resting
  BY DEF MayControl, IInv, FileOK, ApprovalOK, Resting, Commands
<1>3. /\ Section(Accept(<<db>>, c)) /\ Others(db, Final(Accept(<<db>>, c)), "unsettled")
      /\ Final(Accept(<<db>>, c)).unsettled[c] >= 1
  BY <1>1, Accepted
<1>4. Final(Accept(<<db>>, c)).run = db.run /\ Good(Final(Accept(<<db>>, c)))
  BY <1>3, SectionEnds DEF Others
<1>5. QED
  BY <1>2, <1>3, <1>4 DEF MayControl, Good, FileOK

(* PAUSE is offered by no run that rests, so no handler's verdict is undone. *)
LEMMA PauseStep ==
  ASSUME IInv, Pause
  PROVE  Holds
<1> DEFINE r == [db.run EXCEPT !.status = "PAUSED", !.actions = {"RESUME", "CANCEL"}]
           accepted == Accept(<<db>>, "PAUSE")
           paused == PutRun(accepted, r)
           tt == Settle(paused, "PAUSE")
<1>1. "PAUSE" \in Commands
  BY DEF Commands
<1>2. /\ used.controls < MaxControls /\ db.run.status \notin Resting
      /\ Section(accepted) /\ Others(db, Final(accepted), "unsettled")
      /\ Final(accepted).unsettled["PAUSE"] >= 1
      /\ db.run.answering => Final(accepted).unsettled["ANSWER"] >= 1
  BY <1>1, ControlFinds DEF Pause
<1>3. /\ db.run \in Run /\ ~IsDecided(db) /\ db.job.status # "COMPLETED"
  BY <1>2, GoingOn DEF IInv
<1>4. r \in Run /\ r.status = "PAUSED" /\ r.answering = db.run.answering
  BY <1>3 DEF Run, Commands
<1>5. ControlSection(tt)
  BY DEF Pause
<1> HIDE DEF r, accepted
<1>6. Section(paused) /\ Final(paused).run = r /\ Others(Final(accepted), Final(paused), "run")
  BY <1>2, <1>3, <1>4, RunGoesOn DEF Resting, Others, IsDecided
<1> HIDE DEF paused
<1>7. Section(tt) /\ Others(Final(paused), Final(tt), "unsettled")
  BY <1>1, <1>2, <1>6, CommandSettled DEF Others
<1> HIDE DEF tt
<1>8. /\ Final(tt).job = db.job /\ Final(tt).packets = db.packets
      /\ Final(tt).run.status = "PAUSED" /\ Final(tt).approval = db.approval
  BY <1>2, <1>4, <1>6, <1>7 DEF Others
<1>9. Calm(Final(tt))
  BY <1>2, <1>8 DEF Calm, NoneOpen, Ended, Resting, IsDecided
<1>10. QED
  BY <1>2, <1>5, <1>7, <1>9, ControlStep

(* RESUME waits for the user exactly where a packet is open. *)
LEMMA ResumeStep ==
  ASSUME IInv, Resume
  PROVE  Holds
<1> DEFINE asking == OpenPackets(db) # {}
           r == [db.run EXCEPT !.status = IF asking THEN "WAITING_USER" ELSE "RUNNING",
                               !.actions = {"PAUSE", "CANCEL"} \cup {c \in {"ANSWER"} : asking}]
           accepted == Accept(<<db>>, "RESUME")
           resumed == PutRun(accepted, r)
           settled == Settle(resumed, "RESUME")
           tt == Wake(settled)
<1>1. "RESUME" \in Commands
  BY DEF Commands
<1>2. /\ used.controls < MaxControls /\ db.run.status \notin Resting
      /\ Section(accepted) /\ Others(db, Final(accepted), "unsettled")
      /\ Final(accepted).unsettled["RESUME"] >= 1
      /\ db.run.answering => Final(accepted).unsettled["ANSWER"] >= 1
  BY <1>1, ControlFinds DEF Resume
<1>3. /\ db.run \in Run /\ ~IsDecided(db) /\ db.job.status # "COMPLETED"
  BY <1>2, GoingOn DEF IInv
<1>4. /\ r \in Run /\ r.answering = db.run.answering /\ r.status \in {"WAITING_USER", "RUNNING"}
      /\ NoneOpen(db) \/ r.status = "WAITING_USER"
  <2>1. ~asking => NoneOpen(db)
    BY DEF OpenPackets, NoneOpen
  <2>2. {"PAUSE", "CANCEL"} \cup {c \in {"ANSWER"} : asking} \in SUBSET (Commands \cup {"APPROVE"})
    BY DEF Commands
  <2>3. QED
    BY <1>3, <2>1, <2>2 DEF Run
<1>5. ControlSection(tt)
  BY Zenon DEF Resume
<1> HIDE DEF r, accepted, asking
<1>6. Section(resumed) /\ Final(resumed).run = r /\ Others(Final(accepted), Final(resumed), "run")
  BY <1>2, <1>3, <1>4, RunGoesOn DEF Resting, Others, IsDecided, NoneOpen
<1> HIDE DEF resumed
<1>7. Section(settled) /\ Others(Final(resumed), Final(settled), "unsettled")
  BY <1>1, <1>2, <1>6, CommandSettled DEF Others
<1> HIDE DEF settled
<1>8. /\ Section(tt) /\ Others(Final(settled), Final(tt), "job")
      /\ Final(tt).job.status \in Closed => Final(settled).job.status \in Closed
  BY <1>7, JobWoken
<1> HIDE DEF tt
<1>9. /\ Final(settled).job = db.job /\ Final(tt).packets = db.packets
      /\ Final(tt).run = r /\ Final(tt).approval = db.approval
  BY <1>2, <1>6, <1>7, <1>8 DEF Others
<1>10. Calm(Final(tt))
  BY <1>2, <1>4, <1>8, <1>9 DEF Calm, NoneOpen, Ended, Resting, IsDecided
<1>11. QED
  BY <1>2, <1>5, <1>8, <1>10, ControlStep

(* Closing packets. *)
LEMMA PacketsClosed ==
  ASSUME NEW d, d.packets \in Seq(Packet), NEW ps,
         DOMAIN ps = DOMAIN d.packets, ps \in [DOMAIN d.packets -> Packet],
         \A i \in DOMAIN ps : ps[i].status = "OPEN" => ps[i] = d.packets[i]
  PROVE  /\ ps \in Seq(Packet)
         /\ NoneOpen(d) => \A i \in DOMAIN ps : ps[i].status # "OPEN"
<1>1. Len(d.packets) \in Nat /\ DOMAIN d.packets = 1..Len(d.packets)
  OBVIOUS
<1>2. ps \in [1..Len(d.packets) -> Packet]
  BY <1>1
<1>3. ps \in Seq(Packet)
  BY <1>1, <1>2
<1>4. QED
  BY <1>3 DEF NoneOpen

(* A cancel supersedes whatever is open. *)
LEMMA PacketsSuperseded ==
  ASSUME FileOK(db)
  PROVE  LET ps == [i \in DOMAIN db.packets |->
                      IF i \in OpenPackets(db) THEN [db.packets[i] EXCEPT !.status = "SUPERSEDED"]
                                               ELSE db.packets[i]]
         IN  /\ DOMAIN ps = DOMAIN db.packets /\ ps \in [DOMAIN db.packets -> Packet]
             /\ \A i \in DOMAIN ps : ps[i].status # "OPEN"
<1>1. \A i \in DOMAIN db.packets : db.packets[i] \in Packet
  BY Fields DEF FileOK
<1>2. \A p \in Packet : /\ [p EXCEPT !.status = "SUPERSEDED"] \in Packet
                        /\ [p EXCEPT !.status = "SUPERSEDED"].status = "SUPERSEDED"
  BY DEF Packet
<1>3. QED
  BY <1>1, <1>2 DEF OpenPackets

(* An answer closes the only open packet. *)
LEMMA OpenPacketClosed ==
  ASSUME FileOK(db), NEW i \in OpenPackets(db)
  PROVE  LET ps == Closing(db.packets, i, "ANSWERED")
         IN  /\ DOMAIN ps = DOMAIN db.packets /\ ps \in [DOMAIN db.packets -> Packet]
             /\ \A k \in DOMAIN ps : ps[k].status # "OPEN"
<1> DEFINE ps == Closing(db.packets, i, "ANSWERED")
<1>1. db.packets \in Seq(Packet)
  BY Fields DEF FileOK
<1>2. i \in DOMAIN db.packets /\ db.packets[i] \in Packet /\ db.packets[i].status = "OPEN"
  BY <1>1 DEF OpenPackets
<1>3. \A k \in DOMAIN db.packets : db.packets[k] \in Packet
  BY <1>1
<1>4. DOMAIN ps = DOMAIN db.packets
  BY <1>1 DEF Closing
<1>5. ps[i] = [db.packets[i] EXCEPT !.status = "ANSWERED"]
  BY <1>1, <1>2 DEF Closing
<1>6. ps[i] \in Packet /\ ps[i].status = "ANSWERED"
  BY <1>2, <1>5 DEF Packet
<1>7. \A k \in DOMAIN db.packets : k # i => ps[k] = db.packets[k] /\ ps[k].status # "OPEN"
  <2>1. \A k \in DOMAIN db.packets : k # i => db.packets[k].status # "OPEN"
    BY <1>2 DEF FileOK, PacketsOK
  <2>2. \A k \in DOMAIN db.packets : k # i => ps[k] = db.packets[k]
    BY <1>1 DEF Closing
  <2>3. QED
    BY <2>1, <2>2
<1>8. ps = [k \in DOMAIN db.packets |-> ps[k]]
  BY <1>1 DEF Closing
<1> HIDE DEF ps
<1>9. QED
  BY <1>3, <1>4, <1>6, <1>7, <1>8 DEF ps

(* CANCEL closes every packet before the run ends, if it ends. *)
LEMMA CancelStep ==
  ASSUME IInv, Cancel
  PROVE  Holds
<1> DEFINE ps == [i \in DOMAIN db.packets |->
                    IF i \in OpenPackets(db) THEN [db.packets[i] EXCEPT !.status = "SUPERSEDED"]
                                             ELSE db.packets[i]]
           accepted == Accept(<<db>>, "CANCEL")
           superseded == IF ps = db.packets THEN accepted ELSE PutPackets(accepted, ps)
           ended == Finalize(superseded, "CANCELED", FALSE)
           settled == Settle(ended, "CANCEL")
           tt == Wake(settled)
<1>1. "CANCEL" \in Commands
  BY DEF Commands
<1>2. /\ used.controls < MaxControls /\ db.run.status # "TERMINAL"
      /\ Section(accepted) /\ Others(db, Final(accepted), "unsettled")
      /\ Final(accepted).unsettled["CANCEL"] >= 1
  BY <1>1, ControlFinds DEF Cancel
<1>3. ControlSection(IF db.result # NoResult THEN superseded ELSE tt)
  BY Zenon DEF Cancel
<1>4. db.packets \in Seq(Packet)
  BY Fields DEF IInv, FileOK
<1>5. /\ DOMAIN ps = DOMAIN db.packets /\ ps \in [DOMAIN db.packets -> Packet]
      /\ \A i \in DOMAIN ps : ps[i].status # "OPEN"
  BY PacketsSuperseded DEF IInv
<1> HIDE DEF ps
<1>6. ps \in Seq(Packet)
  BY <1>4, <1>5, PacketsClosed
<1> HIDE DEF accepted
<1>7. /\ Section(superseded) /\ NoneOpen(Final(superseded))
      /\ Final(superseded).run = db.run /\ Final(superseded).job = db.job
      /\ Final(superseded).approval = db.approval /\ Final(superseded).result = db.result
      /\ Final(superseded).unsettled = Final(accepted).unsettled
  <2>1. CASE ps = db.packets
    BY <1>2, <1>5, <2>1 DEF Others, NoneOpen
  <2>2. CASE ps # db.packets
    <3>1. /\ Section(PutPackets(accepted, ps)) /\ Final(PutPackets(accepted, ps)).packets = ps
          /\ Others(Final(accepted), Final(PutPackets(accepted, ps)), "packets")
      BY <1>2, <1>5, <1>6, PacketsPut
    <3>2. superseded = PutPackets(accepted, ps)
      BY <2>2
    <3>3. QED
      BY <1>2, <1>5, <3>1, <3>2 DEF Others, NoneOpen
  <2>3. QED
    BY <2>1, <2>2
<1> HIDE DEF superseded
<1>8. CASE db.result # NoResult
  <2>1. Calm(Final(superseded))
    BY <1>7 DEF Calm, Ended, IsDecided
  <2>2. QED
    BY <1>2, <1>3, <1>7, <1>8, <2>1, ControlStep
<1>9. CASE db.result = NoResult
  <2>1. /\ Section(ended)
        /\ Final(superseded).result = NoResult => Final(ended).run.status = "TERMINAL"
        /\ Final(ended).job = Final(superseded).job
        /\ Final(ended).packets = Final(superseded).packets
        /\ Final(ended).approval = Final(superseded).approval
        /\ Final(ended).unsettled = Final(superseded).unsettled
    <3>1. MayFinalize(Final(superseded), "CANCELED", FALSE)
      BY DEF MayFinalize
    <3>2. Finalizes(superseded, ended)
      BY <1>7, <3>1, Finalized
    <3>3. QED
      BY <3>2 DEF Finalizes
  <2> HIDE DEF ended
  <2>2. Section(settled) /\ Others(Final(ended), Final(settled), "unsettled")
    BY <1>1, <1>2, <1>7, <2>1, CommandSettled
  <2> HIDE DEF settled
  <2>3. /\ Section(tt) /\ Others(Final(settled), Final(tt), "job")
        /\ Final(tt).job.status \in Closed => Final(settled).job.status \in Closed
    BY <2>2, JobWoken
  <2> HIDE DEF tt
  <2>4. Calm(Final(tt))
    BY <1>7, <1>9, <2>1, <2>2, <2>3 DEF Calm, Others, NoneOpen, Ended, Resting, IsDecided
  <2>5. QED
    BY <1>2, <1>3, <1>9, <2>3, <2>4, ControlStep
<1>10. QED
  BY <1>8, <1>9

(* An answer closes the only open packet and leaves its command to be settled. *)
LEMMA AnswerStep ==
  ASSUME IInv, Answer
  PROVE  Holds
<1>1. PICK i \in OpenPackets(db) :
        LET accepted == Accept(<<db>>, "ANSWER")
            answered == PutPackets(accepted, Closing(db.packets, i, "ANSWERED"))
            r == [db.run EXCEPT !.status = "QUEUED", !.blocking = "none",
                                !.actions = {"PAUSE", "CANCEL"}, !.answering = TRUE,
                                !.known = @ \cup {db.packets[i].asks}]
        IN  ClientSection(Wake(PutRun(answered, r)))
  BY Zenon DEF Answer
<1> DEFINE ps == Closing(db.packets, i, "ANSWERED")
           r == [db.run EXCEPT !.status = "QUEUED", !.blocking = "none",
                               !.actions = {"PAUSE", "CANCEL"}, !.answering = TRUE,
                               !.known = @ \cup {db.packets[i].asks}]
           accepted == Accept(<<db>>, "ANSWER")
           answered == PutPackets(accepted, ps)
           queued == PutRun(answered, r)
           tt == Wake(queued)
<1>2. "ANSWER" \in Commands /\ db.run.status = "WAITING_USER"
  BY DEF Commands, Answer
<1>3. /\ Section(<<db>>) /\ Final(<<db>>) = db /\ db.run \in Run /\ ~IsDecided(db)
      /\ db.job.status # "COMPLETED" /\ db.packets \in Seq(Packet)
  BY <1>2, GoingOn, Fields DEF IInv, FileOK, Resting
<1>4. i \in DOMAIN db.packets /\ db.packets[i] \in Packet
  BY <1>3 DEF OpenPackets
<1>5. /\ DOMAIN ps = DOMAIN db.packets /\ ps \in [DOMAIN db.packets -> Packet]
      /\ \A k \in DOMAIN ps : ps[k].status # "OPEN"
  BY OpenPacketClosed DEF IInv
<1> HIDE DEF ps
<1>6. ps \in Seq(Packet)
  BY <1>3, <1>5, PacketsClosed
<1>7. /\ Section(accepted) /\ Others(db, Final(accepted), "unsettled")
      /\ Final(accepted).unsettled["ANSWER"] >= 1
  BY <1>2, <1>3, Accepted
<1> HIDE DEF accepted
<1>8. /\ Section(answered) /\ Final(answered).packets = ps
      /\ Others(Final(accepted), Final(answered), "packets")
  BY <1>5, <1>6, <1>7, PacketsPut
<1> HIDE DEF answered
<1>9. r \in Run /\ r.status = "QUEUED"
  BY <1>3, <1>4 DEF Run, Commands, Packet
<1> HIDE DEF r
<1>10. /\ NoneOpen(Final(answered)) /\ ~IsDecided(Final(answered))
       /\ Final(answered).job = db.job /\ Final(answered).approval = db.approval
       /\ Final(answered).unsettled["ANSWER"] >= 1
  BY <1>3, <1>5, <1>7, <1>8 DEF Others, NoneOpen, IsDecided
<1>11. Section(queued) /\ Final(queued).run = r /\ Others(Final(answered), Final(queued), "run")
  BY <1>3, <1>8, <1>9, <1>10, RunGoesOn DEF Resting
<1> HIDE DEF queued
<1>12. /\ Section(tt) /\ Others(Final(queued), Final(tt), "job")
       /\ Final(tt).job.status \in Closed => Final(queued).job.status \in Closed
  BY <1>11, JobWoken
<1>13. ClientSection(tt)
  BY <1>1 DEF tt, queued, r, answered, accepted, ps
<1> HIDE DEF tt
<1>14. Calm(Final(tt))
  BY <1>2, <1>9, <1>10, <1>11, <1>12 DEF Calm, Others, NoneOpen, Ended, Resting, IsDecided
<1>15. QED
  BY <1>12, <1>13, <1>14, ClientStep

(* A decision finds what was published, and no handler or callback at work. *)
LEMMA DecideApprovalStep ==
  ASSUME IInv, DecideApproval
  PROVE  Holds
<1>1. /\ Section(<<db>>) /\ Final(<<db>>) = db
      /\ db.approval = "OPEN" /\ db.run.status = "WAITING_APPROVAL"
      /\ Len(db.stages) >= 5 /\ Published(db, {"MODEL_CARD", "RUN_REPORT"})
      /\ db.model = FALSE
  BY GoingOn, Fields DEF IInv, FileOK, ApprovalOK, DecideApproval
<1>2. ASSUME NEW s \in {"APPROVED", "DECLINED", "EXPIRED"}
      PROVE  /\ Section(Decided(s)) /\ Final(Decided(s)).approval = s
             /\ Others(db, Final(Decided(s)), "approval")
  BY <1>1, ApprovalPut DEF Approval, Resting, Decided
<1>3. CASE ClientSection(Decided("EXPIRED"))
  <2>1. Calm(Final(Decided("EXPIRED")))
    BY <1>1, <1>2 DEF Calm, Others, NoneOpen, Ended, Resting, IsDecided
  <2>2. QED
    BY <1>2, <1>3, <2>1, ClientStep
<1>4. ASSUME NEW s \in {"APPROVED", "DECLINED"}, ClientSection(Concluded(Decided(s), s))
      PROVE  Holds
  <2> DEFINE ss == IF s = "APPROVED" THEN RegisterModel(Decided(s)) ELSE Decided(s)
             d == Final(ss)
             tt == Finalize(ss, "SUCCEEDED", s = "APPROVED")
  <2>1. /\ Section(ss)
        /\ s = "APPROVED" => d.model = TRUE
        /\ d.run = db.run /\ d.job = db.job /\ d.packets = db.packets
        /\ d.stages = db.stages /\ d.outputs = db.outputs
    <3>1. CASE s = "APPROVED"
      <4>1. /\ Section(RegisterModel(Decided(s))) /\ Final(RegisterModel(Decided(s))).model = TRUE
            /\ Others(Final(Decided(s)), Final(RegisterModel(Decided(s))), "model")
        BY <1>2, <3>1, ModelRegistered
      <4>2. QED
        BY <1>2, <3>1, <4>1 DEF Others
    <3>2. CASE s # "APPROVED"
      BY <1>2, <3>2 DEF Others
    <3>3. QED
      BY <3>1, <3>2
  <2>2. ClientSection(tt)
    BY <1>4 DEF Concluded
  <2> HIDE DEF ss
  <2>3. /\ Section(tt)
        /\ Final(tt).run.status = "TERMINAL" \/ Final(tt).run = d.run
        /\ Final(tt).job = d.job /\ Final(tt).packets = d.packets
    <3>1. Published(d, {"MODEL_CARD", "RUN_REPORT"}) /\ Len(d.stages) >= 5
      BY <1>1, <2>1 DEF Published
    <3>2. CASE s = "APPROVED"
      <4>1. MayFinalize(d, "SUCCEEDED", TRUE)
        BY <2>1, <3>1, <3>2 DEF MayFinalize
      <4>2. Finalizes(ss, Finalize(ss, "SUCCEEDED", TRUE))
        BY <2>1, <4>1, Finalized
      <4>3. Finalizes(ss, tt)
        BY <3>2, <4>2, Zenon
      <4>4. QED
        BY <4>3 DEF Finalizes
    <3>3. CASE s # "APPROVED"
      <4>1. MayFinalize(d, "SUCCEEDED", FALSE)
        BY <3>1 DEF MayFinalize
      <4>2. Finalizes(ss, Finalize(ss, "SUCCEEDED", FALSE))
        BY <2>1, <4>1, Finalized
      <4>3. Finalizes(ss, tt)
        BY <3>3, <4>2, Zenon
      <4>4. QED
        BY <4>3 DEF Finalizes
    <3>4. QED
      BY <3>2, <3>3
  <2> HIDE DEF tt
  <2>4. Section(tt) /\ Final(tt).run.status \in Resting
    BY <1>1, <2>1, <2>3 DEF Resting
  <2>5. Calm(Final(tt))
    BY <1>1, <2>1, <2>3, <2>4 DEF Calm, NoneOpen, Ended
  <2>6. QED
    BY <2>2, <2>4, <2>5, ClientStep
<1>5. QED
  BY <1>3, <1>4 DEF DecideApproval

(* What holds while a handler is at work, and of every handler. *)
LEMMA Working ==
  ASSUME IInv
  PROVE  /\ FileOK(db) /\ h \in Handlers
         /\ used \in [controls: 0..MaxControls, crashes: 0..MaxCrashes, failures: 0..MaxFailures]
         /\ Len(db.stages) \in Nat
         /\ h.pc \notin {"training", "idle"} => cb.pc = "none"
         /\ h.pc # "idle" => up /\ db.job # NoJob /\ db.job \in Job /\ db.job.status \notin Closed
         /\ h.pc \in Busy => /\ NoneOpen(db) /\ ~IsDecided(db)
                             /\ db.run.status # "WAITING_APPROVAL" /\ db.job.status # "COMPLETED"
         /\ h.pc \in Past => Len(db.stages) >= 2
<1>1. /\ FileOK(db) /\ ProcessTypes /\ HandlerOK /\ CallbackOK /\ RestOK
  BY DEF IInv, ProcessOK
<1>2. Len(db.stages) \in Nat /\ db.job \in Job \cup {NoJob}
  BY <1>1, Fields DEF FileOK
<1>3. h.pc \in Busy => ~Parked
  BY DEF Busy, Parked
<1>4. /\ h \in Handlers
      /\ used \in [controls: 0..MaxControls, crashes: 0..MaxCrashes, failures: 0..MaxFailures]
  BY <1>1 DEF ProcessTypes
<1>5. h.pc \notin {"training", "idle"} => cb.pc = "none"
  BY <1>1 DEF CallbackOK
<1>6. h.pc # "idle" => up /\ db.job # NoJob /\ db.job \in Job /\ db.job.status \notin Closed
  BY <1>1, <1>2 DEF HandlerOK
<1>7. h.pc \in Busy => /\ NoneOpen(db) /\ ~IsDecided(db)
                       /\ db.run.status # "WAITING_APPROVAL" /\ db.job.status # "COMPLETED"
  BY <1>1, <1>3, <1>6 DEF HandlerOK, RestOK, Closed, Busy
<1>8. h.pc \in Past => Len(db.stages) >= 2
  BY <1>1 DEF HandlerOK
<1>9. QED
  BY <1>1, <1>2, <1>4, <1>5, <1>6, <1>7, <1>8

(* The handler's record. *)
LEMMA HandlerWritten ==
  ASSUME h \in Handlers
  PROVE  /\ \A v \in Verdicts : Done(v) \in Handlers /\ Done(v).pc = "done" /\ Done(v).verdict = v
         /\ \A pc \in HandlerPcs : /\ At(pc) \in Handlers /\ At(pc).pc = pc
                                   /\ At(pc).next = h.next /\ At(pc).verdict = h.verdict
         /\ \A pc \in HandlerPcs, n \in {"none", "PLAN", "TRAIN", "return"} \cup OutputTypes :
              LET g == [h EXCEPT !.pc = pc, !.next = n]
              IN  g \in Handlers /\ g.pc = pc /\ g.next = n /\ g.verdict = h.verdict
         /\ \A n \in {"none", "PLAN", "TRAIN", "return"} \cup OutputTypes :
              LET g == [h EXCEPT !.next = n]
              IN  g \in Handlers /\ g.pc = h.pc /\ g.next = n /\ g.verdict = h.verdict
<1>1. "done" \in HandlerPcs
  BY DEF HandlerPcs
<1> DEFINE Nexts == {"none", "PLAN", "TRAIN", "return"} \cup OutputTypes
<1>2. "none" \in Nexts
  OBVIOUS
<1> HIDE DEF Nexts
<1>3. Handlers = [pc: HandlerPcs, ticket: [gen: Nat, epoch: Nat], next: Nexts, verdict: Verdicts]
  BY DEF Handlers, Nexts
<1>4. \A v \in Verdicts : Done(v) \in Handlers /\ Done(v).pc = "done" /\ Done(v).verdict = v
  BY <1>1, <1>2, <1>3 DEF Done
<1>5. \A pc \in HandlerPcs : /\ At(pc) \in Handlers /\ At(pc).pc = pc
                             /\ At(pc).next = h.next /\ At(pc).verdict = h.verdict
  BY <1>3 DEF At
<1>6. \A pc \in HandlerPcs, n \in Nexts :
        LET g == [h EXCEPT !.pc = pc, !.next = n]
        IN  g \in Handlers /\ g.pc = pc /\ g.next = n /\ g.verdict = h.verdict
  BY <1>3
<1>7. \A n \in Nexts :
        LET g == [h EXCEPT !.next = n]
        IN  g \in Handlers /\ g.pc = h.pc /\ g.next = n /\ g.verdict = h.verdict
  BY <1>3
<1>8. QED
  BY <1>4, <1>5, <1>6, <1>7 DEF Nexts

(* The handler returns or raises. *)
LEMMA HandlerEnds ==
  ASSUME IInv, h.pc # "idle", cb.pc = "none", Good(db'), db'.job = db.job,
         NEW v \in Verdicts, h' = Done(v), UNCHANGED <<up, poll, cb>>,
         v.kind = "complete" => db'.run.status \in Resting,
         v.kind = "checkpoint" => /\ v.step \in Steps /\ v.status \in {"READY", "WAITING"}
                                  /\ v.step # "PROFILE" => Len(db'.stages) >= 2,
         used' \in [controls: 0..MaxControls, crashes: 0..MaxCrashes, failures: 0..MaxFailures]
  PROVE  Holds
<1>1. FileOK(db')
  BY DEF Good
<1>2. h' \in Handlers /\ h'.pc = "done" /\ h'.verdict = v
  BY HandlerWritten, Working
<1>3. ProcessTypes'
  BY <1>2 DEF IInv, ProcessOK, ProcessTypes
<1>4. HandlerOK'
  BY <1>2, Working DEF HandlerOK, Busy, Past
<1>5. VerdictOK'
  BY <1>2 DEF VerdictOK
<1>6. CallbackOK' /\ RestOK'
  BY <1>2 DEF CallbackOK, RestOK, Parked
<1>7. QED
  BY <1>1, <1>3, <1>4, <1>5, <1>6 DEF Holds, IInv, ProcessOK, Good, Follows

(* The section after which the handler returns its verdict, or raises. *)
LEMMA EndStep ==
  ASSUME IInv, h.pc # "idle", cb.pc = "none", NEW ss, Section(ss), Final(ss).job = db.job,
         NEW v \in Verdicts, HandlerSection(ss, Done(v)),
         v.kind = "complete" => Final(ss).run.status \in Resting,
         v.kind = "checkpoint" => /\ v.step \in Steps /\ v.status \in {"READY", "WAITING"}
                                  /\ v.step # "PROFILE" => Len(Final(ss).stages) >= 2
  PROVE  Holds
<1>1. CASE CrashDuring(ss)
  BY <1>1, CrashKeeps
<1>2. CASE db' = Final(ss) /\ h' = Done(v) /\ UNCHANGED <<up, poll, cb, used>>
  <2>1. Good(db')
    BY <1>2, SectionEnds
  <2>2. QED
    BY <1>2, <2>1, HandlerEnds, Working
<1>3. QED
  BY <1>1, <1>2 DEF HandlerSection

(* The handler goes on to another suspension. *)
LEMMA HandlerMoves ==
  ASSUME IInv, h.pc # "idle", cb.pc = "none", Good(db'), db'.job = db.job,
         NoneOpen(db'), ~IsDecided(db'), db'.run.status # "WAITING_APPROVAL",
         NEW g \in Handlers, h' = g, g.pc \in Busy, g.verdict = h.verdict, h.pc # "done",
         UNCHANGED <<up, poll, cb>>,
         g.pc \in Past => Len(db'.stages) >= 2,
         g.pc = "training" => g.next = "PLAN",
         g.pc = "publishing" =>
           /\ g.next \in {"EVALUATION_REPORT", "MODEL_CARD", "RUN_REPORT"}
           /\ Len(db'.stages) >= 4
           /\ g.next # "EVALUATION_REPORT" => Len(db'.stages) >= 5
           /\ g.next = "RUN_REPORT" => db'.outputs["MODEL_CARD"] > 0,
         used' \in [controls: 0..MaxControls, crashes: 0..MaxCrashes, failures: 0..MaxFailures]
  PROVE  Holds
<1>1. FileOK(db')
  BY DEF Good
<1>2. ProcessTypes'
  BY DEF IInv, ProcessOK, ProcessTypes
<1>3. HandlerOK'
  BY Working DEF HandlerOK
<1>4. VerdictOK'
  BY DEF IInv, ProcessOK, VerdictOK
<1>5. CallbackOK' /\ RestOK'
  BY DEF CallbackOK, RestOK
<1>6. QED
  BY <1>1, <1>2, <1>3, <1>4, <1>5 DEF Holds, IInv, ProcessOK, Good, Follows

(* The section after which the handler waits at another suspension. *)
LEMMA MoveStep ==
  ASSUME IInv, h.pc # "idle", cb.pc = "none", NEW ss, Section(ss), Final(ss).job = db.job,
         NoneOpen(Final(ss)), ~IsDecided(Final(ss)), Final(ss).run.status # "WAITING_APPROVAL",
         NEW g \in Handlers, HandlerSection(ss, g), g.pc \in Busy, g.verdict = h.verdict,
         h.pc # "done",
         g.pc \in Past => Len(Final(ss).stages) >= 2,
         g.pc = "training" => g.next = "PLAN",
         g.pc = "publishing" =>
           /\ g.next \in {"EVALUATION_REPORT", "MODEL_CARD", "RUN_REPORT"}
           /\ Len(Final(ss).stages) >= 4
           /\ g.next # "EVALUATION_REPORT" => Len(Final(ss).stages) >= 5
           /\ g.next = "RUN_REPORT" => Final(ss).outputs["MODEL_CARD"] > 0
  PROVE  Holds
<1>1. CASE CrashDuring(ss)
  BY <1>1, CrashKeeps
<1>2. CASE db' = Final(ss) /\ h' = g /\ UNCHANGED <<up, poll, cb, used>>
  <2>1. Good(db')
    BY <1>2, SectionEnds
  <2>2. used' \in [controls: 0..MaxControls, crashes: 0..MaxCrashes, failures: 0..MaxFailures]
    BY <1>2, Working
  <2>3. QED
    BY <1>2, <2>1, <2>2, HandlerMoves
<1>3. QED
  BY <1>1, <1>2 DEF HandlerSection

(* The verdicts. *)
LEMMA VerdictTypes ==
  /\ COMPLETE \in Verdicts /\ COMPLETE.kind = "complete"
  /\ \A s \in Steps, status \in {"READY", "WAITING"} :
       /\ CHECKPOINT(s, status) \in Verdicts /\ CHECKPOINT(s, status).kind = "checkpoint"
       /\ CHECKPOINT(s, status).step = s /\ CHECKPOINT(s, status).status = status
  /\ \A error \in {"error", "fence"} : Raised(error) \in Verdicts /\ Raised(error).kind = error
BY DEF COMPLETE, CHECKPOINT, Raised, Verdicts, Steps

(* One write to the job. *)
LEMMA JobPut ==
  ASSUME FileOK(db), NEW j \in Job,
         j.status = "COMPLETED" => db.run.status \in Resting,
         j.step # "PROFILE" => Len(db.stages) >= 2
  PROVE  LET d == [db EXCEPT !.job = j] IN Good(d) /\ d.job = j /\ Others(db, d, "job")
<1> DEFINE d == [db EXCEPT !.job = j]
           ss == PutJob(<<db>>, j)
<1>1. Section(<<db>>) /\ Final(<<db>>) = db
  BY GoingOn
<1>2. Section(ss) /\ Final(ss).job = j /\ Others(db, Final(ss), "job")
  BY <1>1, JobGoesOn
<1>3. d = Final(ss)
  <2>1. ss = Append(<<db>>, d)
    BY <1>1 DEF PutJob
  <2> HIDE DEF d
  <2>2. Len(Append(<<db>>, d)) = 2 /\ Append(<<db>>, d)[2] = d
    OBVIOUS
  <2> HIDE DEF ss
  <2>3. QED
    BY <2>1, <2>2 DEF Final
<1>4. QED
  BY <1>2, <1>3, SectionEnds

(* A claimed job is not closed, and no callback is left where the loop polls. *)
LEMMA ClaimStep ==
  ASSUME IInv, Claim
  PROVE  Holds
<1> DEFINE j == Claimed(db.job, 0, 1)
           g == [Idle EXCEPT !.pc = "claimed", !.ticket = [gen |-> j.gen, epoch |-> j.epoch]]
<1>1. /\ db' = [db EXCEPT !.job = j] /\ h' = g /\ UNCHANGED <<up, poll, cb, used>>
      /\ up /\ poll /\ h.pc = "idle" /\ db.job # NoJob /\ Claimable(db.job, 0)
  BY DEF Claim
<1>2. FileOK(db) /\ db.job \in Job
  BY <1>1, Fields DEF IInv, FileOK
<1>3. j \in Job /\ j.status = "LEASED" /\ j.step = db.job.step
  BY <1>1, <1>2, JobOperations
<1>4. g \in Handlers /\ g.pc = "claimed" /\ g.verdict.kind = "none"
  <2>1. [gen |-> j.gen, epoch |-> j.epoch] \in [gen: Nat, epoch: Nat]
    BY <1>3 DEF Job
  <2> HIDE DEF j
  <2>2. QED
    BY <2>1 DEF Idle, Handlers, Nothing, NoTicket, Verdicts, HandlerPcs
<1> HIDE DEF j, g
<1>5. Good(db') /\ db'.job = j /\ Others(db, db', "job")
  BY <1>1, <1>2, <1>3, JobPut DEF FileOK, JobOK
<1>6. cb.pc = "none" /\ ProcessTypes
  BY <1>1 DEF IInv, ProcessOK, CallbackOK
<1>7. j # NoJob
  BY <1>3 DEF Job, NoJob, JobStatus
<1>8. ProcessTypes'
  BY <1>1, <1>4, <1>6 DEF ProcessTypes
<1>9. HandlerOK' /\ VerdictOK' /\ CallbackOK' /\ RestOK'
  BY <1>1, <1>3, <1>4, <1>5, <1>6, <1>7
     DEF HandlerOK, VerdictOK, CallbackOK, RestOK, Parked, Busy, Past, Closed
<1>10. QED
  BY <1>5, <1>8, <1>9 DEF Holds, IInv, ProcessOK, Good, Follows

(* A change of a job nobody holds. *)
LEMMA IdleJobStep ==
  ASSUME IInv, h.pc = "idle", cb.pc = "none", NEW j \in Job, db' = [db EXCEPT !.job = j],
         UNCHANGED <<up, poll, h, cb, used>>,
         j.status = "COMPLETED" => db.run.status \in Resting,
         j.step # "PROFILE" => Len(db.stages) >= 2
  PROVE  Holds
<1>1. Good(db') /\ db'.job = j /\ Others(db, db', "job")
  BY JobPut DEF IInv
<1>2. ProcessTypes' /\ h'.pc = "idle" /\ cb'.pc = "none"
  BY DEF IInv, ProcessOK, ProcessTypes
<1>3. HandlerOK' /\ CallbackOK' /\ RestOK'
  BY <1>2 DEF HandlerOK, CallbackOK, RestOK, Parked, Busy, Past
<1>4. VerdictOK'
  BY <1>2 DEF IInv, ProcessOK, VerdictOK
<1>5. QED
  BY <1>1, <1>2, <1>3, <1>4 DEF Holds, IInv, ProcessOK, Good, Follows

(* The sweep declares a job dead that nobody holds. *)
LEMMA SweepStep ==
  ASSUME IInv, Sweep
  PROVE  Holds
<1>1. /\ db' = [db EXCEPT !.job = Swept(db.job, 0)] /\ poll /\ h.pc = "idle" /\ db.job # NoJob
      /\ UNCHANGED <<up, poll, h, cb, used>>
  BY DEF Sweep
<1>2. FileOK(db) /\ db.job \in Job /\ cb.pc = "none"
  BY <1>1, Fields DEF IInv, FileOK, ProcessOK, CallbackOK
<1>3. /\ Swept(db.job, 0) \in Job /\ Swept(db.job, 0).status \in {db.job.status, "DEAD"}
      /\ Swept(db.job, 0).step = db.job.step
  BY <1>2, JobOperations
<1>4. QED
  BY <1>1, <1>2, <1>3, IdleJobStep DEF FileOK, JobOK

(* Time changes when a job is available, nothing else. *)
LEMMA BackoffElapsesStep ==
  ASSUME IInv, BackoffElapses
  PROVE  Holds
<1> DEFINE j == [db.job EXCEPT !.avail = 0]
<1>1. /\ db' = [db EXCEPT !.job = j] /\ db.job.status \in {"READY", "RETRY"}
      /\ UNCHANGED <<up, poll, h, cb, used>>
  BY DEF BackoffElapses
<1>2. FileOK(db) /\ db.job \in Job
  BY <1>1, Fields DEF IInv, FileOK, NoJob
<1>3. j \in Job /\ j.status = db.job.status /\ j.step = db.job.step
  BY <1>2, ColumnTypes, ColumnValues DEF Job
<1>4. j # NoJob /\ db.job # NoJob
  BY <1>1, <1>3 DEF NoJob
<1> HIDE DEF j
<1>5. Good(db') /\ db'.job = j /\ Others(db, db', "job")
  BY <1>1, <1>2, <1>3, <1>4, JobPut DEF FileOK, JobOK
<1>6. Calm(db')
  BY <1>1, <1>3, <1>5 DEF Calm, Others, NoneOpen, Ended, IsDecided
<1>7. QED
  BY <1>1, <1>5, <1>6, CalmStep, Working

(* Time ends a lease, nothing else. *)
LEMMA LeaseExpiresStep ==
  ASSUME IInv, LeaseExpires
  PROVE  Holds
<1> DEFINE j == [db.job EXCEPT !.expires = 0]
<1>1. /\ db' = [db EXCEPT !.job = j] /\ db.job.status = "LEASED"
      /\ UNCHANGED <<up, poll, h, cb, used>>
  BY DEF LeaseExpires
<1>2. FileOK(db) /\ db.job \in Job
  BY <1>1, Fields DEF IInv, FileOK, NoJob
<1>3. j \in Job /\ j.status = db.job.status /\ j.step = db.job.step
  BY <1>2, ColumnTypes, ColumnValues DEF Job
<1>4. j # NoJob /\ db.job # NoJob
  BY <1>1, <1>3 DEF NoJob
<1> HIDE DEF j
<1>5. Good(db') /\ db'.job = j /\ Others(db, db', "job")
  BY <1>1, <1>2, <1>3, <1>4, JobPut DEF FileOK, JobOK
<1>6. Calm(db')
  BY <1>1, <1>3, <1>5 DEF Calm, Others, NoneOpen, Ended, IsDecided
<1>7. QED
  BY <1>1, <1>5, <1>6, CalmStep, Working

(* A run that goes on has no open packet, and a job past PROFILE its stages. *)
LEMMA DispatchStep ==
  ASSUME IInv, Dispatch
  PROVE  Holds
<1>1. h.pc = "claimed" /\ UNCHANGED <<db, up, poll, cb, used>> /\ db' = db
  BY DEF Dispatch
<1>2. /\ cb.pc = "none" /\ Good(db) /\ FileOK(db) /\ db.job \in Job /\ db.job # NoJob
      /\ db.job.step \in Steps /\ h \in Handlers
      /\ used \in [controls: 0..MaxControls, crashes: 0..MaxCrashes, failures: 0..MaxFailures]
  BY <1>1, Working, GoingOn DEF Job
<1>3. db.job.step # "PROFILE" => Len(db.stages) >= 2
  BY <1>2 DEF FileOK, JobOK
<1>4. CASE db.run.status \in {"TERMINAL", "WAITING_APPROVAL"}
  <2>1. h' = Done(COMPLETE)
    BY <1>4 DEF Dispatch
  <2>2. QED
    BY <1>1, <1>2, <1>4, <2>1, VerdictTypes, HandlerEnds DEF Resting
<1>5. CASE db.run.status \in {"PAUSED", "WAITING_USER"}
  <2>1. h' = Done(CHECKPOINT(db.job.step, "WAITING"))
    BY <1>5 DEF Dispatch
  <2>2. QED
    BY <1>1, <1>2, <1>3, <2>1, VerdictTypes, HandlerEnds
<1>6. CASE db.run.status \notin {"TERMINAL", "WAITING_APPROVAL", "PAUSED", "WAITING_USER"}
  <2>1. PICK pc \in {"profiling", "resolving", "starting"} :
          /\ h' = At(pc)
          /\ pc # "profiling" => db.job.step # "PROFILE"
    BY <1>2, <1>6 DEF Dispatch, Steps
  <2>2. pc \in HandlerPcs /\ pc \in Busy /\ pc # "training" /\ pc # "publishing"
    BY DEF HandlerPcs, Busy
  <2>3. At(pc) \in Handlers /\ At(pc).pc = pc /\ At(pc).verdict = h.verdict
    BY <1>2, <2>2, HandlerWritten
  <2>4. NoneOpen(db) /\ ~IsDecided(db)
    BY <1>2, <1>6 DEF FileOK, PacketsOK, ApprovalOK, Resting
  <2>5. pc \in Past => Len(db.stages) >= 2
    BY <1>3, <2>1 DEF Past
  <2>6. QED
    BY <1>1, <1>2, <1>6, <2>1, <2>2, <2>3, <2>4, <2>5, HandlerMoves
<1>7. QED
  BY <1>4, <1>5, <1>6

(* A handler that finds its run ended reports the job complete. *)
LEMMA FindsTerminalStep ==
  ASSUME IInv, NEW pc \in {"profiling", "resolving", "starting"}, FindsTerminal(pc)
  PROVE  Holds
<1>1. /\ h.pc = pc /\ db.run.status = "TERMINAL" /\ h' = Done(COMPLETE) /\ db' = db
      /\ UNCHANGED <<up, poll, cb, used>>
  BY DEF FindsTerminal
<1>2. cb.pc = "none" /\ Good(db)
  BY <1>1, Working, GoingOn
<1>3. QED
  BY <1>1, <1>2, VerdictTypes, Working, HandlerEnds DEF Resting

(* The profile's two stages, their evidence, and TRAIN or a question after them. *)
LEMMA CommitProfileStep ==
  ASSUME IInv, CommitProfile
  PROVE  Holds
<1> DEFINE r1 == [db.run EXCEPT !.phase = "PROFILE", !.status = "RUNNING"]
           running == PutRun(<<db>>, r1)
           ingested == CompleteStage(running, "INGEST")
           reported == CommitOutput(ingested, "DATA_QUALITY_REPORT")
           profiled == CompleteStage(reported, "PROFILE")
           r2 == [Final(profiled).run EXCEPT !.phase = "PLAN", !.status = "QUEUED",
                                             !.actions = {"PAUSE", "CANCEL"}]
           queued == PutRun(profiled, r2)
           asked == RequestDecision(profiled, "task")
<1>1. /\ h.pc = "profiling" /\ h.pc \in Busy /\ db.run.status # "TERMINAL" /\ cb.pc = "none"
      /\ Section(<<db>>) /\ Final(<<db>>) = db /\ db.run \in Run
      /\ db.run.answering => db.unsettled["ANSWER"] >= 1
      /\ NoneOpen(db) /\ ~IsDecided(db) /\ db.job.status # "COMPLETED"
  BY Working, GoingOn DEF CommitProfile, Busy
<1>2. \/ HandlerSection(queued, Done(CHECKPOINT("TRAIN", "READY")))
      \/ HandlerSection(asked, Done(CHECKPOINT("RESOLVE_TASK", "WAITING")))
  BY Zenon DEF CommitProfile
<1>3. r1 \in Run /\ r1.status = "RUNNING" /\ r1.answering = db.run.answering
  BY <1>1, PhaseNumbers DEF Run
<1> HIDE DEF r1
<1>4. /\ Section(running) /\ Final(running).run = r1 /\ Others(db, Final(running), "run")
  BY <1>1, <1>3, RunGoesOn DEF Resting
<1> HIDE DEF running
<1>5. Len(Final(running).stages) \in Nat
  BY <1>4, SectionEnds, Fields
<1>6. /\ Section(ingested) /\ Len(Final(ingested).stages) >= 1
      /\ Kept(Final(running), Final(ingested))
  BY <1>4, <1>5, StageCompleted, PhaseNumbers DEF StageOutputs
<1> HIDE DEF ingested
<1>7. /\ Section(reported) /\ Published(Final(reported), {"DATA_QUALITY_REPORT"})
      /\ Kept(Final(ingested), Final(reported))
      /\ Final(reported).stages = Final(ingested).stages
  BY <1>6, OutputCommitted DEF OutputTypes
<1> HIDE DEF reported
<1>8. /\ Section(profiled) /\ Len(Final(profiled).stages) >= 2
      /\ Kept(Final(reported), Final(profiled))
  BY <1>6, <1>7, StageCompleted, PhaseNumbers DEF StageOutputs
<1> HIDE DEF profiled
<1>9. Kept(Final(running), Final(profiled))
  BY <1>6, <1>7, <1>8 DEF Kept
<1>10. /\ Final(profiled).run = r1 /\ Final(profiled).job = db.job
       /\ NoneOpen(Final(profiled)) /\ ~IsDecided(Final(profiled))
       /\ Final(profiled).unsettled = db.unsettled
  BY <1>1, <1>4, <1>9 DEF Kept, Others, NoneOpen, IsDecided
<1>11. "TRAIN" \in Steps /\ "RESOLVE_TASK" \in Steps
  BY DEF Steps
<1>12. CASE HandlerSection(queued, Done(CHECKPOINT("TRAIN", "READY")))
  <2>1. r2 \in Run /\ r2.status = "QUEUED" /\ r2.answering = db.run.answering
    BY <1>3, <1>10, PhaseNumbers DEF Run, Commands
  <2> HIDE DEF r2
  <2>2. Section(queued) /\ Others(Final(profiled), Final(queued), "run")
    BY <1>1, <1>8, <1>10, <2>1, RunGoesOn DEF Resting
  <2> HIDE DEF queued
  <2>3. Final(queued).job = db.job /\ Len(Final(queued).stages) >= 2
    BY <1>8, <1>10, <2>2 DEF Others
  <2>4. QED
    BY <1>1, <1>11, <1>12, <2>2, <2>3, VerdictTypes, EndStep
<1>13. CASE HandlerSection(asked, Done(CHECKPOINT("RESOLVE_TASK", "WAITING")))
  <2>1. /\ Section(asked) /\ Final(asked).job = Final(profiled).job
        /\ Final(asked).stages = Final(profiled).stages
    BY <1>1, <1>8, <1>10, DecisionRequested DEF Topics
  <2> HIDE DEF asked
  <2>2. Final(asked).job = db.job /\ Len(Final(asked).stages) >= 2
    BY <1>8, <1>10, <2>1
  <2>3. QED
    BY <1>1, <1>11, <1>13, <2>1, <2>2, VerdictTypes, EndStep
<1>14. QED
  BY <1>2, <1>12, <1>13

(* The step after an answer settles a command that is counted. *)
LEMMA ResolveTaskStep ==
  ASSUME IInv, ResolveTask
  PROVE  Holds
<1> DEFINE r == [db.run EXCEPT !.phase = "PLAN", !.status = "QUEUED",
                               !.actions = {"PAUSE", "CANCEL"}, !.answering = FALSE]
           queued == PutRun(<<db>>, r)
           tt == IF db.run.answering THEN Settle(queued, "ANSWER") ELSE queued
<1>1. /\ h.pc = "resolving" /\ h.pc \in Busy /\ h.pc \in Past /\ cb.pc = "none"
      /\ Section(<<db>>) /\ Final(<<db>>) = db /\ db.run \in Run
      /\ db.run.answering => db.unsettled["ANSWER"] >= 1
      /\ NoneOpen(db) /\ ~IsDecided(db) /\ db.job.status # "COMPLETED" /\ Len(db.stages) >= 2
  BY Working, GoingOn DEF ResolveTask, Busy, Past
<1>2. HandlerSection(tt, Done(CHECKPOINT("TRAIN", "READY")))
  BY Zenon DEF ResolveTask
<1>3. r \in Run /\ r.status = "QUEUED" /\ r.answering = FALSE
  BY <1>1, PhaseNumbers DEF Run, Commands
<1> HIDE DEF r
<1>4. Section(queued) /\ Final(queued).run = r /\ Others(db, Final(queued), "run")
  BY <1>1, <1>3, RunGoesOn DEF Resting
<1> HIDE DEF queued
<1>5. Section(tt) /\ Final(tt).job = db.job /\ Len(Final(tt).stages) >= 2
  <2>1. CASE ~db.run.answering
    BY <1>1, <1>4, <2>1 DEF Others
  <2>2. CASE db.run.answering
    <3>1. /\ Section(Settle(queued, "ANSWER"))
          /\ Others(Final(queued), Final(Settle(queued, "ANSWER")), "unsettled")
      BY <1>1, <1>3, <1>4, <2>2, CommandSettled DEF Others, Commands
    <3>2. tt = Settle(queued, "ANSWER")
      BY <2>2
    <3>3. QED
      BY <1>1, <1>4, <3>1, <3>2 DEF Others
  <2>3. QED
    BY <2>1, <2>2
<1> HIDE DEF tt
<1>6. QED
  BY <1>1, <1>2, <1>5, VerdictTypes, EndStep DEF Steps

(* Training starts for a run with no open packet, or parks a paused one. *)
LEMMA StartTrainingStep ==
  ASSUME IInv, StartTraining
  PROVE  Holds
<1>1. /\ h.pc = "starting" /\ h.pc \in Busy /\ h.pc \in Past /\ cb.pc = "none"
      /\ Section(<<db>>) /\ Final(<<db>>) = db /\ db.run \in Run
      /\ db.run.answering => db.unsettled["ANSWER"] >= 1
      /\ NoneOpen(db) /\ ~IsDecided(db) /\ db.job.status # "COMPLETED" /\ Len(db.stages) >= 2
  BY Working, GoingOn DEF StartTraining, Busy, Past
<1>2. CASE db.run.status = "PAUSED"
  <2>1. HandlerSection(<<db>>, Done(CHECKPOINT("TRAIN", "WAITING")))
    BY <1>2 DEF StartTraining
  <2>2. QED
    BY <1>1, <2>1, VerdictTypes, EndStep DEF Steps
<1>3. CASE db.run.status # "PAUSED"
  <2> DEFINE r == [db.run EXCEPT !.phase = "PLAN", !.status = "RUNNING"]
             g == [h EXCEPT !.pc = "training", !.next = "PLAN"]
             tt == PutRun(<<db>>, r)
  <2>1. HandlerSection(tt, g)
    BY <1>3 DEF StartTraining
  <2>2. r \in Run /\ r.status = "RUNNING" /\ r.answering = db.run.answering
    BY <1>1, PhaseNumbers DEF Run
  <2>3. g \in Handlers /\ g.pc = "training" /\ g.next = "PLAN" /\ g.verdict = h.verdict
    BY HandlerWritten, Working DEF HandlerPcs
  <2> HIDE DEF r, g
  <2>4. Section(tt) /\ Final(tt).run = r /\ Others(db, Final(tt), "run")
    BY <1>1, <2>2, RunGoesOn DEF Resting
  <2> HIDE DEF tt
  <2>5. /\ Final(tt).job = db.job /\ NoneOpen(Final(tt)) /\ ~IsDecided(Final(tt))
        /\ Len(Final(tt).stages) >= 2 /\ Final(tt).run.status # "WAITING_APPROVAL"
    BY <1>1, <2>2, <2>4 DEF Others, NoneOpen, IsDecided
  <2>6. QED
    BY <1>1, <2>1, <2>3, <2>4, <2>5, MoveStep DEF Busy
<1>4. QED
  BY <1>2, <1>3

(* The backend asks for the positive class: no packet is open yet. *)
LEMMA PositiveClassRequiredStep ==
  ASSUME IInv, PositiveClassRequired
  PROVE  Holds
<1>1. /\ h.pc = "training" /\ h.pc \in Busy /\ h.pc \in Past /\ cb.pc = "none"
      /\ h' = At("asking") /\ db' = db /\ UNCHANGED <<up, poll, cb, used>>
  BY DEF PositiveClassRequired, BackendThread, Busy, Past
<1>2. /\ Good(db) /\ NoneOpen(db) /\ ~IsDecided(db) /\ db.run.status # "WAITING_APPROVAL"
      /\ Len(db.stages) >= 2
  BY <1>1, Working, GoingOn
<1>3. At("asking") \in Handlers /\ At("asking").pc = "asking" /\ At("asking").verdict = h.verdict
  BY HandlerWritten, Working DEF HandlerPcs
<1>4. QED
  BY <1>1, <1>2, <1>3, Working, HandlerMoves DEF Busy

(* The second question finds no other packet open. *)
LEMMA AskPositiveClassStep ==
  ASSUME IInv, AskPositiveClass
  PROVE  Holds
<1> DEFINE tt == RequestDecision(<<db>>, "positive")
<1>1. /\ h.pc = "asking" /\ h.pc \in Busy /\ h.pc \in Past /\ cb.pc = "none"
      /\ Section(<<db>>) /\ Final(<<db>>) = db
      /\ NoneOpen(db) /\ ~IsDecided(db) /\ db.job.status # "COMPLETED" /\ Len(db.stages) >= 2
  BY Working, GoingOn DEF AskPositiveClass, Busy, Past
<1>2. HandlerSection(tt, Done(CHECKPOINT("RESOLVE_TASK", "WAITING")))
  BY DEF AskPositiveClass
<1>3. Section(tt) /\ Final(tt).job = db.job /\ Final(tt).stages = db.stages
  BY <1>1, DecisionRequested DEF Topics
<1> HIDE DEF tt
<1>4. QED
  BY <1>1, <1>2, <1>3, VerdictTypes, EndStep DEF Steps

(* A failed training goes on to wait for the lock. *)
LEMMA TrainingFailsStep ==
  ASSUME IInv, TrainingFails
  PROVE  Holds
<1>1. /\ h.pc = "training" /\ h.pc \in Busy /\ cb.pc = "none"
      /\ h' = At("failing") /\ db' = db /\ UNCHANGED <<up, poll, cb>>
      /\ used' = [used EXCEPT !.failures = @ + 1] /\ used.failures < MaxFailures
  BY DEF TrainingFails, BackendThread, Busy
<1>2. /\ Good(db) /\ NoneOpen(db) /\ ~IsDecided(db) /\ db.run.status # "WAITING_APPROVAL"
  BY <1>1, Working, GoingOn
<1>3. /\ At("failing") \in Handlers /\ At("failing").pc = "failing"
      /\ At("failing").verdict = h.verdict
  BY HandlerWritten, Working DEF HandlerPcs
<1>4. used' \in [controls: 0..MaxControls, crashes: 0..MaxCrashes, failures: 0..MaxFailures]
  BY <1>1, Working, FlagsAssumption
<1>5. QED
  BY <1>1, <1>2, <1>3, <1>4, HandlerMoves DEF Busy, Past

(* An exception leaves the file as it is, and a verdict to retry. *)
LEMMA HandlerRaisesStep ==
  ASSUME IInv, HandlerRaises
  PROVE  Holds
<1>1. /\ h.pc \in {"profiling", "starting", "training", "publishing"}
      /\ h.pc = "training" => cb.pc = "none"
      /\ h' = Done(Raised("error")) /\ db' = db /\ UNCHANGED <<up, poll, cb>>
      /\ used' = [used EXCEPT !.failures = @ + 1] /\ used.failures < MaxFailures
  BY DEF HandlerRaises, BackendThread
<1>2. cb.pc = "none" /\ Good(db)
  BY <1>1, Working, GoingOn
<1>3. used' \in [controls: 0..MaxControls, crashes: 0..MaxCrashes, failures: 0..MaxFailures]
  BY <1>1, Working, FlagsAssumption
<1>4. QED
  BY <1>1, <1>2, <1>3, VerdictTypes, HandlerEnds

(* A failed run is terminal when its job is reported complete. *)
LEMMA FailTrainingStep ==
  ASSUME IInv, FailTraining
  PROVE  Holds
<1> DEFINE tt == FailRun(<<db>>)
           v == IF db.result = NoResult THEN COMPLETE ELSE Raised("error")
<1>1. /\ h.pc = "failing" /\ cb.pc = "none" /\ Section(<<db>>) /\ Final(<<db>>) = db
  BY Working, GoingOn DEF FailTraining
<1>2. HandlerSection(tt, Done(v))
  BY DEF FailTraining
<1>3. /\ Section(tt) /\ Final(tt).job = db.job
      /\ db.result = NoResult => Final(tt).run.status = "TERMINAL"
  BY <1>1, RunFailed
<1>4. /\ v \in Verdicts /\ v.kind # "checkpoint"
      /\ v.kind = "complete" => db.result = NoResult
  BY VerdictTypes
<1> HIDE DEF tt, v
<1>5. QED
  BY <1>1, <1>2, <1>3, <1>4, EndStep DEF Resting

(* Publication starts only behind four stages, or is given up. *)
LEMMA BeginPublishingStep ==
  ASSUME IInv, BeginPublishing
  PROVE  Holds
<1>1. /\ h.pc = "training" /\ h.next = "return" /\ h.pc \in Busy /\ h.pc \in Past
      /\ cb.pc = "none" /\ db' = db /\ UNCHANGED <<up, poll, cb, used>>
  BY DEF BeginPublishing, BackendThread, Busy, Past
<1>2. /\ Good(db) /\ NoneOpen(db) /\ ~IsDecided(db) /\ db.run.status # "WAITING_APPROVAL"
      /\ Len(db.stages) >= 2 /\ h \in Handlers
      /\ used \in [controls: 0..MaxControls, crashes: 0..MaxCrashes, failures: 0..MaxFailures]
  BY <1>1, Working, GoingOn
<1>3. CASE ~Passes(h.ticket)
  <2>1. h' = Done(Raised("fence"))
    BY <1>3 DEF BeginPublishing
  <2>2. QED
    BY <1>1, <1>2, <2>1, VerdictTypes, HandlerEnds
<1>4. CASE Passes(h.ticket) /\ db.run.status = "TERMINAL"
  <2>1. h' = Done(COMPLETE)
    BY <1>4 DEF BeginPublishing
  <2>2. QED
    BY <1>1, <1>2, <1>4, <2>1, VerdictTypes, HandlerEnds DEF Resting
<1>5. CASE Passes(h.ticket) /\ db.run.status = "PAUSED"
  <2>1. h' = Done(CHECKPOINT("TRAIN", "WAITING"))
    BY <1>5 DEF BeginPublishing
  <2>2. QED
    BY <1>1, <1>2, <2>1, VerdictTypes, HandlerEnds DEF Steps
<1>6. CASE Passes(h.ticket) /\ db.run.status \notin {"TERMINAL", "PAUSED"}
  <2>1. CASE 0 \in {db.outputs["TASK_SPEC"], db.outputs["SPLIT_MANIFEST"]}
    <3>1. h' = Done(Raised("error"))
      BY <1>6, <2>1 DEF BeginPublishing
    <3>2. QED
      BY <1>1, <1>2, <3>1, VerdictTypes, HandlerEnds
  <2>2. CASE 0 \notin {db.outputs["TASK_SPEC"], db.outputs["SPLIT_MANIFEST"]}
    <3> DEFINE g == [h EXCEPT !.pc = "publishing", !.next = "EVALUATION_REPORT"]
    <3>1. h' = g
      BY <1>6, <2>2 DEF BeginPublishing
    <3>2. /\ g \in Handlers /\ g.pc = "publishing" /\ g.next = "EVALUATION_REPORT"
          /\ g.verdict = h.verdict
      BY <1>2, HandlerWritten DEF HandlerPcs, OutputTypes
    <3>3. Len(db.stages) >= 4
      BY <1>1, <1>6 DEF IInv, ProcessOK, HandlerOK, Ended
    <3> HIDE DEF g
    <3>4. QED
      BY <1>1, <1>2, <3>1, <3>2, <3>3, HandlerMoves DEF Busy
  <2>3. QED
    BY <2>1, <2>2
<1>7. QED
  BY <1>3, <1>4, <1>5, <1>6

(* What the publication of a result finds. *)
LEMMA Publishing ==
  ASSUME IInv, h.pc = "publishing"
  PROVE  /\ h.pc \in Busy /\ cb.pc = "none" /\ Section(<<db>>) /\ Final(<<db>>) = db
         /\ NoneOpen(db) /\ ~IsDecided(db) /\ db.job.status # "COMPLETED"
         /\ db.run.status # "WAITING_APPROVAL" /\ db.run \in Run
         /\ Len(db.stages) >= 4 /\ StageOutputs(db, 4) /\ h \in Handlers
         /\ h.next # "EVALUATION_REPORT" => Len(db.stages) >= 5
         /\ h.next = "RUN_REPORT" => Published(db, {"MODEL_CARD"})
<1>1. h.pc \in Busy
  BY DEF Busy
<1>2. /\ Len(db.stages) >= 4
      /\ h.next # "EVALUATION_REPORT" => Len(db.stages) >= 5
      /\ h.next = "RUN_REPORT" => Published(db, {"MODEL_CARD"})
  BY DEF IInv, ProcessOK, HandlerOK, Published
<1>3. Len(db.stages) \in Nat /\ StageOutputs(db, Len(db.stages))
  BY Working DEF FileOK, StagesOK
<1>4. StageOutputs(db, 4)
  BY <1>2, <1>3 DEF StageOutputs
<1>5. QED
  BY <1>1, <1>2, <1>4, Working, GoingOn

(* EVALUATE is completed behind its report; the model card precedes the end. *)
LEMMA PublishOutputStep ==
  ASSUME IInv, PublishOutput
  PROVE  Holds
<1> DEFINE committed == CommitOutputOnce(<<db>>, h.next)
           evaluated == CompleteStage(committed, "EVALUATE")
           tt == TransitionTo(evaluated, "PACKAGE")
<1>1. h.pc = "publishing"
  BY DEF PublishOutput
<1>2. \/ h.next = "EVALUATION_REPORT" /\ HandlerSection(tt, [h EXCEPT !.next = "MODEL_CARD"])
      \/ h.next = "MODEL_CARD" /\ HandlerSection(committed, [h EXCEPT !.next = "RUN_REPORT"])
  BY DEF PublishOutput
<1>3. h.next \in OutputTypes \ {"DATA_QUALITY_REPORT"}
  BY <1>2 DEF OutputTypes
<1>4. /\ Section(committed) /\ Published(Final(committed), {h.next})
      /\ MoreOutputs(db, Final(committed)) /\ Kept(db, Final(committed))
      /\ Final(committed).stages = db.stages
  BY <1>1, <1>3, Publishing, OutputOnce
<1> HIDE DEF committed
<1>5. /\ NoneOpen(Final(committed)) /\ ~IsDecided(Final(committed))
      /\ Final(committed).job = db.job /\ Final(committed).run = db.run
  BY <1>1, <1>4, Publishing DEF Kept, NoneOpen, IsDecided
<1>6. CASE h.next = "EVALUATION_REPORT" /\ HandlerSection(tt, [h EXCEPT !.next = "MODEL_CARD"])
  <2>1. StageOutputs(Final(committed), 5) /\ Len(Final(committed).stages) >= 4
    <3>1. StageOutputs(Final(committed), 4)
      <4>1. /\ Published(db, {"DATA_QUALITY_REPORT"})
            /\ Published(db, {"TASK_SPEC", "SPLIT_MANIFEST"})
            /\ Published(db, {"BASELINE_RESULT", "TRIAL_RESULT"})
        BY <1>1, Publishing DEF StageOutputs
      <4>2. db \in Database /\ Final(committed) \in Database
        BY <1>4, SectionEnds, Working DEF FileOK
      <4>3. /\ {"DATA_QUALITY_REPORT"} \in SUBSET OutputTypes
            /\ {"TASK_SPEC", "SPLIT_MANIFEST"} \in SUBSET OutputTypes
            /\ {"BASELINE_RESULT", "TRIAL_RESULT"} \in SUBSET OutputTypes
        BY DEF OutputTypes
      <4>4. /\ Published(Final(committed), {"DATA_QUALITY_REPORT"})
            /\ Published(Final(committed), {"TASK_SPEC", "SPLIT_MANIFEST"})
            /\ Published(Final(committed), {"BASELINE_RESULT", "TRIAL_RESULT"})
        BY <1>4, <4>1, <4>2, <4>3, StillPublished
      <4>5. QED
        BY <4>4 DEF StageOutputs
    <3>2. QED
      BY <1>1, <1>4, <1>6, <3>1, Publishing DEF StageOutputs
  <2>2. /\ Section(evaluated) /\ Len(Final(evaluated).stages) >= 5
        /\ Kept(Final(committed), Final(evaluated))
    BY <1>4, <2>1, StageCompleted, PhaseNumbers
  <2> HIDE DEF evaluated
  <2>3. /\ NoneOpen(Final(evaluated)) /\ ~IsDecided(Final(evaluated))
        /\ Final(evaluated).job = db.job /\ Final(evaluated).run = db.run
    BY <1>5, <2>2 DEF Kept, NoneOpen, IsDecided
  <2>4. /\ Section(tt) /\ Others(Final(evaluated), Final(tt), "run")
        /\ Final(tt).run.status \in {db.run.status, "RUNNING"}
    BY <1>1, <2>2, <2>3, Publishing, Transited, PhaseNumbers
  <2> HIDE DEF tt
  <2>5. /\ NoneOpen(Final(tt)) /\ ~IsDecided(Final(tt)) /\ Final(tt).job = db.job
        /\ Final(tt).run.status # "WAITING_APPROVAL" /\ Len(Final(tt).stages) >= 5
    BY <1>1, <2>2, <2>3, <2>4, Publishing DEF Others, NoneOpen, IsDecided
  <2>6. Len(Final(tt).stages) \in Nat
    BY <2>4, SectionEnds, Fields
  <2> DEFINE g == [h EXCEPT !.next = "MODEL_CARD"]
  <2>7. g \in Handlers /\ g.pc = "publishing" /\ g.next = "MODEL_CARD" /\ g.verdict = h.verdict
    BY <1>1, Publishing, HandlerWritten DEF OutputTypes
  <2>8. HandlerSection(tt, g)
    BY <1>6
  <2> HIDE DEF g
  <2>9. QED
    BY <1>1, <2>4, <2>5, <2>6, <2>7, <2>8, Publishing, MoveStep DEF Busy
<1>7. CASE h.next = "MODEL_CARD" /\ HandlerSection(committed, [h EXCEPT !.next = "RUN_REPORT"])
  <2> DEFINE g == [h EXCEPT !.next = "RUN_REPORT"]
  <2>1. g \in Handlers /\ g.pc = "publishing" /\ g.next = "RUN_REPORT" /\ g.verdict = h.verdict
    BY <1>1, Publishing, HandlerWritten DEF OutputTypes
  <2>2. HandlerSection(committed, g)
    BY <1>7
  <2>3. Len(Final(committed).stages) >= 5 /\ Final(committed).outputs["MODEL_CARD"] > 0
    BY <1>1, <1>4, <1>7, Publishing DEF Published
  <2>4. Len(Final(committed).stages) \in Nat
    BY <1>4, SectionEnds, Fields
  <2> HIDE DEF g
  <2>5. QED
    BY <1>1, <1>4, <1>5, <2>1, <2>2, <2>3, <2>4, Publishing, MoveStep DEF Busy
<1>8. QED
  BY <1>2, <1>6, <1>7

(* An approval is opened, or the run succeeds, behind both last reports. *)
LEMMA ClosePublicationStep ==
  ASSUME IInv, ClosePublication
  PROVE  Holds
<1> DEFINE reported == CommitOutputOnce(<<db>>, "RUN_REPORT")
           d == Final(reported)
<1>1. h.pc = "publishing" /\ h.next = "RUN_REPORT"
  BY DEF ClosePublication
<1>2. /\ Section(<<db>>) /\ Final(<<db>>) = db /\ cb.pc = "none" /\ NoneOpen(db)
      /\ ~IsDecided(db) /\ db.run \in Run /\ Len(db.stages) >= 5
      /\ Published(db, {"MODEL_CARD"}) /\ db.run.status # "WAITING_APPROVAL"
  BY <1>1, Publishing
<1>3. /\ Section(reported) /\ Published(d, {"RUN_REPORT"}) /\ MoreOutputs(db, d) /\ Kept(db, d)
      /\ d.stages = db.stages
  BY <1>2, OutputOnce, OnceTypes
<1>4. \/ Gated /\ HandlerSection(OpenApproval(reported), Done(COMPLETE))
      \/ HandlerSection(EndUngated(reported),
                        Done(IF db.result = NoResult THEN COMPLETE ELSE Raised("error")))
  BY Zenon DEF ClosePublication
<1> HIDE DEF reported
<1>5. Published(d, {"MODEL_CARD", "RUN_REPORT"})
  <2>1. db \in Database /\ d \in Database /\ {"MODEL_CARD"} \in SUBSET OutputTypes
    BY <1>3, SectionEnds, Working DEF FileOK, OutputTypes
  <2>2. Published(d, {"MODEL_CARD"})
    BY <1>2, <1>3, <2>1, StillPublished
  <2>3. QED
    BY <1>3, <2>2 DEF Published
<1>6. CASE HandlerSection(OpenApproval(reported), Done(COMPLETE))
  <2> DEFINE opened == IF db.approval = "OPEN" THEN reported ELSE PutApproval(reported, "OPEN")
             r == [db.run EXCEPT !.phase = "PACKAGE", !.status = "WAITING_APPROVAL",
                                 !.outcome = "none", !.blocking = "approval",
                                 !.actions = {"APPROVE", "CANCEL"}]
             tt == PutRun(opened, r)
  <2>1. OpenApproval(reported) = tt
    BY DEF OpenApproval
  <2>2. /\ r \in Run /\ r.status = "WAITING_APPROVAL" /\ r.actions = {"APPROVE", "CANCEL"}
        /\ r.answering = db.run.answering
    <3>1. "PACKAGE" \in Phase /\ {"APPROVE", "CANCEL"} \in SUBSET (Commands \cup {"APPROVE"})
      BY PhaseNumbers DEF Commands
    <3>2. QED
      BY <1>2, <3>1 DEF Run
  <2> HIDE DEF r
  <2>3. /\ Section(opened) /\ Final(opened).approval = "OPEN" /\ Final(opened).run = db.run
        /\ NoneOpen(Final(opened)) /\ Final(opened).job = db.job
    <3>1. CASE db.approval = "OPEN"
      BY <1>2, <1>3, <3>1 DEF Kept, NoneOpen
    <3>2. CASE db.approval # "OPEN"
      <4>1. d.model = FALSE
        <5>1. db.model \in BOOLEAN /\ (db.model => db.approval = "APPROVED")
          BY Fields DEF IInv, FileOK, ApprovalOK
        <5>2. QED
          BY <1>2, <1>3, <5>1 DEF Kept, IsDecided
      <4>2. /\ Section(PutApproval(reported, "OPEN"))
            /\ Final(PutApproval(reported, "OPEN")).approval = "OPEN"
            /\ Others(d, Final(PutApproval(reported, "OPEN")), "approval")
        BY <1>2, <1>3, <1>5, <4>1, ApprovalPut DEF Approval
      <4>3. opened = PutApproval(reported, "OPEN")
        BY <3>2
      <4>4. QED
        BY <1>2, <1>3, <4>2, <4>3 DEF Others, Kept, NoneOpen
    <3>3. QED
      BY <3>1, <3>2
  <2> HIDE DEF opened
  <2>4. Section(tt) /\ Final(tt).run = r /\ Others(Final(opened), Final(tt), "run")
    BY <2>2, <2>3, RunAwaits
  <2> HIDE DEF tt
  <2>5. Final(tt).job = db.job /\ Final(tt).run.status \in Resting
    BY <2>2, <2>3, <2>4 DEF Others, Resting
  <2>6. QED
    BY <1>1, <1>2, <1>6, <2>1, <2>4, <2>5, VerdictTypes, EndStep
<1>7. CASE HandlerSection(EndUngated(reported),
                          Done(IF db.result = NoResult THEN COMPLETE ELSE Raised("error")))
  <2> DEFINE tt == Finalize(reported, "SUCCEEDED", FALSE)
             v == IF db.result = NoResult THEN COMPLETE ELSE Raised("error")
  <2>1. /\ Section(tt)
        /\ d.result = NoResult => Final(tt).run.status = "TERMINAL"
        /\ Final(tt).job = d.job
    <3>1. MayFinalize(d, "SUCCEEDED", FALSE)
      BY <1>2, <1>3, <1>5 DEF MayFinalize
    <3>2. Finalizes(reported, tt)
      BY <1>3, <3>1, Finalized
    <3>3. QED
      BY <3>2 DEF Finalizes
  <2>2. HandlerSection(tt, Done(v))
    BY <1>7 DEF EndUngated
  <2>3. /\ v \in Verdicts /\ v.kind # "checkpoint"
        /\ v.kind = "complete" => db.result = NoResult
    BY VerdictTypes
  <2> HIDE DEF tt, v
  <2>4. Final(tt).job = db.job /\ (db.result = NoResult => Final(tt).run.status \in Resting)
    BY <1>3, <2>1 DEF Kept, Resting
  <2>5. QED
    BY <1>1, <1>2, <2>1, <2>2, <2>3, <2>4, EndStep
<1>8. QED
  BY <1>4, <1>6, <1>7

(* run_once ends. *)
LEMMA WorkerStep ==
  ASSUME IInv, cb.pc = "none", NEW ss, Section(ss), NEW alive \in BOOLEAN, WorkerSection(ss, alive)
  PROVE  Holds
<1>1. CASE CrashDuring(ss)
  BY <1>1, CrashKeeps
<1>2. CASE db' = Final(ss) /\ h' = Idle /\ poll' = alive /\ UNCHANGED <<up, cb, used>>
  <2>1. Good(db')
    BY <1>2, SectionEnds
  <2>2. Idle \in Handlers /\ Idle.pc = "idle" /\ Idle.verdict.kind = "none"
    BY DEF Idle, Handlers, NoTicket, Nothing, Verdicts, HandlerPcs
  <2>3. ProcessTypes'
    BY <1>2, <2>2 DEF IInv, ProcessOK, ProcessTypes
  <2>4. h'.pc = "idle" /\ h'.verdict.kind = "none" /\ cb'.pc = "none"
    BY <1>2, <2>2
  <2>5. HandlerOK' /\ VerdictOK' /\ CallbackOK' /\ RestOK'
    BY <2>4 DEF HandlerOK, VerdictOK, CallbackOK, RestOK, Parked, Busy, Past
  <2>6. QED
    BY <2>1, <2>3, <2>5 DEF Holds, IInv, ProcessOK, Good, Follows
<1>3. QED
  BY <1>1, <1>2 DEF WorkerSection

(* A verdict that is applied is still true: COMPLETE of a run that rests. *)
LEMMA ApplyVerdictStep ==
  ASSUME IInv, ApplyVerdict
  PROVE  Holds
<1> DEFINE v == h.verdict
           j == IF v.kind = "complete" THEN Completed(db.job)
                                       ELSE Checkpointed(db.job, v.step, v.status, 0)
           ss == IF Passes(h.ticket) THEN PutJob(<<db>>, j) ELSE <<db>>
<1>1. h.pc = "done" /\ v.kind \in {"complete", "checkpoint"} /\ cb.pc = "none"
  BY Working DEF ApplyVerdict
<1>2. /\ Section(<<db>>) /\ Final(<<db>>) = db /\ db.job \in Job /\ db.job # NoJob /\ FileOK(db)
  BY <1>1, Working, GoingOn
<1>3. /\ j \in Job
      /\ j.status = "COMPLETED" => db.run.status \in Resting
      /\ j.step # "PROFILE" => Len(db.stages) >= 2
  <2>1. CASE v.kind = "complete"
    <3>1. db.run.status \in Resting
      BY <2>1 DEF IInv, ProcessOK, VerdictOK
    <3>2. /\ Completed(db.job) \in Job /\ Completed(db.job).step = db.job.step
      BY <1>2, JobOperations
    <3>3. j = Completed(db.job)
      BY <2>1
    <3> HIDE DEF j
    <3>4. QED
      BY <1>2, <3>1, <3>2, <3>3 DEF FileOK, JobOK
  <2>2. CASE v.kind = "checkpoint"
    <3>1. /\ v.step \in Steps /\ v.status \in {"READY", "WAITING"}
          /\ v.step # "PROFILE" => Len(db.stages) >= 2
      BY <2>2 DEF IInv, ProcessOK, VerdictOK
    <3>2. /\ Checkpointed(db.job, v.step, v.status, 0) \in Job
          /\ Checkpointed(db.job, v.step, v.status, 0).status = v.status
          /\ Checkpointed(db.job, v.step, v.status, 0).step = v.step
      BY <1>2, <3>1, JobCheckpointed
    <3>3. j = Checkpointed(db.job, v.step, v.status, 0)
      BY <2>2
    <3> HIDE DEF j
    <3>4. QED
      BY <3>1, <3>2, <3>3
  <2>3. QED
    BY <1>1, <2>1, <2>2
<1>4. WorkerSection(ss, Passes(h.ticket))
  BY Zenon DEF ApplyVerdict
<1> HIDE DEF j
<1>5. Section(ss)
  BY <1>2, <1>3, JobGoesOn
<1> HIDE DEF ss
<1>6. Passes(h.ticket) \in BOOLEAN
  BY DEF Passes, FenceHolds, LeaseLive, Leased
<1>7. QED
  BY <1>1, <1>4, <1>5, <1>6, WorkerStep

(* The retry of a job in hand, and the end of its run with its last attempt. *)
LEMMA RetrySection ==
  ASSUME IInv, h.pc # "idle", NEW delay \in {0, 1}
  PROVE  Section(AfterRetry(delay))
<1> DEFINE j == Retried(db.job, 0, delay)
           ss == PutJob(<<db>>, j)
<1>1. /\ Section(<<db>>) /\ Final(<<db>>) = db /\ db.job \in Job /\ db.job # NoJob /\ FileOK(db)
  BY Working, GoingOn
<1>2. j \in Job /\ j.status \in {"RETRY", "DEAD"} /\ j.step = db.job.step
  BY <1>1, JobOperations
<1>3. AfterRetry(delay) =
        IF j.status = "DEAD" /\ db.run.status # "TERMINAL" THEN FailRun(ss) ELSE ss
  BY DEF AfterRetry
<1> HIDE DEF j
<1>4. Section(ss)
  BY <1>1, <1>2, JobGoesOn DEF FileOK, JobOK
<1> HIDE DEF ss
<1>5. Section(FailRun(ss))
  BY <1>4, RunFailed
<1>6. QED
  BY <1>3, <1>4, <1>5

(* A retry, or the end of a run whose job is dead. *)
LEMMA RetryAfterErrorStep ==
  ASSUME IInv, RetryAfterError
  PROVE  Holds
<1>1. h.pc = "done" /\ cb.pc = "none" /\ Section(<<db>>)
  BY Working, GoingOn DEF RetryAfterError
<1> DEFINE alive == Retried(db.job, 0, 1).status = "DEAD" /\ db.run.status # "TERMINAL"
                      => db.result = NoResult
<1>2. alive \in BOOLEAN
  OBVIOUS
<1>3. WorkerSection(AfterRetry(1), alive) \/ WorkerSection(<<db>>, FALSE)
  BY Zenon DEF RetryAfterError
<1> HIDE DEF alive
<1>4. Section(AfterRetry(1))
  BY <1>1, RetrySection
<1>5. QED
  BY <1>1, <1>2, <1>3, <1>4, WorkerStep

(* A lost fence writes nothing and ends the poll loop. *)
LEMMA FenceRaisedStep ==
  ASSUME IInv, FenceRaised
  PROVE  Holds
BY WorkerStep, Working, GoingOn DEF FenceRaised

(* A callback outlives the handler that is cancelled. *)
LEMMA HeartbeatFencedStep ==
  ASSUME IInv, HeartbeatFenced
  PROVE  Holds
<1>1. h.pc \notin {"idle", "done"} /\ WorkerSection(<<db>>, FALSE) /\ Section(<<db>>) /\ Good(db)
  BY GoingOn DEF HeartbeatFenced, IInv
<1>2. CASE cb.pc = "none"
  BY <1>1, <1>2, WorkerStep
<1>3. CASE cb.pc # "none"
  <2>1. CASE CrashDuring(<<db>>)
    BY <1>1, <2>1, CrashKeeps
  <2>2. CASE ~CrashDuring(<<db>>)
    <3>1. db' = db /\ h' = Idle /\ poll' = FALSE /\ UNCHANGED <<up, cb, used>>
      BY <1>1, <2>2, GoingOn DEF WorkerSection, IInv
    <3>2. Idle \in Handlers /\ Idle.pc = "idle" /\ Idle.verdict.kind = "none"
      BY DEF Idle, Handlers, NoTicket, Nothing, Verdicts, HandlerPcs
    <3>3. ProcessTypes'
      BY <3>1, <3>2 DEF IInv, ProcessOK, ProcessTypes
    <3>4. HandlerOK' /\ VerdictOK'
      BY <3>1, <3>2 DEF HandlerOK, VerdictOK, Busy, Past
    <3>5. CallbackOK'
      <4>1. NoneOpen(db) => NoneOpen(db')
        BY <3>1
      <4>2. QED
        BY <3>1, <3>2, <4>1 DEF IInv, ProcessOK, CallbackOK, Ended
    <3>6. ~(db.run.status = "WAITING_APPROVAL" \/ IsDecided(db))
      BY <1>3 DEF IInv, ProcessOK, RestOK, Parked
    <3>7. RestOK'
      BY <3>1, <3>6 DEF RestOK, IsDecided
    <3>8. QED
      BY <1>1, <3>1, <3>3, <3>4, <3>5, <3>7 DEF Holds, IInv, ProcessOK, Good, Follows
  <2>3. QED
    BY <2>1, <2>2
<1>4. QED
  BY <1>2, <1>3

(* A crash between sections. *)
LEMMA CrashStep ==
  ASSUME IInv, Crash
  PROVE  Holds
<1>1. db' = db /\ Good(db)
  BY GoingOn DEF Crash, IInv
<1>2. QED
  BY <1>1, ProcessDies DEF Crash

(* A graceful stop retries the job and may end its run. *)
LEMMA StopStep ==
  ASSUME IInv, Stop
  PROVE  Holds
<1>1. h.pc # "idle" /\ db' = Final(AfterRetry(0))
  BY DEF Stop
<1>2. Good(db')
  BY <1>1, RetrySection, SectionEnds
<1>3. QED
  BY <1>2, ProcessDies DEF Stop

(* A restart gives a job to a run that lacks one, at its first step. *)
LEMMA RestartStep ==
  ASSUME IInv, Restart
  PROVE  Holds
<1>1. /\ ~up /\ up' = TRUE /\ poll' = TRUE /\ UNCHANGED <<h, cb, used>>
      /\ db' = db \/ db' = [db EXCEPT !.job = NewJob("PROFILE", 0)]
  BY DEF Restart
<1>2. h.pc = "idle" /\ cb.pc = "none" /\ FileOK(db)
  BY <1>1 DEF IInv, ProcessOK, HandlerOK, CallbackOK
<1>3. Good(db')
  <2>1. CASE db' = db
    BY <1>2, <2>1, GoingOn
  <2>2. CASE db' = [db EXCEPT !.job = NewJob("PROFILE", 0)]
    BY <1>2, <2>2, JobOperations, JobPut
  <2>3. QED
    BY <1>1, <2>1, <2>2
<1>4. ProcessTypes' /\ h'.pc = "idle" /\ cb'.pc = "none"
  BY <1>1, <1>2 DEF IInv, ProcessOK, ProcessTypes
<1>5. HandlerOK' /\ CallbackOK' /\ RestOK'
  BY <1>4 DEF HandlerOK, CallbackOK, RestOK, Parked, Busy, Past
<1>6. VerdictOK'
  BY <1>1, <1>2 DEF IInv, ProcessOK, VerdictOK
<1>7. QED
  BY <1>3, <1>4, <1>5, <1>6 DEF Holds, IInv, ProcessOK, Good, Follows

-----------------------------------------------------------------------------
(* Callbacks. *)

Callbacks == [pc: {"none", "waiting", "writing"}, phase: {"PLAN", "TRAIN"}]

(* What holds while a callback is on its way. *)
LEMMA CallingBack ==
  ASSUME IInv, cb.pc # "none"
  PROVE  /\ up /\ h.pc \in {"training", "idle"} /\ (h.pc = "training" \/ ~poll)
         /\ cb \in Callbacks /\ h \in Handlers
         /\ db.job # NoJob \/ h.pc = "idle"
         /\ db.job.status \notin Closed /\ db.job.status # "COMPLETED" /\ NoneOpen(db)
         /\ ~IsDecided(db) /\ db.run.status # "WAITING_APPROVAL"
         /\ Len(db.stages) \in Nat /\ Len(db.stages) >= 2
         /\ cb.phase = "TRAIN" => Len(db.stages) >= 3 \/ Ended
         /\ cb.pc = "writing" => cb.phase = "PLAN" /\ db.outputs["TASK_SPEC"] > 0
         /\ Section(<<db>>) /\ Final(<<db>>) = db
         /\ h.verdict.kind \notin {"complete", "checkpoint"}
<1>1. ProcessTypes /\ HandlerOK /\ CallbackOK /\ RestOK /\ VerdictOK
  BY DEF IInv, ProcessOK
<1>2. up /\ h.pc \in {"training", "idle"} /\ (h.pc = "training" \/ ~poll)
  BY <1>1 DEF CallbackOK
<1>3. cb \in Callbacks /\ h \in Handlers
  BY <1>1 DEF ProcessTypes, Callbacks
<1>4. /\ db.job # NoJob \/ h.pc = "idle"
      /\ db.job.status \notin Closed /\ db.job.status # "COMPLETED" /\ NoneOpen(db)
  BY <1>1 DEF HandlerOK, CallbackOK, Closed
<1>5. ~IsDecided(db) /\ db.run.status # "WAITING_APPROVAL"
  BY <1>1 DEF RestOK, Parked
<1>6. /\ Len(db.stages) \in Nat /\ Len(db.stages) >= 2
      /\ cb.phase = "TRAIN" => Len(db.stages) >= 3 \/ Ended
      /\ cb.pc = "writing" => cb.phase = "PLAN" /\ db.outputs["TASK_SPEC"] > 0
  BY <1>1, Working DEF CallbackOK
<1>7. Section(<<db>>) /\ Final(<<db>>) = db
  BY GoingOn DEF IInv
<1>8. h.verdict.kind \notin {"complete", "checkpoint"}
  BY <1>1, <1>2 DEF VerdictOK
<1>9. QED
  BY <1>2, <1>3, <1>4, <1>5, <1>6, <1>7, <1>8

(* A callback's section: it returns, or goes on to its second upload. *)
LEMMA CallbackStep ==
  ASSUME IInv, cb.pc # "none", NEW ss, Section(ss), NEW c \in Callbacks, CallbackSection(ss, c),
         Final(ss).job = db.job, NoneOpen(Final(ss)), ~IsDecided(Final(ss)),
         Final(ss).run.status # "WAITING_APPROVAL",
         c = NoCallback =>
           Final(ss).run.status = "TERMINAL" \/
             /\ cb.phase = "PLAN" => Len(Final(ss).stages) >= 3
             /\ cb.phase = "TRAIN" => Len(Final(ss).stages) >= 4,
         c # NoCallback => /\ c.pc = "writing" /\ c.phase = "PLAN"
                           /\ Final(ss).outputs["TASK_SPEC"] > 0
                           /\ Ended => Final(ss).run.status = "TERMINAL"
  PROVE  Holds
<1>1. CASE CrashDuring(ss)
  BY <1>1, CrashKeeps
<1>2. CASE /\ db' = Final(ss) /\ cb' = c
           /\ h' = IF c = NoCallback THEN Return ELSE h
           /\ UNCHANGED <<up, poll, used>>
  <2>1. Good(db')
    BY <1>2, SectionEnds
  <2>2. /\ Len(db'.stages) >= Len(db.stages) /\ Len(db'.stages) \in Nat
        /\ Len(db.stages) \in Nat
    BY <2>1, Fields, Working DEF Good, Follows, FileOK
  <2> DEFINE n == IF h.pc # "training" THEN h.next
                  ELSE IF cb.phase = "PLAN" THEN "TRAIN" ELSE "return"
  <2>3. n \in {"none", "PLAN", "TRAIN", "return"} \cup OutputTypes
    BY CallingBack DEF Handlers
  <2>4. Return = [h EXCEPT !.next = n]
    BY DEF Return
  <2>5. /\ Return \in Handlers /\ Return.pc = h.pc /\ Return.next = n
        /\ Return.verdict = h.verdict
    <3> HIDE DEF n
    <3>1. QED
      BY <2>3, <2>4, CallingBack, HandlerWritten
  <2>6. /\ h' \in Handlers /\ h'.pc = h.pc /\ h'.verdict = h.verdict
        /\ h'.next = IF c = NoCallback THEN n ELSE h.next
    <3> HIDE DEF n
    <3>1. QED
      BY <1>2, <2>5, CallingBack
  <2>7. ProcessTypes'
    BY <1>2, <2>6 DEF IInv, ProcessOK, ProcessTypes, Callbacks
  <2>8. cb.phase \in {"PLAN", "TRAIN"}
    BY CallingBack DEF Callbacks
  <2>9. HandlerOK'
    <3>1. NoneOpen(db')
      BY <1>2
    <3>2. h'.pc # "idle" => up' /\ db'.job # NoJob /\ db'.job.status \notin Closed
      BY <1>2, <2>6, CallingBack
    <3>3. h'.pc = "training" =>
            /\ h'.next \in {"PLAN", "TRAIN", "return"}
            /\ h'.next = "TRAIN" => Len(db'.stages) >= 3 \/ Ended'
            /\ h'.next = "return" => Len(db'.stages) >= 4 \/ Ended'
      <4>1. CASE c = NoCallback
        BY <1>2, <2>6, <2>8, <4>1 DEF Ended
      <4>2. CASE c # NoCallback
        BY <1>2, <2>2, <2>6, <4>2 DEF IInv, ProcessOK, HandlerOK, Ended
      <4>3. QED
        BY <4>1, <4>2
    <3>4. Len(db'.stages) >= 2
      BY <2>2, CallingBack
    <3>5. h'.pc # "publishing"
      BY <2>6, CallingBack
    <3>6. QED
      BY <3>1, <3>2, <3>3, <3>4, <3>5 DEF HandlerOK
  <2>10. VerdictOK'
    BY <2>6, CallingBack DEF VerdictOK
  <2>11. CallbackOK'
    <3>1. CASE c = NoCallback
      BY <1>2, <3>1 DEF CallbackOK, NoCallback
    <3>2. CASE c # NoCallback
      <4>1. NoneOpen(db') /\ Len(db'.stages) >= 2 /\ db'.job.status \notin Closed
        BY <1>2, <2>2, CallingBack
      <4>2. up' /\ (h'.pc = "training" \/ (h'.pc = "idle" /\ ~poll'))
        BY <1>2, <2>6, CallingBack
      <4>3. cb'.phase = "PLAN" /\ db'.outputs["TASK_SPEC"] > 0
        BY <1>2, <3>2
      <4>4. QED
        BY <4>1, <4>2, <4>3 DEF CallbackOK
    <3>3. QED
      BY <3>1, <3>2
  <2>12. RestOK'
    BY <1>2 DEF RestOK
  <2>13. QED
    BY <2>1, <2>7, <2>9, <2>10, <2>11, <2>12 DEF Holds, IInv, ProcessOK, Good, Follows
<1>3. QED
  BY <1>1, <1>2 DEF CallbackSection

(* A callback starts under a live fence, so its job is not closed. *)
LEMMA CallBackStep ==
  ASSUME IInv, NEW p \in {"PLAN", "TRAIN"}, CallBack(p)
  PROVE  Holds
<1>1. /\ h.pc = "training" /\ h.next = p /\ cb.pc = "none" /\ db' = db
      /\ UNCHANGED <<db, up, poll, used>> /\ h.pc \in Busy /\ h.pc \in Past /\ Good(db)
  BY GoingOn DEF CallBack, BackendThread, Busy, Past, IInv
<1>2. CASE Passes(h.ticket) /\ cb' = [pc |-> "waiting", phase |-> p] /\ UNCHANGED h
  <2>1. /\ up /\ db.job.status \notin Closed /\ NoneOpen(db) /\ Len(db.stages) >= 2
        /\ ~IsDecided(db) /\ db.run.status # "WAITING_APPROVAL"
    BY <1>1, Working
  <2>2. ProcessTypes'
    BY <1>1, <1>2 DEF IInv, ProcessOK, ProcessTypes
  <2>3. NoneOpen(db')
    BY <1>1, <2>1
  <2>4. HandlerOK' /\ VerdictOK'
    BY <1>1, <1>2, <2>3 DEF IInv, ProcessOK, HandlerOK, VerdictOK, Ended
  <2>5. p = "TRAIN" => Len(db.stages) >= 3 \/ Ended
    BY <1>1 DEF IInv, ProcessOK, HandlerOK
  <2>6. CallbackOK'
    BY <1>1, <1>2, <2>1, <2>3, <2>5 DEF CallbackOK, Ended
  <2>7. RestOK'
    BY <1>1, <2>1 DEF RestOK, IsDecided
  <2>8. QED
    BY <1>1, <2>2, <2>4, <2>6, <2>7 DEF Holds, IInv, ProcessOK, Good, Follows
<1>3. CASE UNCHANGED cb /\ h' = Done(Raised("fence"))
  BY <1>1, <1>3, Working, VerdictTypes, HandlerEnds
<1>4. CASE UNCHANGED cb /\ h' = At("failing")
  <2>1. /\ At("failing") \in Handlers /\ At("failing").pc = "failing"
        /\ At("failing").verdict = h.verdict
    BY HandlerWritten, Working DEF HandlerPcs
  <2>2. NoneOpen(db) /\ ~IsDecided(db) /\ db.run.status # "WAITING_APPROVAL"
    BY <1>1, Working
  <2>3. QED
    BY <1>1, <1>4, <2>1, <2>2, Working, HandlerMoves DEF Busy, Past
<1>5. QED
  BY <1>2, <1>3, <1>4 DEF CallBack

(* A callback that finds its run ended returns at once. *)
LEMMA CallbackFindsTerminalStep ==
  ASSUME IInv, CallbackFindsTerminal
  PROVE  Holds
<1>1. /\ cb.pc # "none" /\ db.run.status = "TERMINAL" /\ CallbackSection(<<db>>, NoCallback)
  BY DEF CallbackFindsTerminal
<1>2. NoCallback \in Callbacks
  BY DEF NoCallback, Callbacks
<1>3. QED
  BY <1>1, <1>2, CallingBack, CallbackStep

(* A failed upload ends the callback, and the handler that waits for it. *)
LEMMA SplitUploadFailsStep ==
  ASSUME IInv, SplitUploadFails
  PROVE  Holds
<1>1. /\ cb.pc # "none" /\ cb' = NoCallback /\ db' = db /\ UNCHANGED <<up, poll>>
      /\ h' = IF h.pc = "training" THEN Done(Raised("error")) ELSE h
      /\ used' = [used EXCEPT !.failures = @ + 1] /\ used.failures < MaxFailures
  BY DEF SplitUploadFails
<1>2. /\ up /\ h.pc \in {"training", "idle"} /\ h \in Handlers /\ Good(db)
      /\ db.job # NoJob \/ h.pc = "idle"
      /\ db.job.status \notin Closed /\ NoneOpen(db)
      /\ h.verdict.kind \notin {"complete", "checkpoint"}
  BY <1>1, CallingBack, GoingOn DEF IInv
<1>3. /\ h' \in Handlers /\ h'.pc \in {"done", "idle"} /\ (h'.pc = "done" => h.pc = "training")
      /\ h'.verdict.kind \notin {"complete", "checkpoint"}
  <2>1. CASE h.pc = "training"
    BY <1>1, <1>2, <2>1, HandlerWritten, VerdictTypes
  <2>2. CASE h.pc = "idle"
    BY <1>1, <1>2, <2>2
  <2>3. QED
    BY <1>2, <2>1, <2>2
<1>4. used' \in [controls: 0..MaxControls, crashes: 0..MaxCrashes, failures: 0..MaxFailures]
  BY <1>1, Working, FlagsAssumption
<1>5. ProcessTypes'
  BY <1>1, <1>3, <1>4 DEF IInv, ProcessOK, ProcessTypes, NoCallback
<1>6. HandlerOK'
  BY <1>1, <1>2, <1>3 DEF HandlerOK, Busy, Past
<1>7. VerdictOK' /\ CallbackOK' /\ RestOK'
  <2>1. cb'.pc = "none" /\ h'.pc \in {"done", "idle"}
    BY <1>1, <1>3 DEF NoCallback
  <2>2. VerdictOK'
    BY <1>3 DEF VerdictOK
  <2>3. CallbackOK' /\ RestOK'
    BY <2>1 DEF CallbackOK, RestOK, Parked
  <2>4. QED
    BY <2>2, <2>3
<1>8. QED
  BY <1>1, <1>2, <1>5, <1>6, <1>7 DEF Holds, IInv, ProcessOK, Good, Follows

(* The outputs of the completed stages stay. *)
LEMMA StageOutputsKept ==
  ASSUME NEW d \in Database, NEW e \in Database, MoreOutputs(d, e), NEW n \in Nat,
         StageOutputs(d, n)
  PROVE  StageOutputs(e, n)
<1>1. /\ {"DATA_QUALITY_REPORT"} \in SUBSET OutputTypes
      /\ {"TASK_SPEC", "SPLIT_MANIFEST"} \in SUBSET OutputTypes
      /\ {"BASELINE_RESULT", "TRIAL_RESULT"} \in SUBSET OutputTypes
      /\ {"EVALUATION_REPORT"} \in SUBSET OutputTypes
      /\ {"MODEL_CARD", "RUN_REPORT"} \in SUBSET OutputTypes
  BY DEF OutputTypes
<1>2. QED
  BY <1>1, StillPublished DEF StageOutputs

(* A stage that is there, by number. *)
LEMMA StageThere ==
  /\ FileOK(db) /\ HasStage(db, "PLAN") => Len(db.stages) >= 3
  /\ FileOK(db) /\ HasStage(db, "TRAIN") => Len(db.stages) >= 4
BY StageNumber, PhaseNumbers DEF FileOK

(* PLAN's first output, or nothing where PLAN is complete. *)
LEMMA PublishTaskStep ==
  ASSUME IInv, PublishTask
  PROVE  Holds
<1>1. /\ cb.pc = "waiting" /\ cb.phase = "PLAN" /\ db.run.status # "TERMINAL"
  BY DEF PublishTask
<1>2. NoCallback \in Callbacks /\ [cb EXCEPT !.pc = "writing"] \in Callbacks
  BY <1>1, CallingBack DEF NoCallback, Callbacks
<1>3. CASE HasStage(db, "PLAN")
  <2> DEFINE tt == TransitionTo(<<db>>, "TRAIN")
  <2>1. CallbackSection(tt, NoCallback)
    BY <1>3 DEF PublishTask
  <2>2. /\ Section(tt) /\ Others(db, Final(tt), "run")
        /\ Final(tt).run.status \in {db.run.status, "RUNNING"}
    BY <1>1, CallingBack, Transited, PhaseNumbers
  <2> HIDE DEF tt
  <2>3. Len(db.stages) >= 3
    BY <1>3, StageThere DEF IInv
  <2>4. /\ Final(tt).job = db.job /\ NoneOpen(Final(tt)) /\ ~IsDecided(Final(tt))
        /\ Final(tt).run.status # "WAITING_APPROVAL" /\ Len(Final(tt).stages) >= 3
    BY <1>1, <2>2, <2>3, CallingBack DEF Others, NoneOpen, IsDecided
  <2>5. QED
    BY <1>1, <1>2, <2>1, <2>2, <2>4, CallingBack, CallbackStep DEF Ended
<1>4. CASE ~HasStage(db, "PLAN")
  <2> DEFINE tt == CommitOutputOnce(<<db>>, "TASK_SPEC")
             c == [cb EXCEPT !.pc = "writing"]
  <2>1. CallbackSection(tt, c)
    BY <1>4 DEF PublishTask
  <2>2. /\ Section(tt) /\ Published(Final(tt), {"TASK_SPEC"}) /\ Kept(db, Final(tt))
        /\ Final(tt).stages = db.stages
    BY CallingBack, <1>1, OutputOnce, OnceTypes
  <2>3. c \in Callbacks /\ c.pc = "writing" /\ c.phase = "PLAN" /\ c # NoCallback
    BY <1>1, CallingBack DEF Callbacks, NoCallback
  <2> HIDE DEF tt, c
  <2>4. /\ Final(tt).job = db.job /\ NoneOpen(Final(tt)) /\ ~IsDecided(Final(tt))
        /\ Final(tt).run.status # "WAITING_APPROVAL" /\ Final(tt).outputs["TASK_SPEC"] > 0
    BY <1>1, <2>2, CallingBack DEF Kept, NoneOpen, IsDecided, Published
  <2>5. QED
    BY <1>1, <2>1, <2>2, <2>3, <2>4, CallbackStep DEF Ended
<1>5. QED
  BY <1>3, <1>4

(* PLAN is completed behind both of its outputs. *)
LEMMA PublishSplitStep ==
  ASSUME IInv, PublishSplit
  PROVE  Holds
<1> DEFINE split == CommitOutputOnce(<<db>>, "SPLIT_MANIFEST")
           planned == CompleteStage(split, "PLAN")
           tt == TransitionTo(planned, "TRAIN")
<1>1. cb.pc = "writing" /\ CallbackSection(tt, NoCallback)
  BY DEF PublishSplit
<1>2. /\ cb.phase = "PLAN" /\ db.outputs["TASK_SPEC"] > 0 /\ Len(db.stages) >= 2
      /\ Section(<<db>>) /\ Final(<<db>>) = db /\ Len(db.stages) \in Nat /\ FileOK(db)
  BY <1>1, CallingBack DEF IInv
<1>3. /\ Section(split) /\ Published(Final(split), {"SPLIT_MANIFEST"})
      /\ MoreOutputs(db, Final(split)) /\ Kept(db, Final(split))
      /\ Final(split).stages = db.stages
  BY <1>2, OutputOnce, OnceTypes
<1> HIDE DEF split
<1>4. StageOutputs(Final(split), 3)
  <2>1. db \in Database /\ Final(split) \in Database
    BY <1>2, <1>3, SectionEnds DEF FileOK
  <2>2. /\ {"DATA_QUALITY_REPORT"} \in SUBSET OutputTypes /\ {"TASK_SPEC"} \in SUBSET OutputTypes
    BY DEF OutputTypes
  <2>3. Published(db, {"DATA_QUALITY_REPORT"}) /\ Published(db, {"TASK_SPEC"})
    BY <1>2 DEF FileOK, StagesOK, StageOutputs, Published
  <2>4. Published(Final(split), {"DATA_QUALITY_REPORT"}) /\ Published(Final(split), {"TASK_SPEC"})
    BY <1>3, <2>1, <2>2, <2>3, StillPublished
  <2>5. QED
    BY <1>3, <2>4 DEF StageOutputs, Published
<1>5. /\ Section(planned) /\ Len(Final(planned).stages) >= 3 /\ Kept(Final(split), Final(planned))
  BY <1>2, <1>3, <1>4, StageCompleted, PhaseNumbers
<1> HIDE DEF planned
<1>6. /\ Final(planned).job = db.job /\ NoneOpen(Final(planned)) /\ ~IsDecided(Final(planned))
      /\ Final(planned).run = db.run
  BY <1>1, <1>3, <1>5, CallingBack DEF Kept, NoneOpen, IsDecided
<1>7. /\ Section(tt) /\ Others(Final(planned), Final(tt), "run")
      /\ Final(tt).run.status \in {Final(planned).run.status, "RUNNING"}
  BY <1>1, <1>5, <1>6, CallingBack, Transited, PhaseNumbers
<1> HIDE DEF tt
<1>8. /\ Final(tt).job = db.job /\ NoneOpen(Final(tt)) /\ ~IsDecided(Final(tt))
      /\ Final(tt).run.status # "WAITING_APPROVAL" /\ Len(Final(tt).stages) >= 3
  BY <1>1, <1>5, <1>6, <1>7, CallingBack DEF Others, NoneOpen, IsDecided
<1>9. NoCallback \in Callbacks
  BY DEF NoCallback, Callbacks
<1>10. QED
  BY <1>1, <1>2, <1>7, <1>8, <1>9, CallbackStep

(* TRAIN is completed behind both of its outputs, never before PLAN. *)
LEMMA PublishTrialsStep ==
  ASSUME IInv, PublishTrials
  PROVE  Holds
<1> DEFINE based == CommitOutputOnce(<<db>>, "BASELINE_RESULT")
           tried == CommitOutputOnce(based, "TRIAL_RESULT")
           trained == IF HasStage(db, "TRAIN") THEN <<db>> ELSE CompleteStage(tried, "TRAIN")
           tt == TransitionTo(trained, "EVALUATE")
<1>1. /\ cb.pc # "none" /\ cb.phase = "TRAIN" /\ db.run.status # "TERMINAL"
      /\ CallbackSection(tt, NoCallback)
  BY Zenon DEF PublishTrials
<1>2. /\ Len(db.stages) \in Nat /\ Len(db.stages) >= 3 /\ FileOK(db)
      /\ Section(<<db>>) /\ Final(<<db>>) = db
  BY <1>1, CallingBack DEF Ended, IInv
<1>3. /\ Section(based) /\ Published(Final(based), {"BASELINE_RESULT"})
      /\ MoreOutputs(db, Final(based)) /\ Kept(db, Final(based))
      /\ Final(based).stages = db.stages
  BY <1>2, OutputOnce, OnceTypes
<1> HIDE DEF based
<1>4. /\ Section(tried) /\ Published(Final(tried), {"TRIAL_RESULT"})
      /\ MoreOutputs(Final(based), Final(tried)) /\ Kept(Final(based), Final(tried))
      /\ Final(tried).stages = db.stages
  BY <1>3, OutputOnce, OnceTypes
<1> HIDE DEF tried
<1>5. StageOutputs(Final(tried), 4)
  <2>1. db \in Database /\ Final(based) \in Database /\ Final(tried) \in Database
    BY <1>2, <1>3, <1>4, SectionEnds DEF FileOK
  <2>2. StageOutputs(db, 3)
    BY <1>2 DEF FileOK, StagesOK, StageOutputs
  <2>3. StageOutputs(Final(tried), 3)
    BY <1>3, <1>4, <2>1, <2>2, StageOutputsKept
  <2>4. Published(Final(tried), {"BASELINE_RESULT"})
    BY <1>3, <1>4, <2>1, StillPublished DEF OutputTypes
  <2>5. QED
    BY <1>4, <2>3, <2>4 DEF StageOutputs, Published
<1>6. /\ Section(trained) /\ Len(Final(trained).stages) >= 4 /\ Kept(db, Final(trained))
  <2>1. CASE HasStage(db, "TRAIN")
    BY <1>2, <2>1, StageThere DEF Kept
  <2>2. CASE ~HasStage(db, "TRAIN")
    <3>1. /\ Section(CompleteStage(tried, "TRAIN"))
          /\ Len(Final(CompleteStage(tried, "TRAIN")).stages) >= 4
          /\ Kept(Final(tried), Final(CompleteStage(tried, "TRAIN")))
      BY <1>2, <1>4, <1>5, StageCompleted, PhaseNumbers
    <3>2. trained = CompleteStage(tried, "TRAIN")
      BY <2>2
    <3> HIDE DEF trained
    <3>3. QED
      BY <1>3, <1>4, <3>1, <3>2 DEF Kept
  <2>3. QED
    BY <2>1, <2>2
<1> HIDE DEF trained
<1>7. /\ Final(trained).job = db.job /\ NoneOpen(Final(trained)) /\ ~IsDecided(Final(trained))
      /\ Final(trained).run = db.run
  BY <1>1, <1>6, CallingBack DEF Kept, NoneOpen, IsDecided
<1>8. /\ Section(tt) /\ Others(Final(trained), Final(tt), "run")
      /\ Final(tt).run.status \in {Final(trained).run.status, "RUNNING"}
  BY <1>1, <1>6, <1>7, CallingBack, Transited, PhaseNumbers
<1> HIDE DEF tt
<1>9. /\ Final(tt).job = db.job /\ NoneOpen(Final(tt)) /\ ~IsDecided(Final(tt))
      /\ Final(tt).run.status # "WAITING_APPROVAL" /\ Len(Final(tt).stages) >= 4
  BY <1>1, <1>6, <1>7, <1>8, CallingBack DEF Others, NoneOpen, IsDecided
<1>10. NoCallback \in Callbacks
  BY DEF NoCallback, Callbacks
<1>11. QED
  BY <1>1, <1>8, <1>9, <1>10, CallbackStep

-----------------------------------------------------------------------------
(* The invariant and what follows from it. *)

(* The empty file, and a process that has just started. *)
LEMMA InitStep ==
  ASSUME Init
  PROVE  IInv
<1> DEFINE run == [status |-> "ABSENT", outcome |-> "none", phase |-> "INGEST", actions |-> {},
                   blocking |-> "none", known |-> {}, answering |-> FALSE]
           zeros == Zero(OutputTypes)
           unsettled == Zero(Commands)
<1>1. db = [run |-> run, job |-> NoJob, packets |-> <<>>, approval |-> "none", model |-> FALSE,
            result |-> NoResult, stages |-> <<>>, outputs |-> zeros, announced |-> zeros,
            unsettled |-> unsettled]
  BY DEF Init, EmptyDatabase
<1>2. /\ run \in Run /\ run.status = "ABSENT" /\ run.answering = FALSE
      /\ zeros \in [OutputTypes -> Nat] /\ \A t \in OutputTypes : zeros[t] = 0
      /\ unsettled \in [Commands -> Nat]
      /\ NoResult \in Result /\ NoResult.eligible = FALSE /\ NoJob.status = "ABSENT"
  BY PhaseNumbers DEF Run, Zero, NoResult, Result, NoJob
<1>3. <<>> \in Seq(Packet) /\ <<>> \in Seq(Phase) /\ Len(<<>>) = 0 /\ DOMAIN <<>> = {}
  OBVIOUS
<1> HIDE DEF run, zeros, unsettled
<1>4. /\ db.run = run /\ db.job = NoJob /\ db.packets = <<>> /\ db.approval = "none"
      /\ db.model = FALSE /\ db.result = NoResult /\ db.stages = <<>>
      /\ db.outputs = zeros /\ db.announced = zeros /\ db.unsettled = unsettled
  BY <1>1
<1>5. db \in Database
  <2>1. "none" \in Approval
    BY DEF Approval
  <2>2. QED
    BY <1>1, <1>2, <1>3, <2>1 DEF Database
<1>6. SettledOK(db) /\ OutputsOK(db) /\ JobOK(db)
  BY <1>2, <1>4 DEF SettledOK, OutputsOK, JobOK
<1>7. StagesOK(db)
  <2>1. Len(db.stages) = 0 /\ DOMAIN db.stages = {}
    BY <1>3, <1>4
  <2>2. QED
    BY <2>1 DEF StagesOK, StageOutputs
<1>8. ApprovalOK(db)
  BY <1>2, <1>4 DEF ApprovalOK, IsDecided
<1>9. PacketsOK(db)
  <2>1. DOMAIN db.packets = {}
    BY <1>3, <1>4
  <2>2. QED
    BY <2>1 DEF PacketsOK, NoneOpen
<1>10. FileOK(db)
  BY <1>2, <1>4, <1>5, <1>6, <1>7, <1>8, <1>9 DEF FileOK
<1>11. ProcessTypes
  <2>1. Idle \in Handlers
    BY DEF Idle, Handlers, NoTicket, Nothing, Verdicts, HandlerPcs
  <2>2. NoCallback \in [pc: {"none", "waiting", "writing"}, phase: {"PLAN", "TRAIN"}]
    BY DEF NoCallback
  <2>3. [controls |-> 0, crashes |-> 0, failures |-> 0]
          \in [controls: 0..MaxControls, crashes: 0..MaxCrashes, failures: 0..MaxFailures]
    BY FlagsAssumption
  <2>4. QED
    BY <2>1, <2>2, <2>3 DEF Init, ProcessTypes
<1>12. h.pc = "idle" /\ h.verdict.kind = "none" /\ cb.pc = "none"
  BY DEF Init, Idle, Nothing, NoCallback
<1>13. HandlerOK /\ VerdictOK /\ CallbackOK /\ RestOK
  BY <1>12 DEF HandlerOK, VerdictOK, CallbackOK, RestOK, Parked, Busy, Past
<1>14. QED
  BY <1>10, <1>11, <1>13 DEF IInv, ProcessOK

(* Nothing happens. *)
LEMMA StutterStep ==
  ASSUME IInv, UNCHANGED vars
  PROVE  Holds
<1>1. db' = db /\ UNCHANGED <<up, poll, h, cb, used>>
  BY DEF vars
<1>2. Good(db') /\ Calm(db')
  BY <1>1, GoingOn DEF IInv, Calm, Ended
<1>3. QED
  BY <1>1, <1>2, Working, CalmStep

(* Every step keeps the invariant and a result that is there. *)
LEMMA NextStep ==
  ASSUME IInv, [Next]_vars
  PROVE  Holds
<1>1. CASE Client
  BY <1>1, CreateRunStep, PauseStep, ResumeStep, CancelStep, AnswerStep, DecideApprovalStep
     DEF Client
<1>2. CASE Worker
  <2>1. CASE \/ Claim \/ Sweep \/ Dispatch
             \/ \E pc \in {"profiling", "resolving", "starting"} : FindsTerminal(pc)
    BY <2>1, ClaimStep, SweepStep, DispatchStep, FindsTerminalStep
  <2>2. CASE \/ CommitProfile \/ ResolveTask \/ StartTraining
             \/ PositiveClassRequired \/ AskPositiveClass \/ FailTraining
    BY <2>2, CommitProfileStep, ResolveTaskStep, StartTrainingStep, PositiveClassRequiredStep,
       AskPositiveClassStep, FailTrainingStep
  <2>3. CASE \/ BeginPublishing \/ PublishOutput \/ ClosePublication
             \/ ApplyVerdict \/ RetryAfterError \/ FenceRaised \/ HeartbeatFenced
    BY <2>3, BeginPublishingStep, PublishOutputStep, ClosePublicationStep, ApplyVerdictStep,
       RetryAfterErrorStep, FenceRaisedStep, HeartbeatFencedStep
  <2>4. CASE \/ \E p \in {"PLAN", "TRAIN"} : CallBack(p)
             \/ CallbackFindsTerminal \/ PublishTask \/ PublishSplit \/ PublishTrials
    BY <2>4, CallBackStep, CallbackFindsTerminalStep, PublishTaskStep, PublishSplitStep,
       PublishTrialsStep
  <2>5. QED
    BY <1>2, <2>1, <2>2, <2>3, <2>4 DEF Worker
<1>3. CASE Failure
  BY <1>3, TrainingFailsStep, HandlerRaisesStep, SplitUploadFailsStep, CrashStep, StopStep DEF Failure
<1>4. CASE BackoffElapses \/ LeaseExpires \/ Restart
  BY <1>4, BackoffElapsesStep, LeaseExpiresStep, RestartStep
<1>5. CASE UNCHANGED vars
  BY <1>5, StutterStep
<1>6. QED
  BY <1>1, <1>2, <1>3, <1>4, <1>5 DEF Next

(* The invariant, over every handler, callback, command, crash and restart. *)
THEOREM DurableInvariant == Spec => []IInv
<1>1. Init => IInv
  BY InitStep
<1>2. IInv /\ [Next]_vars => IInv'
  BY NextStep DEF Holds
<1>3. QED
  BY <1>1, <1>2, PTL DEF Spec

(* The columns and the process hold what the code writes; in particular no *)
(* count of unsettled commands falls below zero.                           *)
THEOREM DurableTypes == Spec => []TypeOK
<1>1. IInv => TypeOK
  <2>1. h \in Handlers => /\ h.pc \in HandlerPcs /\ h.ticket \in [gen: Nat, epoch: Nat]
                          /\ h.next \in {"none", "PLAN", "TRAIN", "return"} \cup OutputTypes
                          /\ h.verdict \in Verdicts
    BY DEF Handlers
  <2>2. h.verdict \in Verdicts =>
          h.verdict.kind \in {"none", "complete", "checkpoint", "error", "fence"}
    BY DEF Verdicts
  <2>3. QED
    BY <2>1, <2>2 DEF IInv, FileOK, ProcessOK, ProcessTypes, TypeOK
<1>2. QED
  BY <1>1, DurableInvariant, PTL

(* A terminal run has its result, the result's outcome and nothing to do.   *)
THEOREM TerminalRunsAreSettled == Spec => []TerminalIsSettled
<1>1. IInv => TerminalIsSettled
  BY DEF IInv, FileOK, SettledOK, TerminalIsSettled
<1>2. QED
  BY <1>1, DurableInvariant, PTL

(* Completed stages are a prefix of the six phases, each recorded once.     *)
THEOREM StagesArePrefix == Spec => []StagesInOrder
<1>1. Len(Phases) = 6
  BY DEF Phases
<1>2. IInv => StagesInOrder
  BY <1>1 DEF IInv, FileOK, StagesOK, StagesInOrder
<1>3. QED
  BY <1>2, DurableInvariant, PTL

(* No retry, callback or restart repeats an output, the profile's apart.    *)
THEOREM OutputsAreNotRepeated == Spec => []OneOutputPerType
<1>1. IInv => OneOutputPerType
  BY DEF IInv, FileOK, OutputsOK, OneOutputPerType
<1>2. QED
  BY <1>1, DurableInvariant, PTL

(* A stage is completed only when its outputs are in the file.              *)
THEOREM StagesAreEvidenced == Spec => []StagesHaveEvidence
<1>1. ASSUME IInv, NEW i \in DOMAIN db.stages, NEW t \in Evidence(db.stages[i])
      PROVE  db.outputs[t] > 0
  <2>1. /\ DOMAIN db.stages = 1..Len(db.stages) /\ Len(db.stages) \in Nat
    BY <1>1, Fields DEF IInv, FileOK
  <2>2. /\ Len(db.stages) <= 6 /\ db.stages[i] = Phases[i] /\ StageOutputs(db, Len(db.stages))
    BY <1>1 DEF IInv, FileOK, StagesOK
  <2>3. i \in 1..6 /\ Len(db.stages) >= i
    BY <2>1, <2>2
  <2>4. t \in Evidence(Phases[i])
    BY <1>1, <2>2
  <2>5. StageOutputs(db, i)
    BY <2>1, <2>2, <2>3 DEF StageOutputs
  <2>6. CASE i = 1
    BY <2>4, <2>6, PhaseNumbers DEF Evidence
  <2>7. CASE i = 2
    BY <2>4, <2>5, <2>7, PhaseNumbers DEF Evidence, StageOutputs, Published
  <2>8. CASE i = 3
    BY <2>4, <2>5, <2>8, PhaseNumbers DEF Evidence, StageOutputs, Published
  <2>9. CASE i = 4
    BY <2>4, <2>5, <2>9, PhaseNumbers DEF Evidence, StageOutputs, Published
  <2>10. CASE i = 5
    BY <2>4, <2>5, <2>10, PhaseNumbers DEF Evidence, StageOutputs, Published
  <2>11. CASE i = 6
    BY <2>4, <2>5, <2>11, PhaseNumbers DEF Evidence, StageOutputs, Published
  <2>12. QED
    BY <2>3, <2>6, <2>7, <2>8, <2>9, <2>10, <2>11
<1>2. IInv => StagesHaveEvidence
  BY <1>1 DEF StagesHaveEvidence
<1>3. QED
  BY <1>2, DurableInvariant, PTL

(* One packet is open at most, and no run goes on beside it.                *)
THEOREM OpenPacketsBlock == Spec => []OpenPacketBlocks
<1>1. ASSUME IInv, OpenPackets(db) # {}
      PROVE  /\ Cardinality(OpenPackets(db)) = 1
             /\ db.run.status \in {"WAITING_USER", "PAUSED", "TERMINAL"}
  <2>1. PICK i : i \in OpenPackets(db)
    BY <1>1
  <2>2. OpenPackets(db) = {i}
    BY <1>1, <2>1 DEF OpenPackets, IInv, FileOK, PacketsOK
  <2>3. Cardinality(OpenPackets(db)) = 1
    BY <2>2, FS_Singleton
  <2>4. ~NoneOpen(db)
    BY <2>1 DEF OpenPackets, NoneOpen
  <2>5. QED
    BY <1>1, <2>3, <2>4 DEF IInv, FileOK, PacketsOK
<1>2. IInv => OpenPacketBlocks
  BY <1>1 DEF OpenPacketBlocks
<1>3. QED
  BY <1>2, DurableInvariant, PTL

(* A model, and a result that offers one, follow an approval.               *)
THEOREM ModelsAreApproved == Spec => []OnlyApprovedModels
<1>1. IInv => OnlyApprovedModels
  BY DEF IInv, FileOK, ApprovalOK, OnlyApprovedModels
<1>2. QED
  BY <1>1, DurableInvariant, PTL

(* A completed job leaves its run at an end or with an approval to wait for. *)
THEOREM CompletedJobsLeaveNothing == Spec => []CompletedJobEndsRun
<1>1. IInv => CompletedJobEndsRun
  BY DEF IInv, FileOK, JobOK, CompletedJobEndsRun, Resting
<1>2. QED
  BY <1>1, DurableInvariant, PTL

(* The first result stands, whichever of the five writers comes later.      *)
THEOREM ResultStands == Spec => ResultImmutable
<1>1. IInv /\ [Next]_vars => [db.result # NoResult => db'.result = db.result]_vars
  BY NextStep DEF Holds
<1>2. QED
  BY <1>1, DurableInvariant, PTL DEF Spec, ResultImmutable

=============================================================================
