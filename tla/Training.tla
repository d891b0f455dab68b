------------------------------ MODULE Training ------------------------------
(***************************************************************************)
(* Training runs that are killed and resumed: train() of training/train.py *)
(* in one or more processes, the files it leaves (latest.json and one file *)
(* per run), the lineage ledger (training/lineage.py), and the operator of *)
(* scripts/train_status.py, who resumes only when no trainer is alive.     *)
(* A loss is named by the step of its run that had it; 0 is no finite one. *)
(* Weights and tokenizer are left out.                                     *)
(***************************************************************************)
EXTENDS Integers

CONSTANTS
    Trainers,   \* processes that may run train()
    Runs,       \* run ids: the bound on the number of runs
    Target,     \* --target of train_status, and the --steps of a fresh run
    Every,      \* checkpoint_every; 0 disables the snapshots
    Nobody      \* no trainer

ASSUME TrainingAssumption ==
    /\ Target \in Nat \ {0} /\ Every \in Nat
    /\ Nobody \notin Trainers

VARIABLES
    latest,     \* latest.json: absent, torn (cut while written) or whole
    files,      \* per run, the checkpoint of its own, likewise
    rows,       \* the ledger: per run that was started, its row
    proc,       \* per trainer, where train() is and its local state
    sole        \* who opened latest.json for writing last, with no other writer

trainVars == <<latest, files, rows, proc, sole>>

Absent == [is |-> "absent"]
Torn == [is |-> "torn"]

(* What a checkpoint says of itself. *)
Checkpoint(run, steps, loss) ==
    [is |-> "whole", run |-> run, steps |-> steps, loss |-> loss]

Idle == [at |-> "idle"]

Live(p) == proc[p].at # "idle"

(* Inside the try of train(), once its row is inserted. *)
Listed(p) == proc[p].at \notin {"idle", "begun", "opened"}

Writers == {p \in Trainers : proc[p].at \in {"snapshot", "latest"}}

TrainInit ==
    /\ latest = Absent
    /\ files = [r \in Runs |-> Absent]
    /\ rows = [r \in {} |-> Idle]
    /\ proc = [p \in Trainers |-> Idle]
    /\ sole = Nobody

-----------------------------------------------------------------------------
(* Files.  write_text() truncates, then writes: a crash or an error in      *)
(* between leaves the file torn, and two writers at once may spoil it.      *)

OpenLatest(p) ==
    /\ latest' = Torn
    /\ sole' = IF Writers \subseteq {p} THEN p ELSE Nobody

CloseLatest(p, checkpoint) ==
    /\ \/ latest' = checkpoint
       \/ sole # p /\ latest' = Torn
    /\ UNCHANGED sole

Go(p, at) == proc' = [proc EXCEPT ![p].at = at]

Stop(p) == proc' = [proc EXCEPT ![p] = Idle]

-----------------------------------------------------------------------------
(* The operator: a fresh run at any time, or the resume command that        *)
(* train_status prints when it finds no trainer and steps left, run before  *)
(* anyone starts another.                                                   *)

(* Faulty variant of Remaining: the whole target again. *)
RemainingAll == Target

Remaining == IF latest.steps < Target THEN Target - latest.steps ELSE 0

(* A latest.json that is torn makes a resumed run raise before it has a row.*)
Begin(p, resume, steps, prev) ==
    /\ ~Live(p)
    /\ proc' = [proc EXCEPT ![p] =
                   [at |-> "begun", run |-> Nobody, resume |-> resume, prev |-> prev,
                    steps |-> steps, total |-> prev + steps, done |-> 0,
                    best |-> 0, last |-> 0]]
    /\ UNCHANGED <<latest, files, rows, sole>>

Fresh(p) == Begin(p, FALSE, Target, 0)

Resume(p) ==
    /\ \A q \in Trainers : ~Live(q)
    /\ latest.is = "whole" /\ Remaining > 0
    /\ Begin(p, TRUE, Remaining, latest.steps)

-----------------------------------------------------------------------------
(* The ledger. *)

(* LineageLedger(): rows RUNNING for an hour are taken for dead.            *)
Reaped(row) ==
    IF row.status = "RUNNING" /\ row.old THEN [row EXCEPT !.status = "FAILED"] ELSE row

(* Faulty variant of Open: rows taken for dead are deleted. *)
OpenPurging(p) ==
    /\ proc[p].at = "begun"
    /\ rows' = [r \in {r \in DOMAIN rows : rows[r].status # "RUNNING" \/ ~rows[r].old} |->
                   rows[r]]
    /\ Go(p, "opened")
    /\ UNCHANGED <<latest, files, sole>>

Open(p) ==
    /\ proc[p].at = "begun"
    /\ rows' = [r \in DOMAIN rows |-> Reaped(rows[r])]
    /\ Go(p, "opened")
    /\ UNCHANGED <<latest, files, sole>>

StartRun(p, run) ==
    /\ proc[p].at = "opened" /\ run \notin DOMAIN rows
    /\ rows' = [r \in DOMAIN rows \cup {run} |->
                   IF r = run
                   THEN [status |-> "RUNNING", steps |-> 0, loss |-> 0, old |-> FALSE,
                         asked |-> proc[p].steps, total |-> proc[p].total]
                   ELSE rows[r]]
    /\ proc' = [proc EXCEPT ![p].at = "listed", ![p].run = run]
    /\ UNCHANGED <<latest, files, sole>>

(* update(): the steps are this run's, not those the checkpoint counts.     *)
Record(p) ==
    /\ proc[p].at = "record"
    /\ rows' = [rows EXCEPT ![proc[p].run].steps = proc[p].done,
                            ![proc[p].run].loss = proc[p].last]
    /\ Go(p, "training")
    /\ UNCHANGED <<latest, files, sole>>

(* Faulty variant of Finish: the last loss instead of the best. *)
FinishWithLast(p) ==
    /\ proc[p].at = "finish"
    /\ rows' = [rows EXCEPT ![proc[p].run].status = "DONE",
                            ![proc[p].run].loss = proc[p].last]
    /\ Stop(p)
    /\ UNCHANGED <<latest, files, sole>>

(* finish_run(): the steps stay what they were last recorded to be.         *)
Finish(p) ==
    /\ proc[p].at = "finish"
    /\ rows' = [rows EXCEPT ![proc[p].run].status = "DONE",
                            ![proc[p].run].loss = proc[p].best]
    /\ Stop(p)
    /\ UNCHANGED <<latest, files, sole>>

(* What any step may raise (a full disk, a locked ledger) ends the run.     *)
Raise(p) ==
    /\ Live(p)
    /\ rows' = IF Listed(p) THEN [rows EXCEPT ![proc[p].run].status = "FAILED"] ELSE rows
    /\ Stop(p)
    /\ UNCHANGED <<latest, files, sole>>

-----------------------------------------------------------------------------
(* Training. *)

(* The second reading of latest.json, for the weights: one that is torn by  *)
(* now raises.                                                              *)
Load(p) ==
    /\ proc[p].at = "listed"
    /\ proc[p].resume => latest.is # "torn"
    /\ Go(p, "training")
    /\ UNCHANGED <<latest, files, rows, sole>>

(* A step whose loss is not finite counts, but skips the snapshot and the   *)
(* record that may be due.                                                  *)
SkippedStep(p) ==
    /\ proc[p].at = "training" /\ proc[p].done < proc[p].steps
    /\ proc' = [proc EXCEPT ![p].done = @ + 1]
    /\ UNCHANGED <<latest, files, rows, sole>>

SnapshotDue(p, step) ==
    Every # 0 /\ step % Every = 0 /\ step < proc[p].steps

RecordDue(p, step) ==
    step % (IF proc[p].steps < 10 THEN 1 ELSE proc[p].steps \div 10) = 0

Step(p) ==
    /\ proc[p].at = "training" /\ proc[p].done < proc[p].steps
    /\ LET step == proc[p].done + 1 IN
       \E best \in {step} \cup ({proc[p].best} \ {0}) :
           /\ proc' = [proc EXCEPT ![p].done = step, ![p].last = step, ![p].best = best,
                          ![p].at = IF SnapshotDue(p, step) THEN "snapshot"
                                    ELSE IF RecordDue(p, step) THEN "record" ELSE @]
           /\ IF SnapshotDue(p, step) THEN OpenLatest(p) ELSE UNCHANGED <<latest, sole>>
    /\ UNCHANGED <<files, rows>>

(* _save_latest(), and the record after it. *)
Snapshot(p) ==
    /\ proc[p].at = "snapshot"
    /\ CloseLatest(p, Checkpoint(proc[p].run, proc[p].prev + proc[p].done, proc[p].last))
    /\ Go(p, "record")
    /\ UNCHANGED <<files, rows>>

(* The best weights are saved as those of the last step: first the file of  *)
(* the run, then latest.json, then the ledger.                              *)
Best(p) == Checkpoint(proc[p].run, proc[p].prev + proc[p].steps, proc[p].best)

OpenFile(p) ==
    /\ proc[p].at = "training" /\ proc[p].done = proc[p].steps
    /\ files' = [files EXCEPT ![proc[p].run] = Torn]
    /\ Go(p, "file")
    /\ UNCHANGED <<latest, rows, sole>>

WriteFile(p) ==
    /\ proc[p].at = "file"
    /\ files' = [files EXCEPT ![proc[p].run] = Best(p)]
    /\ Go(p, "written")
    /\ UNCHANGED <<latest, rows, sole>>

Publish(p) ==
    /\ proc[p].at = "written"
    /\ OpenLatest(p)
    /\ Go(p, "latest")
    /\ UNCHANGED <<files, rows>>

Published(p) ==
    /\ proc[p].at = "latest"
    /\ CloseLatest(p, Best(p))
    /\ Go(p, "finish")
    /\ UNCHANGED <<files, rows>>

-----------------------------------------------------------------------------
Kill(p) ==
    /\ Live(p)
    /\ Stop(p)
    /\ UNCHANGED <<latest, files, rows, sole>>

HourPasses ==
    /\ \E r \in DOMAIN rows : ~rows[r].old
    /\ rows' = [r \in DOMAIN rows |-> [rows[r] EXCEPT !.old = TRUE]]
    /\ UNCHANGED <<latest, files, proc, sole>>

TrainNext ==
    \/ HourPasses
    \/ \E p \in Trainers :
          \/ Fresh(p) \/ Resume(p) \/ Open(p) \/ Load(p)
          \/ \E run \in Runs : StartRun(p, run)
          \/ Step(p) \/ SkippedStep(p) \/ Snapshot(p) \/ Record(p)
          \/ OpenFile(p) \/ WriteFile(p) \/ Publish(p) \/ Published(p)
          \/ Finish(p) \/ Raise(p) \/ Kill(p)

TrainSpec == TrainInit /\ [][TrainNext]_trainVars

-----------------------------------------------------------------------------
(* A run that is DONE left its checkpoint whole, with the loss the ledger   *)
(* says, whoever was killed, reaped or writing at the same time.            *)
DoneIsWhole ==
    \A r \in DOMAIN rows : rows[r].status = "DONE" =>
        files[r] = Checkpoint(r, rows[r].total, rows[r].loss)

(* Kills and resumes follow one schedule: every run decays its learning     *)
(* rate towards the target, goes on where the checkpoint stopped, and no    *)
(* checkpoint claims more steps than the target ("kill/resume runs that     *)
(* pass --steps (remaining) still follow one smooth schedule", train.py:97).*)
SmoothSchedule ==
    /\ \A p \in Trainers : Live(p) =>
           proc[p].total = Target /\ proc[p].prev + proc[p].done \in 0..Target
    /\ latest.is = "whole" => latest.steps \in 1..Target

(* Every checkpoint that can be read names a run of the ledger ("a          *)
(* checkpoint can always be traced back", lineage.py:3), and one under a    *)
(* run's own name names that run.                                           *)
TracedBack ==
    /\ latest.is = "whole" => latest.run \in DOMAIN rows
    /\ \A r \in Runs : files[r].is # "absent" => r \in DOMAIN rows
    /\ \A r \in Runs : files[r].is = "whole" => files[r].run = r

-----------------------------------------------------------------------------
(* lineage_verdict() of scripts/grade_checkpoint.py for a checkpoint that   *)
(* can be read; a ledger that cannot is left out.                           *)
LineageVerdict(checkpoint) ==
    IF checkpoint.run \notin DOMAIN rows THEN "FAIL"
    ELSE LET row == rows[checkpoint.run] IN
         IF row.status # "DONE" THEN "WARN"
         ELSE IF row.loss = checkpoint.loss /\ row.steps = checkpoint.steps
              THEN "PASS" ELSE "FAIL"

(* The ledger counts a run's own steps and the checkpoint all of them: what *)
(* was resumed and completed never grades as PASS.                          *)
ResumedGradesFail ==
    \A r \in DOMAIN rows :
        rows[r].status = "DONE" /\ rows[r].asked < rows[r].total =>
            LineageVerdict(files[r]) = "FAIL"
=============================================================================
