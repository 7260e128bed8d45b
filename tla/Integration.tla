---------------------------- MODULE Integration -----------------------------
(***************************************************************************)
(* How the edits a Task made in its worktree come into the destination     *)
(* workspace.  A worker judges the finished turn, has it reviewed, turns   *)
(* the worktree into an artifact (finalize), applies it (integrate, one at *)
(* a time in a repository, with a journal written around the patch),       *)
(* verifies it and completes the Task; then the worktree is cleaned up.    *)
(* After a crash the start-up recovery replays the open journals and       *)
(* settles the Tasks it finds in integration_pending; Tasks that died      *)
(* before go on in the stale-Task reconciliation.  The user may edit the   *)
(* destination, call the worktree tools, cancel and repair.                *)
(* An edit is the number of the attempt that made it; every attempt edits  *)
(* the same files, so that a patch applies once.                           *)
(***************************************************************************)
EXTENDS Completion, FiniteSets

CONSTANTS
  Task,
  Contracts,      \* execution contracts and whether there are acceptance criteria
  Outcomes,       \* what a turn may leave behind
  Opinions,       \* what an acceptance review may answer
  MaxAttempts,    \* the attempts of a Task, with those a repair adds
  MaxFaults,      \* bound: crashes, cancellations, repairs, edits and tool calls of the user
  Careful,        \* the user's tool calls and the attempts of a Task do not overlap
  Listed          \* how many journals the start-up recovery looks at, 100 in the code

ASSUME IntegrationAssumption ==
  /\ Outcomes \subseteq Result
  /\ MaxAttempts \in Nat \ {0} /\ MaxFaults \in Nat /\ Careful \in BOOLEAN /\ Listed \in Nat

VARIABLES
  contract,   \* the contract of a Task
  task,       \* the tasks table
  row,        \* managed_worktrees
  disk,       \* the directory of a worktree and the edits in it
  patch,      \* the patch file of a Task: how often it was written, and its edits
  journal,    \* integration_journal, oldest first
  dest,       \* the destination: edits applied, whether the user changed a Task's lines, dirty
  work,       \* the worker or the stale-Task reconciliation of a Task
  tool,       \* the worktree tool the user has called
  queue,      \* integrationQueues: the integrate calls of the repository
  op,         \* the #integrate in progress
  boot,       \* #recoverIntegrations
  faults

vars == <<contract, task, row, disk, patch, journal, dest, work, tool, queue, op, boot, faults>>

Claimable == {"queued", "retry_waiting"}
ActiveStatus == {"running", "validating", "integration_pending"}
Success == {"completed", "completed_with_warnings"}
Repairable == {"failed", "interrupted", "rejected", "validation_failed", "integration_blocked",
               "recovery_attention", "blocked_by_policy", "canceled"}
RowStatus == {"none", "active", "failed", "artifact_ready", "integrated", "integration_blocked",
              "retained", "quarantined", "removed"}
Attempt == 1..MaxAttempts
NoArtifact == [kind |-> "none", n |-> 0, edits |-> {}]
NoRow == [status |-> "none", artifact |-> NoArtifact, strategy |-> "none", journal |-> 0]
NoResult == [turn |-> "none"]
Idle == [pc |-> "idle", by |-> "worker", row |-> NoRow]
NoTool == [pc |-> "idle", task |-> "none", row |-> NoRow]
NoOp == [pc |-> "none", row |-> NoRow, artifact |-> NoArtifact, strategy |-> "none", journal |-> 0]
NoBoot == [pc |-> "up", replay |-> {}, settle |-> {}]

HasTree(t) == contract[t].strategy # "none"

TypeOK ==
  /\ contract \in [Task -> Contracts]
  /\ \A t \in Task :
       /\ task[t].status \in Claimable \cup ActiveStatus \cup Success \cup Repairable
       /\ task[t].attempt \in 0..MaxAttempts /\ task[t].claim \in {"none", "live", "gone"}
       /\ task[t].claim # "none" <=> task[t].status \in ActiveStatus
       /\ task[t].result \in Result \cup {NoResult} /\ task[t].heard \subseteq Opinions
       /\ task[t].review \in Opinions \cup {NoResult}
       /\ row[t].status \in RowStatus /\ row[t].journal \in 0..Len(journal)
       /\ disk[t].edits \subseteq Attempt /\ (disk[t].exists \/ disk[t].edits = {})
       /\ dest.edits[t] \subseteq Attempt
       /\ work[t].pc \in {"idle", "turn", "validating", "finalizing", "integrating", "verifying",
                          "blocked", "failing", "looking", "removing"}
       /\ row[t].status = "none" => ~HasTree(t) \/ task[t].attempt = 0
  /\ dest.touched \in [Task -> {"no", "yes", "undone"}]
  /\ \A i \in 1..Len(journal) : journal[i].status \in {"prepared", "applying", "applied", "recorded"}
  /\ op.pc # "none" => queue # <<>>
  /\ faults \in 0..MaxFaults

Init ==
  /\ contract \in [Task -> Contracts]
  /\ task = [t \in Task |-> [status |-> "queued", attempt |-> 0, claim |-> "none", result |-> NoResult,
                             review |-> NoResult, heard |-> {}]]
  /\ row = [t \in Task |-> NoRow]
  /\ disk = [t \in Task |-> [exists |-> FALSE, edits |-> {}]]
  /\ patch = [t \in Task |-> [n |-> 0, edits |-> {}]]
  /\ journal = <<>>
  /\ dest = [edits |-> [t \in Task |-> {}], touched |-> [t \in Task |-> "no"], dirty |-> FALSE]
  /\ work = [t \in Task |-> Idle]
  /\ tool = NoTool /\ queue = <<>> /\ op = NoOp /\ boot = NoBoot /\ faults = 0

-----------------------------------------------------------------------------
\* Rows of Tasks

Owned(t) == task[t].claim = IF work[t].by = "worker" THEN "live" ELSE "gone"

EndedKeepsClaim(r, status) == [r EXCEPT !.status = status]     \* mutant

\* The claim is given up.
Ended(r, status) == [r EXCEPT !.status = status, !.claim = "none"]

\* finishFailureClaim
FailedRow(r, f, terminal, feedback) ==
  LET new == feedback = {} \/ ~(feedback \subseteq r.heard) IN
  [Ended(r, IF Retries(f, MaxAttempts - r.attempt, feedback # {}, new) THEN "retry_waiting" ELSE terminal)
     EXCEPT !.heard = @ \cup feedback]

TerminalOf(verdict) == IF verdict.decision = "attention" THEN "recovery_attention" ELSE "failed"

\* finishValidationClaim for a review that does not accept.
RefusedRow(r, v) ==
  LET f == ValidationFailure(v) IN
  FailedRow(r, f, CASE f.type = "policy" -> "blocked_by_policy"
                    [] f.type = "validation" -> "rejected"
                    [] OTHER -> "validation_failed",
            IF f.type = "validation" THEN {v} ELSE {})

-----------------------------------------------------------------------------
\* Worktrees

\* prepare: a worktree that is there is taken up with its old artifact; a new one starts from its branch.
Prepared(t) ==
  IF row[t].status \in {"active", "retained", "quarantined"} THEN row[t]
  ELSE IF disk[t].exists THEN [row[t] EXCEPT !.status = "active"]
  ELSE [NoRow EXCEPT !.status = "active"]

Ensured(t) ==
  IF row[t].status \in {"active", "retained", "quarantined"} \/ disk[t].exists
  THEN disk[t] ELSE [exists |-> TRUE, edits |-> {}]

Changed(t) == disk[t].edits # {}

\* finalize, in a directory that exists.
ArtifactOf(t) ==
  IF Changed(t) THEN [kind |-> "changed", n |-> patch[t].n + 1, edits |-> disk[t].edits]
                ELSE [kind |-> "unchanged", n |-> 0, edits |-> {}]

FinalizedRow(t) ==
  [row[t] EXCEPT !.artifact = ArtifactOf(t), !.status = IF Changed(t) THEN "artifact_ready" ELSE @]

Finalize(t) ==
  /\ row' = [row EXCEPT ![t] = FinalizedRow(t)]
  /\ patch' = [patch EXCEPT ![t] = IF Changed(t) THEN [n |-> @.n + 1, edits |-> disk[t].edits] ELSE @]

\* git apply --reverse --check of the patch file
Reverses(t) == dest.touched[t] # "yes" /\ patch[t].edits \subseteq dest.edits[t]

NeverApplied(t, artifact) == artifact.kind # "changed"           \* mutant: the patch is not tried in reverse

IsApplied(t, artifact) == artifact.kind # "changed" \/ Reverses(t)

\* git apply --check of the patch file
Applies(t) == dest.touched[t] # "yes" /\ patch[t].edits \cap dest.edits[t] = {}

JournalsOf(t) == {i \in 1..Len(journal) : journal[i].task = t}
IsOldest(i, s) == i \in s /\ \A j \in s : i <= j
Oldest(s) == CHOOSE i \in s : IsOldest(i, s)

\* verifyIntegration
Verified(t) ==
  LET js == JournalsOf(t)
      j == IF row[t].journal # 0 THEN row[t].journal ELSE IF js # {} THEN Oldest(js) ELSE 0
      artifact == IF row[t].artifact # NoArtifact \/ j = 0 THEN row[t].artifact ELSE journal[j].artifact
  IN /\ row[t].status = "integrated" /\ IsApplied(t, artifact)
     /\ artifact.kind = "unchanged" \/ (j # 0 /\ journal[j].status = "recorded")

-----------------------------------------------------------------------------
(***************************************************************************)
(* integrate.  The calls of a repository queue up; the head of the queue   *)
(* is in progress.  op.row is the row as it was read at the beginning:     *)
(* what is written at the end is that row with a new status.               *)
(***************************************************************************)
Call(by, t, strategy) == [by |-> by, task |-> t, strategy |-> strategy]

Answer(ok) ==
  LET c == Head(queue) IN
  /\ queue' = Tail(queue) /\ op' = NoOp
  /\ CASE c.by = "work" ->
            /\ work' = [work EXCEPT ![c.task].pc = IF ok THEN "verifying" ELSE "blocked"]
            /\ UNCHANGED <<tool, boot>>
       [] c.by = "tool" -> tool' = NoTool /\ UNCHANGED <<work, boot>>
       [] c.by = "boot" -> boot' = [boot EXCEPT !.pc = "replaying"] /\ UNCHANGED <<work, tool>>

KeyOf(c, artifact) == [task |-> c.task, strategy |-> c.strategy, n |-> artifact.n]
Known(key) == {i \in 1..Len(journal) : KeyOf(journal[i], journal[i].artifact) = key}

\* prepareIntegrationJournal
Journalled(c, artifact) ==
  IF Known(KeyOf(c, artifact)) # {} THEN journal
  ELSE Append(journal, [task |-> c.task, strategy |-> c.strategy, artifact |-> artifact, status |-> "prepared"])

\* The synchronous start: the row, the artifact (finalized where there is none) and the journal.
Begin ==
  /\ op.pc = "none" /\ queue # <<>>
  /\ LET c == Head(queue)
         t == c.task
         early == row[t].artifact = NoArtifact
         artifact == IF early THEN ArtifactOf(t) ELSE row[t].artifact IN
     \/ /\ early /\ ~disk[t].exists                         \* finalize throws
        /\ Answer(FALSE) /\ UNCHANGED <<row, patch, journal>>
     \/ /\ early => disk[t].exists
        /\ artifact.kind = "unchanged"
        /\ row' = [row EXCEPT ![t] = [@ EXCEPT !.status = "integrated", !.artifact = artifact]]
        /\ Answer(TRUE) /\ UNCHANGED <<patch, journal>>
     \/ /\ early => disk[t].exists
        /\ artifact.kind = "changed"
        /\ IF early THEN Finalize(t) ELSE UNCHANGED <<row, patch>>
        /\ journal' = Journalled(c, artifact)
        /\ \E j \in 1..Len(journal') :
             /\ KeyOf(journal'[j], journal'[j].artifact) = KeyOf(c, artifact)
             /\ IF journal'[j].status = "recorded" THEN Answer(TRUE)
                ELSE /\ op' = [pc |-> CASE journal'[j].status = "prepared" -> "prepared"
                                         [] journal'[j].status = "applying" -> "detecting"
                                         [] OTHER -> "applied",
                               row |-> row[t], artifact |-> artifact, strategy |-> c.strategy, journal |-> j]
                     /\ UNCHANGED <<work, tool, boot, queue>>
  /\ UNCHANGED <<contract, task, disk, dest, faults>>

\* Where nothing else runs in the process: the code between two calls of git, and up to the list at
\* start-up.  Only a crash comes in between.
Free == op.pc \in {"none", "detecting", "applying", "marking"} /\ boot.pc # "listing"

SetJournal(status) == journal' = [journal EXCEPT ![op.journal].status = status]
Quiet == UNCHANGED <<contract, task, disk, patch, work, tool, queue, boot, faults>>

\* A journal found in "applying": the patch itself tells whether the crash came before or after it.
Detect ==
  /\ op.pc = "detecting"
  /\ LET found == IsApplied(Head(queue).task, op.artifact) IN
     /\ SetJournal(IF found THEN "applied" ELSE "prepared")
     /\ op' = [op EXCEPT !.pc = IF found THEN "applied" ELSE "prepared"]
  /\ Quiet /\ UNCHANGED <<row, dest>>

MarkApplying ==
  /\ op.pc = "prepared" /\ SetJournal("applying") /\ op' = [op EXCEPT !.pc = "applying"]
  /\ Quiet /\ UNCHANGED <<row, dest>>

Applicable(t) == Applies(t) /\ (op.strategy = "commit" => ~dest.dirty)

\* The patch or the cherry-pick reaches the destination; a crash may come before the journal knows.
Apply ==
  /\ op.pc = "applying" /\ Applicable(Head(queue).task)
  /\ dest' = [dest EXCEPT !.edits[Head(queue).task] =
                            @ \cup IF op.strategy = "patch" THEN patch[Head(queue).task].edits
                                                            ELSE op.artifact.edits,
                          !.dirty = @ \/ op.strategy = "patch"]
  /\ op' = [op EXCEPT !.pc = "marking"]
  /\ Quiet /\ UNCHANGED <<row, journal>>

\* The journal stays in "applying", the artifact is kept.
Block ==
  /\ op.pc = "applying" /\ ~Applicable(Head(queue).task)
  /\ row' = [row EXCEPT ![Head(queue).task] =
               [op.row EXCEPT !.status = "integration_blocked", !.artifact = op.artifact]]
  /\ Answer(FALSE)
  /\ UNCHANGED <<contract, task, disk, patch, journal, dest, faults>>

MarkApplied ==
  /\ op.pc = "marking" /\ SetJournal("applied") /\ op' = [op EXCEPT !.pc = "applied"]
  /\ Quiet /\ UNCHANGED <<row, dest>>

Record ==
  /\ op.pc = "applied"
  /\ row' = [row EXCEPT ![Head(queue).task] =
               [op.row EXCEPT !.status = "integrated", !.artifact = op.artifact,
                              !.strategy = op.strategy, !.journal = op.journal]]
  /\ op' = [op EXCEPT !.pc = "recording"]
  /\ Quiet /\ UNCHANGED <<journal, dest>>

Recorded ==
  /\ op.pc = "recording" /\ SetJournal("recorded") /\ Answer(TRUE)
  /\ UNCHANGED <<contract, task, row, disk, patch, dest, faults>>

-----------------------------------------------------------------------------
(***************************************************************************)
(* The worker, from its claim on, and the stale-Task reconciliation, which *)
(* takes over where a dead worker was.  A Task whose claim is gone cannot  *)
(* be written; its worker still cleans the worktree up.                    *)
(***************************************************************************)
At(t, pc) == work[t].pc = pc /\ Free

To(t, pc) == [work EXCEPT ![t].pc = pc]

\* cleanup has read the row before its first await.
Cleaning(t) ==
  IF work[t].by = "worker" /\ HasTree(t)
  THEN [work EXCEPT ![t] = [@ EXCEPT !.pc = "looking", !.row = row[t]]]
  ELSE [work EXCEPT ![t] = Idle]

WorktreeSame == UNCHANGED <<row, disk, patch, journal, dest, tool, queue, op, boot>>

Claim(t) ==
  /\ At(t, "idle") /\ task[t].status \in Claimable /\ task[t].attempt < MaxAttempts
  /\ Careful => tool.task # t
  /\ task' = [task EXCEPT ![t] = [@ EXCEPT !.status = "running", !.claim = "live", !.attempt = task[t].attempt + 1,
                                          !.result = NoResult, !.review = NoResult]]
  /\ work' = [work EXCEPT ![t] = [Idle EXCEPT !.pc = "turn"]]
  /\ IF HasTree(t)
     THEN row' = [row EXCEPT ![t] = Prepared(t)] /\ disk' = [disk EXCEPT ![t] = Ensured(t)]
     ELSE UNCHANGED <<row, disk>>
  /\ UNCHANGED <<contract, patch, journal, dest, tool, queue, op, boot, faults>>

\* git worktree add fails
PrepareFails(t) ==
  /\ At(t, "idle") /\ task[t].status \in Claimable /\ task[t].attempt < MaxAttempts
  /\ Careful => tool.task # t
  /\ HasTree(t) /\ faults < MaxFaults /\ faults' = faults + 1
  /\ row[t].status \notin {"active", "retained", "quarantined"} /\ ~disk[t].exists
  /\ row' = [row EXCEPT ![t] = [NoRow EXCEPT !.status = "failed"]]
  /\ task' = [task EXCEPT ![t] = [Ended(@, "failed") EXCEPT !.attempt = task[t].attempt + 1, !.result = NoResult]]
  /\ UNCHANGED <<contract, disk, patch, journal, dest, work, tool, queue, op, boot>>

\* The App Server ends the turn, whether the daemon lives or not.
TurnEnds(t) ==
  /\ task[t].status = "running" /\ task[t].result = NoResult /\ Free
  /\ \E r \in Outcomes :
       /\ r.edits => ~HasTree(t) \/ disk[t].exists
       /\ task' = [task EXCEPT ![t].result = r]
       /\ disk' = IF r.edits /\ HasTree(t) THEN [disk EXCEPT ![t].edits = @ \cup {task[t].attempt}] ELSE disk
  /\ UNCHANGED <<contract, row, patch, journal, dest, work, tool, queue, op, boot, faults>>

\* Only the worker looks at a shared workspace before and after the turn.
Evidence(t) ==
  [result |-> task[t].result,
   contract |-> contract[t],
   validation |-> IF task[t].review = NoResult THEN "none" ELSE task[t].review.decision,
   excused |-> IF task[t].review = NoResult THEN {} ELSE task[t].review.excused,
   artifact |-> "none", integrated |-> FALSE, postcondition |-> "none",
   workspace |-> IF HasTree(t) \/ work[t].by = "stale" THEN "none" ELSE IF task[t].result.edits THEN "changed" ELSE "unchanged"]

\* The evidence with what the destination shows.
Integrated(t, e) ==
  [e EXCEPT !.artifact = row[t].artifact.kind, !.integrated = TRUE,
            !.postcondition = IF Verified(t) THEN "passed" ELSE "failed"]

\* After the execution and its review: a worktree is integrated, a shared workspace is not.
Onward(t, r) ==
  IF HasTree(t)
  THEN task' = [task EXCEPT ![t] = [r EXCEPT !.status = "integration_pending"]] /\ work' = To(t, "finalizing")
  ELSE LET verdict == Verdict([Evidence(t) EXCEPT
                        !.validation = IF r.review = NoResult THEN "none" ELSE r.review.decision,
                        !.excused = IF r.review = NoResult THEN {} ELSE r.review.excused]) IN
       /\ task' = [task EXCEPT ![t] =
            CASE verdict.decision = "accept" -> Ended(r, "completed")
              [] verdict.decision = "accept_with_warnings" ->
                   Ended(r, IF contract[t].criteria THEN "completed_with_warnings" ELSE "completed")
              [] OTHER -> FailedRow(r, verdict.failure, TerminalOf(verdict), {})]
       /\ work' = [work EXCEPT ![t] = Idle]

\* The worker has the result: the execution is judged first.
Judge(t) ==
  /\ At(t, "turn") /\ Owned(t) /\ task[t].result # NoResult
  /\ LET verdict == ExecutionVerdict(Evidence(t)) IN
     IF verdict.decision # "accept"
     THEN LET r == FailedRow(task[t], verdict.failure,
                             IF verdict.decision # "attention" /\ task[t].result.turn = "interrupted" THEN "interrupted" ELSE TerminalOf(verdict), {}) IN
          /\ task' = [task EXCEPT ![t] = r]
          /\ work' = IF r.status \in {"retry_waiting", "recovery_attention"}
                     THEN [work EXCEPT ![t] = Idle] ELSE Cleaning(t)
     ELSE IF contract[t].criteria
     THEN task' = [task EXCEPT ![t].status = "validating"] /\ work' = To(t, "validating")
     ELSE Onward(t, task[t])
  /\ WorktreeSame /\ UNCHANGED <<contract, faults>>

\* The acceptance review answers.
Validate(t) ==
  /\ At(t, "validating") /\ Owned(t)
  /\ \E v \in Opinions :
       IF v.decision \in Accepting THEN Onward(t, [task[t] EXCEPT !.review = v])
       ELSE LET r == RefusedRow(task[t], v) IN
            /\ task' = [task EXCEPT ![t] = r]
            /\ work' = IF r.status = "retry_waiting" THEN [work EXCEPT ![t] = Idle] ELSE Cleaning(t)
  /\ WorktreeSame /\ UNCHANGED <<contract, faults>>

\* finalize, then a place in the queue.
FinalizeArtifact(t) ==
  /\ At(t, "finalizing") /\ disk[t].exists
  /\ Finalize(t)
  /\ queue' = Append(queue, Call("work", t, contract[t].strategy)) /\ work' = To(t, "integrating")
  /\ UNCHANGED <<contract, task, disk, journal, dest, tool, op, boot, faults>>

FinalizeThrows(t) ==
  /\ At(t, "finalizing") /\ ~disk[t].exists /\ work' = To(t, "failing")
  /\ WorktreeSame /\ UNCHANGED <<contract, task, faults>>

\* verifyIntegration, the verdict and the end of the claim.
Finish(t) ==
  /\ At(t, "verifying") /\ Owned(t)
  /\ LET verdict == Verdict(Integrated(t, Evidence(t)))
         r == CASE verdict.decision = "accept" -> Ended(task[t], "completed")
                [] verdict.decision = "accept_with_warnings" -> Ended(task[t], "completed_with_warnings")
                [] OTHER -> FailedRow(task[t], verdict.failure, TerminalOf(verdict), {}) IN
     /\ task' = [task EXCEPT ![t] = r]
     /\ work' = IF r.status = "retry_waiting" THEN [work EXCEPT ![t] = Idle] ELSE Cleaning(t)
  /\ WorktreeSame /\ UNCHANGED <<contract, faults>>

\* The catch of #runTask: the failure, if the claim is still held, and the cleanup.
Catch(t) ==
  /\ Free /\ work[t].by = "worker"
  /\ \/ work[t].pc \in {"blocked", "failing"}
     \/ work[t].pc \in {"turn", "validating", "verifying"} /\ ~Owned(t)
  /\ task' = IF Owned(t)
             THEN [task EXCEPT ![t] = Ended(@, IF work[t].pc = "blocked" THEN "integration_blocked" ELSE "failed")]
             ELSE task
  /\ work' = Cleaning(t)
  /\ WorktreeSame /\ UNCHANGED <<contract, faults>>

\* A dead worker's Task whose turn, or review, can be read again: a turn that is read is complete.
StaleTakes(t) ==
  /\ At(t, "idle") /\ task[t].claim = "gone"
  /\ \/ task[t].status = "running" /\ task[t].result # NoResult
        /\ task' = [task EXCEPT ![t].result.hydrated = "complete"]
        /\ work' = [work EXCEPT ![t] = [Idle EXCEPT !.pc = "turn", !.by = "stale"]]
     \/ task[t].status = "validating"
        /\ work' = [work EXCEPT ![t] = [Idle EXCEPT !.pc = "validating", !.by = "stale"]]
        /\ UNCHANGED task
  /\ WorktreeSame /\ UNCHANGED <<contract, faults>>

\* recoverInterruptedTasks; a Task that integrates is left to its journal if it has any.
StaleRecovers(t) ==
  /\ At(t, "idle") /\ task[t].claim = "gone"
  /\ task[t].status = "integration_pending" => JournalsOf(t) = {}
  /\ task' = [task EXCEPT ![t] = Ended(@, "recovery_attention")]
  /\ WorktreeSame /\ UNCHANGED <<contract, work, faults>>

\* The reconciliation only counts what it throws; the Task stays as it is.
StaleThrows(t) ==
  /\ Free /\ work[t].by = "stale"
  /\ work[t].pc \in {"blocked", "failing"} \/ (work[t].pc \in {"turn", "validating", "verifying"} /\ ~Owned(t))
  /\ work' = [work EXCEPT ![t] = Idle]
  /\ WorktreeSame /\ UNCHANGED <<contract, task, faults>>

-----------------------------------------------------------------------------
(***************************************************************************)
(* cleanup: the row is read first, written last, with two calls of git in  *)
(* between.  Look and Remove are its two continuations, for the worker and *)
(* for the tool; they are given the row that was read.                     *)
(***************************************************************************)
Quarantined(r) == [r EXCEPT !.status = "quarantined"]

\* What the first continuation decides: the new row, or to go on.
Looked(t, r) ==
  IF r.status \in {"none", "removed"} THEN [go |-> FALSE, row |-> row[t]]
  ELSE IF ~disk[t].exists THEN [go |-> FALSE, row |-> Quarantined(r)]
  ELSE IF Changed(t) /\ r.status # "integrated" THEN [go |-> FALSE, row |-> [r EXCEPT !.status = "retained"]]
  ELSE [go |-> TRUE, row |-> row[t]]

\* git worktree remove: forced where the row said integrated, refused where there are changes.
Removable(t, r) == disk[t].exists /\ (Changed(t) => r.status = "integrated")

Removed(t, r) ==
  /\ row' = [row EXCEPT ![t] = IF Removable(t, r) THEN [r EXCEPT !.status = "removed"] ELSE Quarantined(r)]
  /\ disk' = IF Removable(t, r) THEN [disk EXCEPT ![t] = [exists |-> FALSE, edits |-> {}]] ELSE disk

CleanupSame == UNCHANGED <<contract, task, patch, journal, dest, queue, op, boot, faults>>

Look(t) ==
  /\ At(t, "looking")
  /\ LET seen == Looked(t, work[t].row) IN
     /\ row' = [row EXCEPT ![t] = seen.row]
     /\ work' = IF seen.go THEN To(t, "removing") ELSE [work EXCEPT ![t] = Idle]
  /\ CleanupSame /\ UNCHANGED <<disk, tool>>

Remove(t) ==
  /\ At(t, "removing") /\ Removed(t, work[t].row)
  /\ work' = [work EXCEPT ![t] = Idle]
  /\ CleanupSame /\ UNCHANGED tool

-----------------------------------------------------------------------------
\* The user

Fault == faults < MaxFaults /\ faults' = faults + 1 /\ Free
HasRow(t) ==
  /\ HasTree(t) /\ row[t].status # "none" /\ tool = NoTool
  /\ Careful => task[t].status \notin ActiveStatus

\* cleanup_worktree, or recover_managed_worktree with action cleanup
ToolCleanup(t) ==
  /\ Fault /\ HasRow(t) /\ tool' = [pc |-> "looking", task |-> t, row |-> row[t]]
  /\ UNCHANGED <<contract, task, row, disk, patch, journal, dest, work, queue, op, boot>>

ToolLook ==
  /\ tool.pc = "looking" /\ Free
  /\ LET seen == Looked(tool.task, tool.row) IN
     /\ row' = [row EXCEPT ![tool.task] = seen.row]
     /\ tool' = IF seen.go THEN [tool EXCEPT !.pc = "removing"] ELSE NoTool
  /\ CleanupSame /\ UNCHANGED <<disk, work>>

ToolRemove ==
  /\ tool.pc = "removing" /\ Free /\ Removed(tool.task, tool.row) /\ tool' = NoTool
  /\ CleanupSame /\ UNCHANGED work

\* recover_managed_worktree: integrate, with the strategy of the last integration or a patch
ToolIntegrate(t) ==
  /\ Fault /\ HasRow(t)
  /\ tool' = [pc |-> "integrating", task |-> t, row |-> NoRow]
  /\ queue' = Append(queue, Call("tool", t, IF row[t].strategy = "none" THEN "patch" ELSE row[t].strategy))
  /\ UNCHANGED <<contract, task, row, disk, patch, journal, dest, work, op, boot>>

\* recover_managed_worktree: finalize
ToolFinalize(t) ==
  /\ Fault /\ HasRow(t) /\ disk[t].exists /\ Finalize(t)
  /\ UNCHANGED <<contract, task, disk, journal, dest, work, tool, queue, op, boot>>

\* recover_managed_worktree: quarantine; inspect comes to it where the directory is gone
ToolQuarantine(t) ==
  /\ Fault /\ HasRow(t) /\ row' = [row EXCEPT ![t] = Quarantined(@)]
  /\ UNCHANGED <<contract, task, disk, patch, journal, dest, work, tool, queue, op, boot>>

\* The user edits the lines of a patch in the destination, or undoes the edit.
UserEdits(t) ==
  /\ Fault /\ HasTree(t)
  /\ dest' = [dest EXCEPT !.dirty = TRUE,
                          !.touched[t] = IF @ = "yes" THEN "undone" ELSE "yes"]
  /\ UNCHANGED <<contract, task, row, disk, patch, journal, work, tool, queue, op, boot>>

Cancel(t) ==
  /\ Fault /\ task[t].status \in Claimable \cup ActiveStatus
  /\ task' = [task EXCEPT ![t] = Ended(@, "canceled")]
  /\ UNCHANGED <<contract, row, disk, patch, journal, dest, work, tool, queue, op, boot>>

Repair(t) ==
  /\ Fault /\ task[t].status \in Repairable /\ task[t].attempt < MaxAttempts
  /\ task' = [task EXCEPT ![t] = [Ended(@, "queued") EXCEPT !.result = NoResult, !.review = NoResult, !.heard = {}]]
  /\ UNCHANGED <<contract, row, disk, patch, journal, dest, work, tool, queue, op, boot>>

-----------------------------------------------------------------------------
\* Restart

\* The calls of the process are gone, and with them a review: its row is written with the success.
Crash ==
  /\ faults < MaxFaults /\ faults' = faults + 1
  /\ task' = [t \in Task |-> [task[t] EXCEPT !.claim = IF @ = "live" THEN "gone" ELSE @,
                                            !.review = IF task[t].status \in Success THEN @ ELSE NoResult]]
  /\ work' = [t \in Task |-> Idle] /\ tool' = NoTool /\ queue' = <<>> /\ op' = NoOp
  /\ boot' = [NoBoot EXCEPT !.pc = "listing"]
  /\ UNCHANGED <<contract, row, disk, patch, journal, dest>>

\* listIntegrationJournals: the oldest of the journals asked for.
Listing(s) == {i \in s : Cardinality({j \in s : j <= i}) <= Listed}
Open(i) == journal[i].status # "recorded"
OpenOnly(i) == Open(i)             \* mutant: recorded journals of unfinished Tasks are passed over

Awaited(i) == Open(i) \/ task[journal[i].task].status = "integration_pending"

\* The oldest journals; of these the ones to settle, and every open one to replay.
BootLists ==
  /\ boot.pc = "listing"
  /\ LET all == 1..Len(journal)
         settle == {i \in Listing(all) : Awaited(i)}
         replay == IF \E i \in Listing(all) : Open(i) THEN Listing({i \in all : Open(i)}) ELSE {} IN
     boot' = IF settle = {} THEN NoBoot ELSE [pc |-> "replaying", replay |-> replay, settle |-> settle]
  /\ UNCHANGED <<contract, task, row, disk, patch, journal, dest, work, tool, queue, op, faults>>

\* recoverPendingIntegrations: one journal after the other, whatever has become of its Task
BootReplays ==
  /\ boot.pc = "replaying" /\ Free
  /\ \E i \in boot.replay :
       /\ IsOldest(i, boot.replay)
       /\ queue' = Append(queue, Call("boot", journal[i].task, journal[i].strategy))
       /\ boot' = [boot EXCEPT !.pc = "waiting", !.replay = @ \ {i}]
  /\ UNCHANGED <<contract, task, row, disk, patch, journal, dest, work, tool, op, faults>>

\* A recorded journal is verified and judged, an open one is reported as blocked.
SettledRow(t, i) ==
  LET verdict == Verdict(Integrated(t, Evidence(t))) IN
  IF Open(i) THEN Ended(task[t], "integration_blocked")
  ELSE IF verdict.decision \in Accepting THEN Ended(task[t], "completed")
  ELSE FailedRow(task[t], verdict.failure, TerminalOf(verdict), {})

BootSettles ==
  /\ boot.pc = "replaying" /\ boot.replay = {} /\ Free
  /\ \E i \in boot.settle :
       /\ IsOldest(i, boot.settle)
       /\ LET t == journal[i].task IN
          task' = IF task[t].status = "integration_pending" THEN [task EXCEPT ![t] = SettledRow(t, i)] ELSE task
       /\ boot' = IF boot.settle = {i} THEN NoBoot ELSE [boot EXCEPT !.settle = @ \ {i}]
  /\ UNCHANGED <<contract, row, disk, patch, journal, dest, work, tool, queue, op, faults>>

-----------------------------------------------------------------------------
Integrate == Begin \/ Detect \/ MarkApplying \/ Apply \/ Block \/ MarkApplied \/ Record \/ Recorded
Worker(t) ==
  \/ Claim(t) \/ Judge(t) \/ Validate(t) \/ FinalizeArtifact(t) \/ FinalizeThrows(t) \/ Finish(t)
  \/ Catch(t) \/ StaleTakes(t) \/ StaleRecovers(t) \/ StaleThrows(t) \/ Look(t) \/ Remove(t)
Boot == BootLists \/ BootReplays \/ BootSettles
User ==
  \/ ToolLook \/ ToolRemove
  \/ \E t \in Task :
       \/ ToolCleanup(t) \/ ToolIntegrate(t) \/ ToolFinalize(t) \/ ToolQuarantine(t)
       \/ UserEdits(t) \/ Cancel(t) \/ Repair(t)

Next ==
  \/ Integrate \/ Boot \/ User \/ Crash
  \/ \E t \in Task : Worker(t) \/ TurnEnds(t) \/ PrepareFails(t)

Spec == Init /\ [][Next]_vars

\* The process runs on; git answers.  Turns, crashes and the user are free.
FairSpec == Spec /\ WF_vars(Integrate) /\ WF_vars(Boot) /\ \A t \in Task : WF_vars(Worker(t))

-----------------------------------------------------------------------------
\* Properties
Succeeded(t) == task[t].status \in Success

\* The last attempt's edits are in the destination.
Delivered(t) == task[t].result.edits => task[t].attempt \in dest.edits[t]

LastTestPassed(commands) ==
  \A i \in 1..Len(commands) : commands[i].kind = "test" =>
    \E j \in i..Len(commands) : commands[j].kind = "test" /\ Succeeds(commands[j])

\* Whoever completes a Task - its worker, the reconciliation that took a dead worker's Task over, or
\* the recovery of integrations at start-up - its turn had completed, the last of its tests had passed,
\* criteria had been reviewed, and a worktree's edits were in the destination: those of the very last
\* attempt unless the start-up recovery did it, which goes by whatever artifact was recorded.
SuccessIsBacked ==
  [][\A t \in Task : Succeeded(t)' /\ ~Succeeded(t) =>
       /\ task[t].result.turn = "completed" /\ LastTestPassed(task[t].result.commands)
       /\ contract[t].criteria => task'[t].review # NoResult
       /\ HasTree(t) => dest.edits[t] # {} /\ (work[t].pc = "verifying" => Delivered(t))]_vars

\* A Task reported as integration_blocked has not been integrated after all: whatever call of git a crash
\* fell into, the replay of its journal finds an applied patch and does not try it a second time.  The
\* user's own edits of the lines may hide the patch, and a second journal of the Task may stand for an
\* earlier attempt whose patch conflicts with the later one.
BlockedIsUnapplied ==
  [][\A t \in Task : task'[t].status = "integration_blocked" /\ task[t].status # "integration_blocked" =>
       Cardinality(JournalsOf(t)) > 1 \/ task[t].attempt \notin dest.edits[t] \/ dest.touched[t] # "no"]_vars

\* A Task that a restart finds in integration_pending with a journal is settled by the start-up recovery,
\* or by the next one, whatever state the journal was in and whatever the destination shows.
\* It needs a recovery that lists every journal: the code lists the 100 oldest, recorded ones included.
StartSettlesIntegration ==
  \A t \in Task :
    (boot.pc = "listing" /\ task[t].status = "integration_pending" /\ JournalsOf(t) # {})
      ~> task[t].status # "integration_pending"

-----------------------------------------------------------------------------
\* Promises that the code does not keep; no run checks them.

\* A worktree goes only when its edits are in the destination (README.md:166).  An artifact is not renewed
\* by integrate: once one says "unchanged", later edits are integrated as nothing and removed by force.
UnintegratedIsKept ==
  [][\A t \in Task : disk[t].exists /\ ~disk'[t].exists => disk[t].edits \subseteq dest.edits[t]]_vars

\* The start-up recovery too completes a Task only with its last attempt's edits.  It goes by a recorded
\* journal of the Task, which may be that of an earlier attempt the user has integrated.
RecoveryDelivers ==
  [][\A t \in Task : Succeeded(t)' /\ ~Succeeded(t) /\ HasTree(t) => Delivered(t)]_vars
=============================================================================
