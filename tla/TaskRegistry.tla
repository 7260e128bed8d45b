---------------------------- MODULE TaskRegistry ----------------------------
(***************************************************************************)
(* The Tasks of one Run: the registry rows, the scheduler that claims      *)
(* them, the workers (#runTask) that hold a claim across many awaits, the  *)
(* reconciliations that take over what a dead daemon left behind, and the  *)
(* user who cancels and repairs.  A claim is fenced by its token: every    *)
(* write of a worker names the token it was given.  The atomic steps are   *)
(* the stretches of code between two awaits.                               *)
(***************************************************************************)
EXTENDS Naturals, FiniteSets, DomainStates

CONSTANTS
  Task,
  Deps,           \* the dependencies of a Task, an acyclic relation
  Policy,         \* its dependencyPolicy
  Criteria,       \* Tasks with acceptance criteria
  Integrates,     \* Tasks that run in a worktree and integrate it
  ReplaySafe,     \* Tasks with a read-only, side-effect-free contract
  MaxAttempts,    \* the maxAttempts a Task is created with
  MaxClaims,      \* bound: claims in one behaviour
  MaxRepairs,     \* bound: repairs
  MaxBoots        \* bound: daemon processes

ASSUME RegistryAssumption ==
  /\ Deps \in [Task -> SUBSET Task]
  /\ Policy \in [Task -> {"all_success", "all_terminal", "on_failure"}]
  /\ Criteria \subseteq Task /\ Integrates \subseteq Task /\ ReplaySafe \subseteq Task
  /\ MaxAttempts \in [Task -> Nat \ {0}]
  /\ MaxClaims \in Nat \ {0} /\ MaxRepairs \in Nat /\ MaxBoots \in Nat \ {0}

VARIABLES
  task,       \* the tasks table
  run,        \* the Run's status
  exec,       \* #runTask calls of this process: where they wait, token and attempt
  disp,       \* the execution dispatch of every attempt
  journal,    \* Tasks with a row in integration_journal
  stale,      \* reconcileStaleTasks: the rows it has captured
  due,        \* what the start-up recovery of this process has still to look at
  canc,       \* a RunController.cancel waits for its interrupts
  tok,        \* claim tokens given out
  repairs,    \* repairs made
  boot        \* which daemon process runs

vars == <<task, run, exec, disp, journal, stale, due, canc, tok, repairs, boot>>

Token == 0..MaxClaims      \* 0 for null
Attempt == 0..MaxClaims

\* turn is the claim whose turn_id the row stores.
Row == [status : TaskStatuses, attempt : Attempt, max : Nat, token : Token, turn : Token]

ExecPc == {"idle", "starting", "acquiring", "submitted", "running", "judging",
           "agent_done", "validating", "integrating", "finishing"}
StalePc == {"none", "todo", "agent_done", "validating", "integrating"}

TypeOK ==
  /\ task \in [Task -> Row]
  /\ run \in RunStatuses
  /\ exec \in [Task -> [pc : ExecPc, token : Token, attempt : Attempt]]
  /\ disp \in [Task -> [Attempt -> {"none", "unsent", "sent", "cancelling", "closed"}]]
  /\ journal \in SUBSET Task
  /\ stale \in [Task -> [pc : StalePc, row : Row]]
  /\ due \in [dispatches : SUBSET (Task \X Attempt), integrations : SUBSET Task]
  /\ canc \in BOOLEAN
  /\ tok \in Token /\ repairs \in 0..MaxRepairs /\ boot \in 1..MaxBoots

NewRow(t) == [status |-> "staged", attempt |-> 0, max |-> MaxAttempts[t], token |-> 0, turn |-> 0]
IdleExec == [pc |-> "idle", token |-> 0, attempt |-> 0]
Fresh(t) == [pc |-> "none", row |-> NewRow(t)]

\* A Run is planned: its Tasks are staged until it is released.
Init ==
  /\ task = [t \in Task |-> NewRow(t)]
  /\ run = "preparing"
  /\ exec = [t \in Task |-> IdleExec]
  /\ disp = [t \in Task |-> [a \in Attempt |-> "none"]]
  /\ journal = {}
  /\ stale = [t \in Task |-> Fresh(t)]
  /\ due = [dispatches |-> {}, integrations |-> {}]
  /\ canc = FALSE /\ tok = 0 /\ repairs = 0 /\ boot = 1

-----------------------------------------------------------------------------
\* Rows

Terminal(row) == row.status \in TerminalTaskStatuses
Active(row) == row.status \in ActiveTaskStatuses
EndedWithoutFailure(row) == Terminal(row) /\ row.status \notin RepairableTaskStatuses      \* mutant: skipped is good enough
Succeeded(row) == row.status \in {"completed", "completed_with_warnings"}
HasFailed(row) == row.status \in RepairableTaskStatuses      \* FAILED_TASK_STATUSES and canceled

\* Status changes that give the claim up.
Released(row, status) == [row EXCEPT !.status = status, !.token = 0]

HoldsUnchecked(t, k, statuses) == TRUE      \* mutant: the UPDATE does not name its claim

\* The claim k may still write t, which is in one of the statuses.
Holds(t, k, statuses) == task[t].token = k /\ task[t].status \in statuses

UnboundedRetry(row) == {Released(row, "retry_waiting")}      \* mutant: the budget is not consulted

\* finishFailureClaim: a retry while the budget lasts, when decideTaskRetry allows it.
RetryRows(row) ==
  IF row.attempt < row.max THEN {Released(row, "retry_waiting")} ELSE {}

FailureRows(row, terminals) == {Released(row, s) : s \in terminals} \cup RetryRows(row)

\* waitClaimForLease: the wait costs no attempt.
WaitRow(row) ==
  [Released(row, "waiting_for_lease") EXCEPT !.attempt = IF @ > 0 THEN @ - 1 ELSE 0]

-----------------------------------------------------------------------------
\* Dependencies and the Run

\* refreshBlockedTasks for one blocked Task, given what its dependencies have become.
Decide(t, rows) ==
  LET failed == \E d \in Deps[t] : HasFailed(rows[d])
      ended == \A d \in Deps[t] : Terminal(rows[d])
  IN  CASE Policy[t] = "on_failure" /\ ended -> IF failed THEN "queued" ELSE "skipped"
        [] Policy[t] = "all_terminal" /\ ended -> "queued"
        [] Policy[t] = "all_success" /\ failed -> "failed"
        [] Policy[t] = "all_success" /\ \A d \in Deps[t] : Succeeded(rows[d]) -> "queued"
        [] OTHER -> "blocked"

Blocked(rows) == {t \in Task : rows[t].status = "blocked"}

\* The loop runs over the blocked rows, oldest first, until no failure propagates:
\* every blocked Task ends where its dependencies' final rows put it.
Refreshes(rows) ==
  LET after(pick) == [t \in Task |-> IF t \in Blocked(rows) THEN [rows[t] EXCEPT !.status = pick[t]]
                                     ELSE rows[t]]
  IN  {after(pick) : pick \in
         {p \in [Blocked(rows) -> {"blocked", "queued", "skipped", "failed"}] :
            \A t \in Blocked(rows) : p[t] = Decide(t, after(p))}}

EagerRun(rows) ==      \* mutant: a failure settles the Run at once
  IF \E t \in Task : HasFailed(rows[t]) THEN "failed" ELSE DeriveRunStatus({rows[t].status : t \in Task})

DerivedRun(rows) == DeriveRunStatus({rows[t].status : t \in Task})

\* refreshRun
RefreshedRun(rows) ==
  IF run \in TerminalRunStatuses \/ DerivedRun(rows) = "none" THEN run ELSE DerivedRun(rows)

\* refreshBlockedTasks refreshes the Run of a Task it skipped or failed.
RunAfter(rows, new) ==
  IF \E t \in Blocked(rows) : new[t].status \in {"skipped", "failed"} THEN RefreshedRun(new) ELSE run

-----------------------------------------------------------------------------
\* The scheduler

\* The WHERE clause of listRunnableTasks and claimTask; retry delays have passed.
Claimable(t, rows) ==
  /\ rows[t].status \in {"queued", "retry_waiting", "waiting_for_lease"}
  /\ \A d \in Deps[t] : IF Policy[t] = "all_success" THEN Succeeded(rows[d]) ELSE Terminal(rows[d])

\* claimTask: a new token and one more attempt; the rest of the row is kept.
ClaimedRow(row) == [row EXCEPT !.status = "running", !.token = tok + 1, !.attempt = @ + 1]

\* #pollTasks: it reconciles stale Tasks first and awaits that, so no claim is made
\* while a stale Task is being looked at.  A poll that claims several Tasks is several
\* of these; it may find nothing to claim, or refuse a Task (rejectTaskBeforeClaim).
Poll ==
  /\ \A t \in Task : stale[t].pc = "none"
  /\ \E new \in Refreshes(task) :
       \/ task' = new /\ run' = RunAfter(task, new) /\ UNCHANGED <<exec, tok>>
       \/ \E t \in Task :
            /\ Claimable(t, new) /\ exec[t].pc = "idle"
            /\ tok < MaxClaims
            /\ task' = [new EXCEPT ![t] = ClaimedRow(@)]
            /\ tok' = tok + 1
            /\ exec' = [exec EXCEPT ![t] = [pc |-> "starting", token |-> tok', attempt |-> 0]]
            /\ run' = RunAfter(task, new)
       \/ \E t \in Task, s \in {"failed", "blocked_by_policy"} :
            /\ Claimable(t, new) /\ exec[t].pc = "idle"
            /\ task' = [new EXCEPT ![t] = [Released(@, s) EXCEPT !.turn = 0]]
            /\ run' = RefreshedRun(task')
            /\ UNCHANGED <<exec, tok>>
  /\ UNCHANGED <<disp, journal, stale, due, canc, repairs, boot>>

-----------------------------------------------------------------------------
\* Workers: #runTask and #startScheduledTask.  A worker goes on with what it knew
\* before each await; what it may still write is decided by its token.

Worker(t, pc) == exec[t].pc = pc

\* The worker writes one of the rows if its claim still stands; its next await is pc.
Writes(t, statuses, rows, pc) ==
  /\ Holds(t, exec[t].token, statuses)
  /\ \E row \in rows : task' = [task EXCEPT ![t] = row]
  /\ exec' = [exec EXCEPT ![t].pc = pc]

\* The claim was taken away: the write is rejected, the worker throws and cleans up.
Fenced(t, statuses) ==
  /\ ~ Holds(t, exec[t].token, statuses)
  /\ exec' = [exec EXCEPT ![t].pc = "finishing"]
  /\ UNCHANGED task

\* The catch of #runTask: failClaim if the claim still stands.
Throws(t, rows) ==
  \/ Writes(t, ActiveTaskStatuses, rows, "finishing")
  \/ Fenced(t, ActiveTaskStatuses)

Dispatch(t, a, status) == disp' = [disp EXCEPT ![t][a] = status]

ParentLive(t) == ~ Terminal(task[t]) /\ run \notin TerminalRunStatuses

\* No lease, or no thread in the budget: give the claim back, or give up after the
\* acquisition deadline.
Waits(t) ==
  \/ Writes(t, {"running"}, {WaitRow(task[t]), Released(task[t], "recovery_attention")}, "finishing")
  \/ Fenced(t, {"running"})

WaitForLease(t) ==
  /\ Worker(t, "starting")
  /\ Waits(t)
  /\ UNCHANGED <<run, disp, journal, stale, due, canc, tok, repairs, boot>>

\* beginThreadAcquisition for the attempt the row shows now.
Acquire(t) ==
  LET a == task[t].attempt
  IN  /\ Worker(t, "starting")
      /\ \/ /\ ~ ParentLive(t)      \* #assertParent, after the row was created
            /\ Dispatch(t, a, IF disp[t][a] = "none" THEN "unsent" ELSE disp[t][a])
            /\ Throws(t, {Released(task[t], "failed")})
         \/ /\ ParentLive(t) /\ disp[t][a] \in {"closed", "cancelling"}
            /\ Throws(t, {Released(task[t], "failed")})
            /\ UNCHANGED disp
         \/ /\ ParentLive(t) /\ disp[t][a] \in {"none", "unsent"}
            /\ Dispatch(t, a, "unsent")
            /\ exec' = [exec EXCEPT ![t] = [pc |-> "acquiring", token |-> @.token, attempt |-> a]]
            /\ UNCHANGED task
         \/ /\ ParentLive(t) /\ disp[t][a] \in {"none", "unsent"}      \* lease_race_budget_fenced
            /\ Dispatch(t, a, "closed")
            /\ Waits(t)
      /\ UNCHANGED <<run, journal, stale, due, canc, tok, repairs, boot>>

\* The thread is there: acquireThread, bindClaim and the submission intent.
Bind(t) ==
  LET a == exec[t].attempt
  IN  /\ Worker(t, "acquiring")
      /\ disp[t][a] = "unsent" /\ ParentLive(t)
      /\ \/ /\ Writes(t, {"running", "integration_pending"}, {task[t]}, "submitted")
            /\ Dispatch(t, a, "sent")
         \/ /\ Fenced(t, {"running", "integration_pending"})
            /\ Dispatch(t, a, "closed")
      /\ UNCHANGED <<run, journal, stale, due, canc, tok, repairs, boot>>

\* onStarted: the dispatch first, then setClaimTurn.
TurnStarts(t) ==
  LET k == exec[t].token
  IN  /\ Worker(t, "submitted")
      /\ disp[t][exec[t].attempt] = "sent" /\ ParentLive(t)
      /\ task' = [task EXCEPT ![t].turn = IF Holds(t, k, {"running"}) THEN k ELSE @]
      /\ exec' = [exec EXCEPT ![t].pc = "running"]
      /\ UNCHANGED <<run, disp, journal, stale, due, canc, tok, repairs, boot>>

TurnReturns(t) ==
  /\ Worker(t, "running")
  /\ disp[t][exec[t].attempt] = "sent"
  /\ Dispatch(t, exec[t].attempt, "closed")
  /\ exec' = [exec EXCEPT ![t].pc = "judging"]
  /\ UNCHANGED <<task, run, journal, stale, due, canc, tok, repairs, boot>>

\* What the worker awaits throws.  Before the submission failBeforeSubmission closes
\* the dispatch unless it is cancelled; after it, execute() has closed it.
WorkerThrows(t) ==
  LET a == exec[t].attempt
      open == CASE exec[t].pc = "acquiring" -> {"unsent"}
                [] exec[t].pc \in {"submitted", "running"} -> {"unsent", "sent", "cancelling"}
                [] OTHER -> {}
      blocked == IF exec[t].pc = "integrating" THEN {"integration_blocked"} ELSE {}
  IN  /\ exec[t].pc \notin {"idle", "finishing"}
      /\ Throws(t, FailureRows(task[t], {"failed", "blocked_by_policy"} \cup blocked))
      /\ IF disp[t][a] \in open THEN Dispatch(t, a, "closed") ELSE UNCHANGED disp
      /\ UNCHANGED <<run, journal, stale, due, canc, tok, repairs, boot>>

-----------------------------------------------------------------------------
\* Completion.  The outcomes are the rows the claim may write and where the call then
\* waits; workers and the stale-Task reconciliation share them.

Outcome(row, pc) == [row |-> row, pc |-> pc]

Ends(rows) == {Outcome(row, "finishing") : row \in rows}

\* What follows an accepted result: the integration of the worktree, or completion.
Accepted(t, row, done) ==
  IF t \in Integrates THEN {Outcome([row EXCEPT !.status = "integration_pending"], "integrating")}
  ELSE Ends({Released(row, s) : s \in done})

Done(t) == IF t \in Criteria THEN {"completed", "completed_with_warnings"} ELSE {"completed"}

\* A finished turn is judged; its output and turn id are stored with the verdict.
Judged(t, row, turn) ==
  LET judged == [row EXCEPT !.turn = turn]
  IN  Ends(FailureRows(judged, {"failed", "interrupted", "recovery_attention"}))
        \cup IF t \in Criteria THEN {Outcome([judged EXCEPT !.status = "agent_done"], "agent_done")}
             ELSE Accepted(t, IF t \in Integrates THEN row ELSE judged, Done(t))

\* The validator has answered or failed.
Validated(t, row) ==
  Ends(FailureRows(row, {"rejected", "validation_failed", "blocked_by_policy",
                         "failed", "recovery_attention"}))
    \cup Accepted(t, row, Done(t))

\* The worktree was integrated and verified; a worker of a Task without criteria
\* stores its turn only now.
Integrated(t, row, turn) ==
  LET kept == IF t \in Criteria THEN row ELSE [row EXCEPT !.turn = turn]
  IN  Ends(FailureRows(kept, {"failed", "recovery_attention"})
             \cup {Released(kept, s) : s \in Done(t)})

Settles(t, statuses, outcomes) ==
  \/ /\ Holds(t, exec[t].token, statuses)
     /\ \E o \in outcomes : /\ task' = [task EXCEPT ![t] = o.row]
                            /\ exec' = [exec EXCEPT ![t].pc = o.pc]
  \/ Fenced(t, statuses)

Judge(t) ==
  /\ Worker(t, "judging")
  /\ Settles(t, {"running"}, Judged(t, task[t], exec[t].token))
  /\ UNCHANGED <<run, disp, journal, stale, due, canc, tok, repairs, boot>>

\* markClaimValidating follows markClaimAgentDone at once; only a crash comes between.
MarkValidating(t) ==
  /\ Worker(t, "agent_done")
  /\ Settles(t, {"agent_done"}, {Outcome([task[t] EXCEPT !.status = "validating"], "validating")})
  /\ UNCHANGED <<run, disp, journal, stale, due, canc, tok, repairs, boot>>

Validate(t) ==
  /\ Worker(t, "validating")
  /\ Settles(t, {"validating"}, Validated(t, task[t]))
  /\ UNCHANGED <<run, disp, journal, stale, due, canc, tok, repairs, boot>>

\* prepareIntegrationJournal, if the worktree has changes.
Integrate(t) ==
  /\ Worker(t, "integrating") \/ stale[t].pc = "integrating"
  /\ t \notin journal
  /\ journal' = journal \cup {t}
  /\ UNCHANGED <<task, run, exec, disp, stale, due, canc, tok, repairs, boot>>

FinishIntegration(t) ==
  /\ Worker(t, "integrating")
  /\ Settles(t, {"integration_pending"}, Integrated(t, task[t], exec[t].token))
  /\ UNCHANGED <<run, disp, journal, stale, due, canc, tok, repairs, boot>>

\* The finally of #startScheduledTask: runningTaskIds, then afterTask.
Finish(t) ==
  /\ Worker(t, "finishing")
  /\ exec' = [exec EXCEPT ![t] = IdleExec]
  /\ run' = RefreshedRun(task)
  /\ UNCHANGED <<task, disp, journal, stale, due, canc, tok, repairs, boot>>

-----------------------------------------------------------------------------
\* recoverInterruptedTasks for one Task

OpenStatuses == {"unsent", "sent", "cancelling"}

DefersForClosed(t, dispatches) ==      \* mutant: closed dispatches defer the recovery too
  Active(task[t]) /\ \A a \in Attempt : dispatches[t][a] = "none"

\* It is deferred while a dispatch (dispatches: the table) or a journal may still decide.
Recoverable(t, dispatches) ==
  /\ Active(task[t])
  /\ \A a \in Attempt : dispatches[t][a] \notin OpenStatuses
  /\ ~ (task[t].status = "integration_pending" /\ t \in journal)

\* A running Task without side effects is queued again, whatever its attempts.
RecoveredRow(t) ==
  [Released(task[t], IF task[t].status = "running" /\ t \in ReplaySafe THEN "queued"
                     ELSE "recovery_attention") EXCEPT !.turn = 0]

Recovers(ts, dispatches) ==
  task' = [t \in Task |-> IF t \in ts /\ Recoverable(t, dispatches) THEN RecoveredRow(t) ELSE task[t]]

-----------------------------------------------------------------------------
\* reconcileStaleTasks: Tasks that are active without a worker in this process.  It
\* writes with the claim it captured; it does not refresh the Run.

Unclaimed == [t \in Task |-> Fresh(t)]

StaleGoes(t, pc) == stale' = [stale EXCEPT ![t] = IF pc = "finishing" THEN Fresh(t) ELSE [@ EXCEPT !.pc = pc]]

StaleSettles(t, statuses, outcomes) ==
  \/ /\ Holds(t, stale[t].row.token, statuses)
     /\ \E o \in outcomes : task' = [task EXCEPT ![t] = o.row] /\ StaleGoes(t, o.pc)
  \/ /\ ~ Holds(t, stale[t].row.token, statuses)
     /\ StaleGoes(t, "finishing") /\ UNCHANGED task

Capture(t) ==
  /\ Active(task[t]) /\ exec[t].pc = "idle" /\ stale[t].pc = "none"
  /\ stale' = [stale EXCEPT ![t] = [pc |-> "todo", row |-> task[t]]]
  /\ UNCHANGED <<task, run, exec, disp, journal, due, canc, tok, repairs, boot>>

\* Without a turn to read, or with one the reconciliation cannot use, the Task is
\* recovered; so it is after three failed reads.
StaleRecovers(t) ==
  /\ stale[t].pc = "todo"
  /\ Recovers({t}, disp)
  /\ StaleGoes(t, "finishing")
  /\ UNCHANGED <<run, exec, disp, journal, due, canc, tok, repairs, boot>>

\* A turn that has not ended, or a failed read, is only recorded as a heartbeat.
StaleWaits(t) ==
  /\ stale[t].pc = "todo" /\ stale[t].row.turn # 0
  /\ StaleGoes(t, "finishing")
  /\ UNCHANGED <<task, run, exec, disp, journal, due, canc, tok, repairs, boot>>

\* The stored turn has ended: what it left is judged or taken over.
StaleRead(t) ==
  LET row == stale[t].row
  IN  /\ stale[t].pc = "todo" /\ row.turn # 0
      /\ \/ row.status = "running" /\ StaleSettles(t, {"running"}, Judged(t, task[t], row.turn))
         \/ row.status = "validating" /\ StaleSettles(t, {"validating"}, Validated(t, task[t]))
      /\ UNCHANGED <<run, exec, disp, journal, due, canc, tok, repairs, boot>>

\* The later awaits of the same reconciliation.
StaleContinues(t) ==
  /\ \/ /\ stale[t].pc = "agent_done"
        /\ StaleSettles(t, {"agent_done"}, {Outcome([task[t] EXCEPT !.status = "validating"], "validating")})
     \/ /\ stale[t].pc = "validating"
        /\ StaleSettles(t, {"validating"}, Validated(t, task[t]))
     \/ /\ stale[t].pc = "integrating"
        /\ StaleSettles(t, {"integration_pending"}, Integrated(t, task[t], stale[t].row.turn))
  /\ UNCHANGED <<run, exec, disp, journal, due, canc, tok, repairs, boot>>

\* What is awaited throws: the catch counts a failed read and recovers after three.
StaleThrows(t) ==
  /\ stale[t].pc \in {"agent_done", "validating", "integrating"}
  /\ Recovers({t}, disp) \/ UNCHANGED task
  /\ StaleGoes(t, "finishing")
  /\ UNCHANGED <<run, exec, disp, journal, due, canc, tok, repairs, boot>>

-----------------------------------------------------------------------------
\* The start-up recovery of the dispatches and integrations the last process left

\* finishFailureClaim with the row's own claim.
Attention(t) ==
  task' = IF Active(task[t]) THEN [task EXCEPT ![t] = Released(@, "recovery_attention")] ELSE task

ReconcileDispatch(t, a) ==
  /\ <<t, a>> \in due.dispatches
  /\ due' = [due EXCEPT !.dispatches = @ \ {<<t, a>>}]
  /\ \/ /\ disp[t][a] = "unsent"      \* closed as failed: nothing was submitted
        /\ Dispatch(t, a, "closed")
        /\ Recovers({t}, disp')
        /\ UNCHANGED run
     \/ /\ disp[t][a] = "unsent"      \* past its deadline
        /\ Dispatch(t, a, "closed") /\ Attention(t) /\ UNCHANGED run
     \/ /\ disp[t][a] = "sent"        \* still uncertain past its deadline: attention
        /\ Dispatch(t, a, "closed") /\ Attention(t)
        /\ run' = IF Terminal(task[t]) THEN run ELSE RefreshedRun(task')
     \/ /\ disp[t][a] \in {"sent", "cancelling"}      \* the outcome is recorded, or the read fails
        /\ Dispatch(t, a, "closed") /\ UNCHANGED <<task, run>>
     \/ /\ disp[t][a] \in {"sent", "closed"}          \* still running, or settled meanwhile
        /\ UNCHANGED <<task, run, disp>>
  /\ UNCHANGED <<exec, journal, stale, canc, tok, repairs, boot>>

\* #recoverIntegrations: the journal decides, and the destination is verified.
RecoverIntegration(t) ==
  /\ t \in due.integrations
  /\ due' = [due EXCEPT !.integrations = @ \ {t}]
  /\ IF task[t].status = "integration_pending"
     THEN /\ \E row \in FailureRows(task[t], {"completed", "completed_with_warnings", "failed",
                                               "recovery_attention", "integration_blocked"}) :
               task' = [task EXCEPT ![t] = row]
          /\ run' = RefreshedRun(task')
     ELSE UNCHANGED <<task, run>>
  /\ UNCHANGED <<exec, disp, journal, stale, canc, tok, repairs, boot>>

\* The daemon dies between two steps.  The next one's constructor recovers the Tasks
\* whose heartbeat is old; start-up then looks at the dispatches and integrations.
Restart ==
  /\ boot < MaxBoots
  /\ boot' = boot + 1
  /\ exec' = [t \in Task |-> IdleExec]
  /\ stale' = Unclaimed
  /\ canc' = FALSE
  /\ \E old \in SUBSET {t \in Task : Active(task[t])} : Recovers(old, disp)
  /\ due' = [dispatches |-> {d \in Task \X Attempt : disp[d[1]][d[2]] \in OpenStatuses},
             integrations |-> {t \in journal : task'[t].status = "integration_pending"}]
  /\ UNCHANGED <<run, disp, journal, tok, repairs>>

-----------------------------------------------------------------------------
\* The user and the planner

\* releaseStagedRun
Release ==
  /\ run \in {"preparing", "agents_prepared", "awaiting_user_start"}
  /\ task' = [t \in Task |-> IF task[t].status # "staged" THEN task[t]
                             ELSE [task[t] EXCEPT !.status = IF Deps[t] = {} THEN "queued" ELSE "blocked"]]
  /\ run' = "running"
  /\ UNCHANGED <<exec, disp, journal, stale, due, canc, tok, repairs, boot>>

\* failPreparedRun, unless a Task already has an owner.
FailPreparedRun ==
  /\ run \in {"preparing", "agents_prepared", "awaiting_user_start"}
  /\ \A t \in Task : ~ Terminal(task[t]) => task[t].attempt = 0 /\ task[t].token = 0
  /\ task' = [t \in Task |-> IF Terminal(task[t]) THEN task[t] ELSE Released(task[t], "failed")]
  /\ run' = "failed"
  /\ UNCHANGED <<exec, disp, journal, stale, due, canc, tok, repairs, boot>>

CancelMisspelt(row) ==      \* mutant: the Run's spelling
  IF Terminal(row) THEN row ELSE Released(row, "cancelled")

CancelKeepsClaim(row) ==      \* mutant: the claim outlives the cancellation
  IF Terminal(row) THEN row ELSE [row EXCEPT !.status = "canceled"]

CancelledRow(row) == IF Terminal(row) THEN row ELSE Released(row, "canceled")

CancelledDispatches(ts) ==
  disp' = [t \in Task |-> [a \in Attempt |->
             IF t \in ts /\ disp[t][a] \in {"unsent", "sent"} THEN "cancelling" ELSE disp[t][a]]]

\* cancel_task: the registry's cancelTask, without a refreshRun.
CancelTask(t) ==
  /\ ~ Terminal(task[t])
  /\ task' = [task EXCEPT ![t] = CancelledRow(@)]
  /\ CancelledDispatches({t})
  /\ UNCHANGED <<run, exec, journal, stale, due, canc, tok, repairs, boot>>

\* RunController.cancel up to its interrupts ...
CancelRun ==
  /\ run \notin TerminalRunStatuses /\ ~ canc
  /\ CancelledDispatches(Task)
  /\ canc' = TRUE
  /\ UNCHANGED <<task, run, exec, journal, stale, due, tok, repairs, boot>>

\* ... and cancelRun after them: the Tasks, then the Run unless it has settled.
CancelRunEnds ==
  /\ canc
  /\ task' = [t \in Task |-> CancelledRow(task[t])]
  /\ run' = IF LegalRun(run, "cancelled") THEN "cancelled" ELSE run
  /\ canc' = FALSE
  /\ UNCHANGED <<exec, disp, journal, stale, due, tok, repairs, boot>>

\* #repairTaskContract: the claim's traces are wiped, the Run is reopened, and what
\* the dependencies say now is applied.
RepairedRow(row) ==
  [Released(row, "blocked") EXCEPT !.turn = 0, !.max = IF @ > row.attempt THEN @ ELSE row.attempt + 1]

Repair(t) ==
  /\ repairs < MaxRepairs
  /\ HasFailed(task[t])
  /\ repairs' = repairs + 1
  /\ LET reopened == [task EXCEPT ![t] = RepairedRow(@)]
     IN  \E new \in Refreshes(reopened) :
           /\ task' = new
           /\ run' = LET status == DerivedRun(new) IN IF status = "none" THEN "running" ELSE status
  /\ UNCHANGED <<exec, disp, journal, stale, due, canc, tok, boot>>

\* graph and list_tasks look at the Run again.
Inspect ==
  /\ run' = RefreshedRun(task)
  /\ run' # run
  /\ UNCHANGED <<task, exec, disp, journal, stale, due, canc, tok, repairs, boot>>

-----------------------------------------------------------------------------
WorkerStep(t) ==
  \/ WaitForLease(t) \/ Acquire(t) \/ Bind(t) \/ TurnStarts(t) \/ TurnReturns(t) \/ WorkerThrows(t)
  \/ Judge(t) \/ MarkValidating(t) \/ Validate(t) \/ FinishIntegration(t) \/ Finish(t)

StaleStep(t) ==
  StaleRecovers(t) \/ StaleWaits(t) \/ StaleRead(t) \/ StaleContinues(t) \/ StaleThrows(t)

StartupStep(t) == RecoverIntegration(t) \/ \E a \in Attempt : ReconcileDispatch(t, a)

Next ==
  \/ Poll
  \/ \E t \in Task : WorkerStep(t) \/ Integrate(t) \/ Capture(t) \/ StaleStep(t) \/ StartupStep(t)
  \/ \E t \in Task : CancelTask(t) \/ Repair(t)
  \/ Release \/ FailPreparedRun \/ CancelRun \/ CancelRunEnds \/ Inspect \/ Restart

Spec == Init /\ [][Next]_vars
-----------------------------------------------------------------------------
\* Properties

\* A claim token is stored exactly while a Task is active: every way out of an active
\* status (outcome, retry, wait, cancellation, recovery) gives the claim up, and no
\* way in leaves it unset, so a worker that lost its claim can never match a row.
OwnedIffActive == \A t \in Task : task[t].token # 0 <=> Active(task[t])

\* A Task that continues others (all_success) runs, and succeeds, only when every one
\* of them has succeeded, across repairs, cascades and late workers.
SuccessorsFollowSuccess ==
  \A t \in Task : Policy[t] = "all_success" /\ (Active(task[t]) \/ Succeeded(task[t]))
                   => \A d \in Deps[t] : task[d].status \in {"completed", "completed_with_warnings"}

\* A Run that reports an end has no Task that could still run: refreshRun, cancelRun and
\* failPreparedRun settle it after its Tasks, and a repair reopens both.
RunSettledWithTasks == run \in TerminalRunStatuses => \A t \in Task : Terminal(task[t])

\* A retry is promised only while the attempt budget of the Task lasts (decideTaskRetry).
RetryHasBudget == \A t \in Task : task[t].status = "retry_waiting" => task[t].attempt < task[t].max

\* The rows as claims: what each status means for the owner of a Task.
Phase(row) ==
  CASE row.status = "skipped" -> "skipped"
    [] Succeeded(row) -> "completed"
    [] HasFailed(row) -> "failed"
    [] Active(row) -> "owned"
    [] OTHER -> "waiting"

Claims == INSTANCE ClaimLifecycle
            WITH phase <- [t \in Task |-> Phase(task[t])],
                 holder <- [t \in Task |-> task[t].token],
                 last <- tok

\* The registry implements the claim life cycle: one owner at a time with a token of
\* its own, only the owner completes a Task, and completed Tasks stay completed,
\* whatever stale workers, reconciliations, cancellations and restarts write.
ImplementsClaims == Claims!Spec

\* The poll timer of startBackground goes on in every daemon process, and the calls
\* its tasks and reconciliations await return or throw: each has a timeout.  Nothing is
\* assumed of the user and of crashes.
FairSpec ==
  /\ Spec
  /\ WF_vars(Poll) /\ WF_vars(CancelRunEnds)
  /\ \A t \in Task : /\ WF_vars(Capture(t)) /\ WF_vars(StaleStep(t))
                       /\ WF_vars(WorkerStep(t)) /\ WF_vars(StartupStep(t))

\* A claim without a worker and without a turn, dispatch or journal to decide it.
DeadClaim(t) ==
  /\ Active(task[t]) /\ exec[t].pc = "idle" /\ task[t].turn = 0
  /\ \A a \in Attempt : disp[t][a] \notin OpenStatuses
  /\ ~ (task[t].status = "integration_pending" /\ t \in journal)

\* The claim of a dead daemon is taken back by the running one, without a restart.
DeadClaimsAreRecovered == \A t \in Task : DeadClaim(t) ~> ~ Active(task[t])

-----------------------------------------------------------------------------
\* Promises that the code does not keep; no run checks them.

\* docs/contracts/EXECUTION_FLOW_CONTRACT.md:23: a Run is concluded when all its Tasks
\* are terminal.  cancel_task and reconcileStaleTasks end Tasks without a refreshRun.
RunSettles == (\A t \in Task : Terminal(task[t])) ~> run \in TerminalRunStatuses

\* docs/operations/FAILURE_RECOVERY.md:82: an on_failure Task runs only when a preceding
\* Task has failed.  claimTask checks only that its dependencies have ended.
FallbackNeedsFailure ==
  [][\A t \in Task : Policy[t] = "on_failure" /\ ~ Active(task[t]) /\ Active(task'[t])
                     => \E d \in Deps[t] : HasFailed(task[d])]_vars
=============================================================================
