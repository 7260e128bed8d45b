----------------------------- MODULE RunDispatch -----------------------------
(***************************************************************************)
(* One control request, from its acceptance to its report: the background  *)
(* dispatch that plans it, stores its Task graph and starts the Run; the   *)
(* start itself with the orchestrator's kickoff turn; the recovery of what *)
(* a dead daemon left in preparation; cancellation and repair by the user; *)
(* and the finalization of every ending.  The rows survive a crash, the    *)
(* flights (promises of this process) do not.  The atomic steps are the    *)
(* stretches of code between two awaits.                                   *)
(***************************************************************************)
EXTENDS Naturals, DomainStates

CONSTANTS
  MaxBoots,       \* bound: daemon processes
  MaxRepairs      \* bound: repairs of an ended Run

ASSUME RunDispatchAssumption == MaxBoots \in Nat \ {0} /\ MaxRepairs \in Nat

VARIABLES
  kind,       \* the request: planned or direct, has a requestKey, wants worktrees
  run,        \* the runs row
  plan,       \* plans.status
  turn,       \* the dispatches of the planner and of the orchestrator's kickoff
  graph,      \* the Run's Tasks, taken together
  result,     \* run_results.status
  notes,      \* notifications
  flight,     \* controlDispatches: where #processControlRequest waits
  start,      \* runStarts: where #startRun waits
  final,      \* runFinalizations: where #finalizeRun waits, and the Run status it has read
  cancel,     \* a RunController.cancel waits for its interrupts
  phase,      \* how far startBackground is
  boot, repairs

vars == <<kind, run, plan, turn, graph, result, notes, flight, start, final, cancel, phase, boot, repairs>>

LiveGraph == {"staged", "released", "working"}
EndedGraph == {"completed", "failed", "attention", "canceled"}
Turn == {"none", "unsent", "open", "cancelling", "completed", "failed"}
NoFlight == [pc |-> "none", try |-> 1]
NoFinal == [pc |-> "none", status |-> "none"]

\* endings counts how often the Run has become terminal; it is no column of the code.
TypeOK ==
  /\ kind \in [planned : BOOLEAN, keyed : BOOLEAN, worktree : BOOLEAN]
  /\ run \in [status : RunStatuses \cup {"none"}, path : {"none", "direct", "orchestrated"},
              thread : BOOLEAN, report : {"none", "notifying", "completed", "failed"},
              finalized : BOOLEAN, endings : 0..MaxRepairs + 2]
  /\ plan \in {"none", "planning", "planned", "failed", "synthesizing", "synthesized", "synthesis_failed"}
  /\ turn \in [planning : Turn, kickoff : Turn]
  /\ graph \in {"none"} \cup LiveGraph \cup EndedGraph
  /\ result \in {"none"} \cup TerminalRunStatuses
  /\ notes \in SUBSET {"completed", "failed", "attention_required"}
  /\ flight \in [pc : {"none", "queued", "indexing", "planner", "planning", "inspecting", "starting", "opening"},
                 try : 1..2]
  /\ start \in {"none", "spawning", "acquiring", "kickoff", "releasing"}
  /\ final \in [pc : {"none", "queued", "synthesizing", "reporting"}, status : {"none"} \cup TerminalRunStatuses]
  /\ cancel \in BOOLEAN
  /\ phase \in {"reconcile", "recover", "up"}
  /\ boot \in 1..MaxBoots /\ repairs \in 0..MaxRepairs

Init ==
  /\ kind \in [planned : BOOLEAN, keyed : BOOLEAN, worktree : BOOLEAN]
  /\ run = [status |-> "none", path |-> "none", thread |-> FALSE, report |-> "none",
            finalized |-> FALSE, endings |-> 0]
  /\ plan = "none" /\ turn = [planning |-> "none", kickoff |-> "none"]
  /\ graph = "none" /\ result = "none" /\ notes = {}
  /\ flight = NoFlight /\ start = "none" /\ final = NoFinal /\ cancel = FALSE
  /\ phase = "up" /\ boot = 1 /\ repairs = 0

-----------------------------------------------------------------------------
\* Rows

Over(r) == r.status \in TerminalRunStatuses

To(r, status) ==
  [r EXCEPT !.status = status,
            !.endings = IF status \in TerminalRunStatuses /\ ~Over(r) THEN @ + 1 ELSE @]

Anywhere(from, to) == from # "none"      \* mutant: updateRun does not ask transitionRun

\* updateRun writes a new status only if transitionRun accepts it; otherwise it throws.
MayBecome(from, to) == LegalRun(from, to)

Linked == kind.planned /\ run.path # "none"      \* runs.plan_id is set with the path

EveryEnding(status, tasks) == {status}      \* mutant: the notification kind is the status

\* classifyRunNotification, for the status of a Run and what its Tasks show.
KindOf(status, tasks) ==
  CASE status = "completed" -> {"completed"}
    [] status = "failed" -> IF tasks = "attention" THEN {"attention_required"} ELSE {"failed"}
    [] OTHER -> {}

Queued(f) == IF f.pc = "none" THEN [f EXCEPT !.pc = "queued"] ELSE f

-----------------------------------------------------------------------------
\* The dispatch.  Each operator below is the rest of a synchronous stretch for the row r:
\* it decides run, graph, flight, start and final.

\* The catch of #scheduleControlDispatch: the Run fails unless it is terminal; its Tasks
\* are not looked at.
Failing(r) ==
  /\ run' = IF Over(r) THEN r ELSE To(r, "failed")
  /\ flight' = NoFlight
  /\ final' = Queued(final)
  /\ UNCHANGED <<graph, start>>

\* #ensureRunOrchestrator has to spawn a thread or to run the kickoff turn, or nothing to do.
FirstWait(r) ==
  CASE r.path # "orchestrated" -> "releasing"
    [] r.path = "orchestrated" /\ ~r.thread -> "spawning"
    [] r.path = "orchestrated" /\ r.thread /\ turn.kickoff = "completed" -> "releasing"
    [] OTHER -> "acquiring"

\* createTaskGraph stores the Tasks and writes the status over whatever the row says now; then
\* #startRun begins.  A Run that has Tasks never comes here: it cannot be planned again.
Materialized(r) ==
  /\ run' = To(r, "preparing")
  /\ graph' = "staged"
  /\ start' = FirstWait(r)
  /\ flight' = [flight EXCEPT !.pc = "starting"]
  /\ UNCHANGED final

\* The Run is classified and becomes preparing; #prepareAgentRun checks the contracts and
\* looks at the repository when a Task wants a worktree.
Preparing(r) ==
  \/ /\ ~MayBecome(r.status, "preparing")
     /\ Failing(r)
  \/ /\ MayBecome(r.status, "preparing")
     /\ \E p \in IF kind.planned THEN {"direct", "orchestrated"} ELSE {"direct"} :
          LET q == [To(r, "preparing") EXCEPT !.path = p]
          IN  \/ Failing(q)
              \/ kind.worktree /\ run' = q /\ flight' = [flight EXCEPT !.pc = "inspecting"]
                 /\ UNCHANGED <<graph, start, final>>
              \/ ~kind.worktree /\ Materialized(q)

Unplanned == UNCHANGED <<plan, turn>>

\* updateRun(planning), and the beginning of PlannerEngine.plan: a finished plan of the
\* same request is taken; an unfinished one is planned again, by its dispatch if the prompt
\* is still the same.
Planning ==
  LET r == To(run, "planning")
      plans == /\ plan' = "planning"
               /\ run' = r
               /\ UNCHANGED <<graph, start, final>>
  IN  \/ ~MayBecome(run.status, "planning") /\ Failing(run) /\ Unplanned
      \/ /\ MayBecome(run.status, "planning")
         /\ \/ Failing(run) /\ Unplanned      \* no context for the request
            \/ ~kind.planned /\ Preparing(r) /\ Unplanned
            \/ kind.planned /\ kind.keyed /\ plan = "planned" /\ Preparing(r) /\ Unplanned
            \/ /\ kind.planned /\ ~(kind.keyed /\ plan = "planned")
               /\ plans
               /\ flight' = [pc |-> "planner", try |-> 1]
               /\ turn' = [turn EXCEPT !.planning = "unsent"]
            \/ /\ kind.planned /\ kind.keyed /\ plan = "planning"
               /\ turn.planning = "completed"
               /\ plans
               /\ flight' = [pc |-> "planning", try |-> 1]
               /\ UNCHANGED turn
            \/ /\ kind.planned /\ kind.keyed /\ plan = "planning"
               /\ turn.planning \in {"open", "cancelling", "failed"}      \* active, or terminal without a result
               /\ plan' = "failed" /\ UNCHANGED turn
               /\ Failing(r)

\* #enqueueControlRequest
Enqueue ==
  /\ run.status = "none"
  /\ run' = To(run, "accepted")
  /\ flight' = [NoFlight EXCEPT !.pc = "queued"]
  /\ UNCHANGED <<kind, plan, turn, graph, result, notes, start, final, cancel, phase, boot, repairs>>

Begin ==
  /\ flight.pc = "queued"
  /\ \/ /\ Over(run) \/ run.status = "running"
        /\ flight' = NoFlight
        /\ UNCHANGED <<run, plan, turn, graph, start, final>>
     \/ /\ ~Over(run) /\ run.status # "running"
        /\ flight' = [flight EXCEPT !.pc = "indexing"]      \* the request names threads to index
        /\ UNCHANGED <<run, plan, turn, graph, start, final>>
     \/ ~Over(run) /\ run.status # "running" /\ Planning
  /\ UNCHANGED <<kind, result, notes, cancel, phase, boot, repairs>>

Indexed ==
  /\ flight.pc = "indexing"
  /\ Planning
  /\ UNCHANGED <<kind, result, notes, cancel, phase, boot, repairs>>

PlanFails == plan' = "failed" /\ turn' = [turn EXCEPT !.planning = "failed"] /\ Failing(run)

\* #assertParent
Fenced(r) == Over(r)

\* The planner's thread is there: the turn is submitted unless the Run has ended meanwhile.
PlannerReady ==
  /\ flight.pc = "planner"
  /\ \/ /\ turn.planning = "unsent" /\ ~Fenced(run)
        /\ turn' = [turn EXCEPT !.planning = "open"]
        /\ flight' = [flight EXCEPT !.pc = "planning"]
        /\ UNCHANGED <<run, plan, graph, start, final>>
     \/ PlanFails
  /\ UNCHANGED <<kind, result, notes, cancel, phase, boot, repairs>>

\* The planner's answer; a graph that breaks its contract is asked for once more.
Planned ==
  /\ flight.pc = "planning"
  /\ \/ /\ turn.planning \in {"open", "completed"}
        /\ plan' = "planned" /\ turn' = [turn EXCEPT !.planning = "completed"]
        /\ Preparing(run)
     \/ /\ turn.planning \in {"open", "completed"} /\ flight.try = 1
        /\ turn' = [turn EXCEPT !.planning = "unsent"]
        /\ flight' = [pc |-> "planner", try |-> 2]
        /\ UNCHANGED <<run, plan, graph, start, final>>
     \/ PlanFails
  /\ UNCHANGED <<kind, result, notes, cancel, phase, boot, repairs>>

Inspected ==
  /\ flight.pc = "inspecting"
  /\ Materialized(run) \/ Failing(run)
  /\ UNCHANGED <<kind, plan, turn, result, notes, cancel, phase, boot, repairs>>

\* #ensureDashboardServer, after the start
DashboardOpened ==
  /\ flight.pc = "opening"
  /\ \/ flight' = NoFlight /\ UNCHANGED <<run, graph, start, final>>
     \/ Failing(run)
  /\ UNCHANGED <<kind, plan, turn, result, notes, cancel, phase, boot, repairs>>

-----------------------------------------------------------------------------
\* #startRun.  The dispatch that waits for it goes on, or fails, with it.

StartReturns ==
  /\ start' = "none"
  /\ flight' = IF flight.pc = "starting" THEN [flight EXCEPT !.pc = "opening"] ELSE flight
  /\ UNCHANGED final

StartThrows ==
  /\ start' = "none"
  /\ IF flight.pc = "starting"
     THEN /\ flight' = NoFlight /\ final' = Queued(final)
          /\ run' = IF Over(run) THEN run ELSE To(run, "failed")
     ELSE UNCHANGED <<flight, final, run>>
  /\ UNCHANGED <<graph, result, notes>>

\* failPreparedRun: the Run and its Tasks fail together; a Task that has been claimed is in the way.
PreparationFails ==
  IF graph = "working" THEN StartThrows
  ELSE /\ run' = To(run, "failed")
       /\ graph' = IF graph \in LiveGraph THEN "failed" ELSE graph
       /\ result' = "failed" /\ notes' = notes \cup {"failed"}
       /\ StartReturns

\* The catch of #startRun
Aborts == IF run.status = "preparing" THEN PreparationFails ELSE StartThrows

\* runController.start and releaseStagedRun
Release ==
  /\ start = "releasing"
  /\ \/ /\ run.status = "preparing" /\ graph # "none"
        /\ graph' = IF graph = "staged" THEN "released" ELSE graph
        /\ run' = To(run, "running")
        /\ StartReturns /\ UNCHANGED <<result, notes>>
     \/ /\ run.status = "running"
        /\ StartReturns /\ UNCHANGED <<run, graph, result, notes>>
     \/ /\ run.status # "running" /\ ~(run.status = "preparing" /\ graph # "none")
        /\ Aborts
  /\ UNCHANGED <<kind, plan, turn, cancel, phase, boot, repairs>>

\* The orchestrator's thread is spawned and stored, and its kickoff dispatch prepared.
Spawned ==
  /\ start = "spawning"
  /\ \/ /\ turn.kickoff \in {"none", "unsent"} /\ ~Fenced(run)
        /\ run' = [run EXCEPT !.thread = TRUE]
        /\ turn' = [turn EXCEPT !.kickoff = "unsent"]
        /\ start' = "acquiring"
        /\ UNCHANGED <<graph, flight, final, result, notes>>
     \/ Aborts /\ UNCHANGED turn
  /\ UNCHANGED <<kind, plan, cancel, phase, boot, repairs>>

KickedOff ==
  /\ start = "acquiring"
  /\ \/ /\ turn.kickoff \in {"none", "unsent"} /\ ~Fenced(run)
        /\ turn' = [turn EXCEPT !.kickoff = "open"]
        /\ start' = "kickoff"
        /\ UNCHANGED <<run, graph, flight, final, result, notes>>
     \/ Aborts /\ turn' = [turn EXCEPT !.kickoff = "failed"]
  /\ UNCHANGED <<kind, plan, cancel, phase, boot, repairs>>

KickoffEnds ==
  /\ start = "kickoff"
  /\ \/ /\ turn.kickoff = "open"
        /\ turn' = [turn EXCEPT !.kickoff = "completed"]
        /\ start' = "releasing"
        /\ UNCHANGED <<run, graph, flight, final, result, notes>>
     \/ Aborts /\ turn' = [turn EXCEPT !.kickoff = "failed"]
  /\ UNCHANGED <<kind, plan, cancel, phase, boot, repairs>>

Recoverable ==
  /\ run.status = "preparing" /\ flight.pc = "none" /\ start = "none"
  /\ turn.kickoff \notin {"open", "cancelling"}

\* #recoverPreparedRuns, on every tick and at start-up
Recover ==
  /\ phase # "reconcile"
  /\ Recoverable
  /\ IF turn.kickoff = "failed" THEN PreparationFails
     ELSE start' = FirstWait(run) /\ UNCHANGED <<run, graph, flight, final, result, notes>>
  /\ UNCHANGED <<kind, plan, turn, cancel, phase, boot, repairs>>

-----------------------------------------------------------------------------
\* The Tasks, the user, the finalization

\* refreshRun, once the Tasks show g
Refreshed(g) ==
  LET s == CASE g = "completed" -> "completed" [] g = "canceled" -> "cancelled" [] OTHER -> "failed"
  IN  IF Over(run) \/ ~MayBecome(run.status, s)
      THEN UNCHANGED <<run, result, notes>>
      ELSE run' = To(run, s) /\ result' = s /\ notes' = notes \cup KindOf(s, g)

\* The scheduler claims the first of the released Tasks; under an ended Run its dispatch is refused.
Claimed ==
  /\ graph = "released"
  /\ graph' = IF Over(run) THEN "failed" ELSE "working"
  /\ UNCHANGED <<kind, run, plan, turn, result, notes, flight, start, final, cancel, phase, boot, repairs>>

TasksEnd ==
  /\ graph = "working"
  /\ \E g \in EndedGraph : graph' = g /\ Refreshed(g)
  /\ final' = IF run'.status \in TerminalRunStatuses THEN Queued(final) ELSE final
  /\ UNCHANGED <<kind, plan, turn, flight, start, cancel, phase, boot, repairs>>

\* RunController.graph and list_tasks derive the Run's status again.
Viewed ==
  /\ graph \in EndedGraph /\ ~Over(run)
  /\ Refreshed(graph)
  /\ UNCHANGED <<kind, plan, turn, graph, flight, start, final, cancel, phase, boot, repairs>>

StaleTasks == graph' = IF graph \in {"released", "working"} THEN "canceled" ELSE graph      \* mutant: staged Tasks are forgotten

\* cancelRun's loop over the Tasks
TasksCancelled == graph' = IF graph \in LiveGraph THEN "canceled" ELSE graph

\* cancelRun; updateRun throws when the Run has ended meanwhile.
CancelRun ==
  /\ TasksCancelled
  /\ run' = IF MayBecome(run.status, "cancelled") THEN To(run, "cancelled") ELSE run

\* RunController.cancel: the dispatches are told first; a turn to interrupt is waited for.
Cancel ==
  /\ run.status # "none" /\ ~Over(run) /\ ~cancel
  /\ turn' = [p \in DOMAIN turn |-> IF turn[p] \in {"unsent", "open"} THEN "cancelling" ELSE turn[p]]
  /\ IF "open" \in {turn.planning, turn.kickoff} \/ graph = "working"
     THEN cancel' = TRUE /\ UNCHANGED <<run, graph>>
     ELSE CancelRun /\ UNCHANGED cancel
  /\ UNCHANGED <<kind, plan, result, notes, flight, start, final, phase, boot, repairs>>

Interrupted ==
  /\ cancel
  /\ cancel' = FALSE
  /\ CancelRun
  /\ UNCHANGED <<kind, plan, turn, result, notes, flight, start, final, phase, boot, repairs>>

\* #repairTaskContract reopens the Run of a Task that has failed.
Repair ==
  /\ repairs < MaxRepairs /\ repairs' = repairs + 1
  /\ graph \in EndedGraph \ {"completed"}
  /\ Over(run) \/ run.status = "running"
  /\ run' = To(run, "running")
  /\ graph' = "released"
  /\ UNCHANGED <<kind, plan, turn, result, notes, flight, start, final, cancel, phase, boot>>

Judged == {"completed", "failed"}      \* mutant: nobody waits for the result of a cancelled Run

\* The statuses #resumeTerminalFinalizations looks for
Reportable == {"completed", "failed", "cancelled"}

\* It runs on every poll.
PollFinalization ==
  /\ run.status \in Reportable /\ ~run.finalized /\ final.pc = "none"
  /\ final' = Queued(final)
  /\ UNCHANGED <<kind, run, plan, turn, graph, result, notes, flight, start, cancel, phase, boot, repairs>>

\* status is the one read before the awaits of #finalizeRun.
Finished(r, status) ==
  /\ run' = [r EXCEPT !.finalized = TRUE]
  /\ notes' = notes \cup KindOf(status, graph)
  /\ final' = NoFinal

\* #maybeNotifyOrchestrator, unless a report is there or was begun
Reporting(status) ==
  IF run.thread /\ run.report \notin {"completed", "notifying"}
  THEN /\ run' = [run EXCEPT !.report = "notifying"]
       /\ final' = [pc |-> "reporting", status |-> status]
       /\ UNCHANGED notes
  ELSE Finished(run, status)

AsLeft == result      \* mutant: the result is left to refreshRun

\* projectRunResult writes the status the Run has now.
Projected == run.status

\* #finalizeRun: the result is projected, then the plan is synthesized, then the orchestrator reports.
Finalize ==
  /\ final.pc = "queued"
  /\ \/ ~Over(run) /\ final' = NoFinal /\ UNCHANGED <<run, plan, result, notes>>
     \/ /\ Over(run)
        /\ result' = Projected
        /\ IF Linked /\ plan \notin {"synthesizing", "synthesized"}
           THEN /\ plan' = "synthesizing"
                /\ final' = [pc |-> "synthesizing", status |-> run.status]
                /\ UNCHANGED <<run, notes>>
           ELSE Reporting(run.status) /\ UNCHANGED plan
  /\ UNCHANGED <<kind, turn, graph, flight, start, cancel, phase, boot, repairs>>

Synthesized ==
  /\ final.pc = "synthesizing"
  /\ plan' \in {"synthesized", "synthesis_failed"}
  /\ Reporting(final.status)
  /\ UNCHANGED <<kind, turn, graph, result, flight, start, cancel, phase, boot, repairs>>

Reported ==
  /\ final.pc = "reporting"
  /\ \E o \in {"completed", "failed"} : Finished([run EXCEPT !.report = o], final.status)
  /\ UNCHANGED <<kind, plan, turn, graph, result, flight, start, cancel, phase, boot, repairs>>

-----------------------------------------------------------------------------
\* The daemon

\* What a stretch with several writes may leave behind when the process dies inside it.
Torn ==
  \/ UNCHANGED <<run, graph>>
  \/ /\ start = "releasing" /\ run.status = "preparing" /\ graph = "staged"
     /\ graph' = "released" /\ UNCHANGED run
  \/ /\ graph = "working"
     /\ graph' \in EndedGraph /\ UNCHANGED run
  \/ /\ graph = "working" /\ run.status = "running"
     /\ \E s \in {"completed", "failed"} : graph' = s /\ run' = To(run, s)

Crash ==
  /\ boot < MaxBoots /\ boot' = boot + 1
  /\ Torn
  /\ flight' = NoFlight /\ start' = "none" /\ final' = NoFinal /\ cancel' = FALSE
  /\ phase' = "reconcile"
  /\ UNCHANGED <<kind, plan, turn, result, notes, repairs>>

\* What #reconcileTurnDispatches makes of a dispatch the dead process had open.
AfterReading(t) ==
  CASE t = "unsent" -> {"unsent", "failed"}
    [] t = "open" -> {"open", "completed", "failed"}
    [] t = "cancelling" -> {"failed"}
    [] OTHER -> {t}

Reconcile ==
  /\ phase = "reconcile"
  /\ phase' = "recover"
  /\ \E p \in AfterReading(turn.planning), k \in AfterReading(turn.kickoff) :
       turn' = [planning |-> p, kickoff |-> k]
  /\ UNCHANGED <<kind, run, plan, graph, result, notes, flight, start, final, cancel, boot, repairs>>

AllButPlanning == {"accepted", "preparing"}      \* mutant: a planning Run is not taken up again

\* The statuses #resumeControlDispatches looks for
Unfinished == {"accepted", "planning", "preparing"}

\* It runs once, when the start-up recovery is over.
Resume ==
  /\ phase = "recover" /\ start = "none" /\ ~Recoverable
  /\ phase' = "up"
  /\ flight' = IF run.status \in Unfinished /\ flight.pc = "none" THEN [NoFlight EXCEPT !.pc = "queued"] ELSE flight
  /\ UNCHANGED <<kind, run, plan, turn, graph, result, notes, start, final, cancel, boot, repairs>>

Next ==
  \/ Enqueue \/ Begin \/ Indexed \/ PlannerReady \/ Planned \/ Inspected \/ DashboardOpened
  \/ Release \/ Spawned \/ KickedOff \/ KickoffEnds \/ Recover
  \/ Claimed \/ TasksEnd \/ Viewed \/ Cancel \/ Interrupted \/ Repair
  \/ PollFinalization \/ Finalize \/ Synthesized \/ Reported
  \/ Crash \/ Reconcile \/ Resume

Spec == Init /\ [][Next]_vars

\* Every promise of the process settles (turns have a deadline), and the timers keep ticking.
Fairness ==
  /\ WF_vars(Begin) /\ WF_vars(Indexed) /\ WF_vars(PlannerReady) /\ WF_vars(Planned)
  /\ WF_vars(Inspected) /\ WF_vars(DashboardOpened)
  /\ WF_vars(Release) /\ WF_vars(Spawned) /\ WF_vars(KickedOff) /\ WF_vars(KickoffEnds)
  /\ WF_vars(Recover) /\ WF_vars(Reconcile) /\ WF_vars(Resume) /\ WF_vars(Interrupted)
  /\ WF_vars(PollFinalization) /\ WF_vars(Finalize) /\ WF_vars(Synthesized) /\ WF_vars(Reported)

FairSpec == Spec /\ Fairness

-----------------------------------------------------------------------------
\* Properties

\* A Run that was cancelled, and not reopened, has no Task that could still run: the graph may
\* have been stored, released or claimed while cancel waited for its interrupts (run-controller.js:179).
CancelledRunIsOver == run.status = "cancelled" => graph \notin LiveGraph

\* A terminal status is left only by a repair, or by the dispatch that was looking at the repository
\* when the Run was cancelled.
ReopenedOnlyByRepair ==
  [][Over(run) /\ run'.status # run.status => repairs' # repairs \/ flight.pc = "inspecting"]_vars

\* What a finalized Run says about its first ending is true: the result and the notification were
\* made for the status the Run has, although #finalizeRun read it before its awaits, and a crash may
\* have come between the two (registry.js:2536, mcp-server.js:3374).
FirstEndingIsReported ==
  run.finalized /\ Over(run) /\ run.endings = 1 =>
    /\ result = run.status
    /\ run.status = "completed" => "completed" \in notes
    /\ run.status = "failed" => notes \cap {"failed", "attention_required"} # {}

\* Every ending that is not yet finalized is finalized, unless the Run is reopened first: polls take up
\* what a crash or a cancellation left without a finalization (mcp-server.js:3366).
EndingsAreFinalized == Over(run) /\ ~run.finalized ~> run.finalized \/ ~Over(run)

\* A request does not stay in preparation: it runs or it ends, over any restarts (mcp-server.js:1079, 2575).
PreparationEnds ==
  run.status \in {"accepted", "planning", "preparing"} ~> Over(run) \/ run.status = "running"

-----------------------------------------------------------------------------
\* Promises that the code does not keep; no run checks them.

\* docs/contracts/EXECUTION_FLOW_CONTRACT.md:23, a terminal status is not left: only a repair reopens a Run.
TerminalStays == [][Over(run) /\ run'.status # run.status => repairs' # repairs]_vars

\* docs/contracts/STATE_MACHINES.md:60, a Run is judged ended only when all its Tasks are terminal.
EndedRunHasEndedTasks == Over(run) => graph \notin LiveGraph
=============================================================================
