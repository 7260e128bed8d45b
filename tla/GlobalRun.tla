------------------------------ MODULE GlobalRun ------------------------------
(***************************************************************************)
(* A Global Run: Project Runs, the dependencies between them and what they *)
(* hand over.  A refresh derives everything from the rows of the Project   *)
(* Runs, in a fixed order and without a transaction; the scheduler calls   *)
(* it when a Task has ended, the user and the start-up recovery call it    *)
(* too.  Whoever calls it meets its errors: an error in the scheduler ends *)
(* the process, one in the recovery keeps the daemon from starting.        *)
(***************************************************************************)
EXTENDS Naturals, DomainStates

CONSTANTS
  Project,        \* the Project Runs, each with one Task
  Requests,       \* the requests: a graph of <<producer, consumer>>, the contract of each
                  \* dependency, and the optional Project Runs
  MaxFaults       \* bound: crashes, tampering, repairs and Project Runs cancelled alone

Conditions == {"all_success", "all_terminal", "on_failure"}
Needs == {"nothing", "declared", "undeclared"}      \* the required outputs of a dependency

ASSUME GlobalRunAssumption ==
  /\ \A r \in Requests :
       /\ r = [graph |-> r.graph, contract |-> r.contract, optional |-> r.optional]
       /\ r.graph \subseteq Project \X Project
       /\ r.contract \in [r.graph -> [condition : Conditions, needs : Needs]]
       /\ r.optional \subseteq Project
  /\ MaxFaults \in Nat

VARIABLES
  graph, contract, optional,      \* the request
  rows,       \* the tables: the Global Run, its Project Runs and Tasks, dependencies, handoffs, result
  exceeds,    \* Project Runs whose Task now asks for more than its authorization manifest
  call,       \* cancel_global_run: the children it has still to cancel, the one it waits for
  alone,      \* a Project Run was cancelled by itself
  up,         \* the daemon runs
  faults

vars == <<graph, contract, optional, rows, exceeds, call, alone, up, faults>>

TaskState == {"none", "staged", "queued", "running", "completed", "failed", "recovery_attention",
              "canceled", "skipped"}
NoCall == [state |-> "none", left |-> {}, at |-> {}]

\* endings lists how a Project Run has ended so far; it is no column of the code.
TypeOK ==
  /\ [graph |-> graph, contract |-> contract, optional |-> optional] \in Requests
  /\ rows \in [status : GlobalRunStatuses \cup {"none"}, requested : BOOLEAN, revision : BOOLEAN,
               run : [Project -> {"none", "preparing", "running"} \cup TerminalRunStatuses],
               task : [Project -> TaskState], endings : [Project -> SUBSET TerminalRunStatuses],
               dep : [graph -> {"none", "pending", "satisfied", "skipped", "failed"}],
               handoff : [graph -> {"none", "prepared", "received", "invalid"}],
               intact : [graph -> BOOLEAN], result : {"none"} \cup TerminalGlobalRunStatuses]
  /\ exceeds \subseteq Project
  /\ call \in [state : {"none", "calling", "failed"}, left : SUBSET Project, at : SUBSET Project]
  /\ alone \in BOOLEAN /\ up \in BOOLEAN /\ faults \in 0..MaxFaults

Init ==
  /\ \E r \in Requests : graph = r.graph /\ contract = r.contract /\ optional = r.optional
  /\ rows = [status |-> "none", requested |-> FALSE, revision |-> FALSE,
             run |-> [p \in Project |-> "none"], task |-> [p \in Project |-> "none"],
             endings |-> [p \in Project |-> {}],
             dep |-> [e \in graph |-> "none"], handoff |-> [e \in graph |-> "none"],
             intact |-> [e \in graph |-> TRUE], result |-> "none"]
  /\ exceeds \in {{}} \cup {{p} : p \in Project}
  /\ call = NoCall /\ alone = FALSE /\ up = TRUE /\ faults = 0

Over(g) == g.status \in TerminalGlobalRunStatuses
Ended(g, p) == g.run[p] \in TerminalRunStatuses
Inbound(p) == {e \in graph : e[2] = p}
Consumer == {e[2] : e \in graph}

\* validateGlobalProjectGraph: no dependency of a Project Run on itself, and no cycle
Acyclic == \A S \in SUBSET Project \ {{}} : \E p \in S : \A q \in S : <<q, p>> \notin graph

-----------------------------------------------------------------------------
\* The refresh, step by step.  g is what the tables hold.

WithRun(g, p, status) ==
  [g EXCEPT !.run[p] = status,
            !.endings[p] = IF status \in TerminalRunStatuses THEN @ \cup {status} ELSE @]

Derived(g, p) == IF g.task[p] = "none" THEN "none" ELSE DeriveRunStatus({g.task[p]})

Trusted(g) == g      \* mutant: the Runs are taken as their rows say

\* refreshRun, for every Project Run
ChildrenRefreshed(g) ==
  LET news == {p \in Project : ~Ended(g, p) /\ Derived(g, p) # "none"}
  IN  [g EXCEPT !.run = [p \in Project |-> IF p \in news THEN Derived(g, p) ELSE @[p]],
                !.endings = [p \in Project |-> IF p \in news THEN @[p] \cup {Derived(g, p)} ELSE @[p]]]

Lenient(condition, status) ==      \* mutant: a cancelled producer satisfies its consumers
  CASE condition = "on_failure" -> IF status = "completed" THEN "skipped" ELSE "satisfied"
    [] condition = "all_success" -> IF status = "failed" THEN "failed" ELSE "satisfied"
    [] OTHER -> "satisfied"

\* What a dependency becomes when its producer has ended
Resolution(condition, status) ==
  CASE condition = "all_terminal" -> "satisfied"
    [] condition = "on_failure" -> IF status = "completed" THEN "skipped" ELSE "satisfied"
    [] condition = "all_success" -> IF status = "completed" THEN "satisfied" ELSE "failed"

Resolved(g) ==
  [g EXCEPT !.dep = [e \in graph |->
     IF @[e] = "pending" /\ Ended(g, e[1]) THEN Resolution(contract[e].condition, g.run[e[1]]) ELSE @[e]]]

\* The required outputs the producer's Task has not accounted for
Missing(g, e) ==
  \/ contract[e].needs = "declared" /\ g.task[e[1]] # "completed"
  \/ contract[e].needs = "undeclared"

\* materializeCrossProjectHandoff for the dependencies of ES: a handoff is prepared, validated
\* and received, or it is invalid and its dependency fails.
HandedOver(g, ES) ==
  LET due == {e \in ES : g.dep[e] = "satisfied"}
      bad == {e \in due : IF g.handoff[e] = "none" THEN Missing(g, e) ELSE ~g.intact[e]}
      good == {e \in due \ bad : g.handoff[e] \in {"none", "prepared"}}
  IN  [g EXCEPT !.handoff = [e \in graph |-> IF e \in bad THEN "invalid" ELSE IF e \in good THEN "received" ELSE @[e]],
                !.dep = [e \in graph |-> IF e \in bad THEN "failed" ELSE @[e]]]

\* The consumers whose dependencies are all resolved, and what becomes of them
Resolvable(g) ==
  {p \in Consumer : g.run[p] # "none" /\ ~Ended(g, p) /\ \A e \in Inbound(p) : g.dep[e] # "pending"}
Failing(g) == {p \in Resolvable(g) : \E e \in Inbound(p) : g.dep[e] = "failed"}
Skipping(g) == {p \in Resolvable(g) : g.run[p] = "preparing" /\ \A e \in Inbound(p) : g.dep[e] = "skipped"}
Releasing(g) ==
  {p \in Resolvable(g) : /\ g.run[p] = "preparing"
                         /\ \A e \in Inbound(p) : g.dep[e] = "satisfied" /\ g.handoff[e] = "received"}

\* updateTask refuses to skip a staged Task; releaseStagedRun refuses under a cancellation.
Throwing(g) ==
  {p \in Skipping(g) : g.task[p] = "staged" /\ ~LegalTask("staged", "skipped")}
  \cup {p \in Releasing(g) : g.requested}

Waiting == {"staged", "queued"}

Failed(g, p) ==
  WithRun([g EXCEPT !.task[p] = CASE @ \in Waiting -> "failed" [] @ = "running" -> "recovery_attention" [] OTHER -> @],
          p, "failed")
Skipped(g, p) == WithRun([g EXCEPT !.task[p] = IF @ = "staged" THEN "skipped" ELSE @], p, "completed")
Released(g, p) == WithRun([g EXCEPT !.task[p] = IF @ = "staged" THEN "queued" ELSE @], p, "running")

\* The consumers of S are served.
Served(g, S) ==
  LET failing == S \cap Failing(g)
      skipping == S \cap Skipping(g)
      releasing == S \cap Releasing(g)
      next(p) == CASE p \in failing -> Failed(g, p)
                   [] p \in skipping -> Skipped(g, p)
                   [] p \in releasing -> Released(g, p)
                   [] OTHER -> g
  IN  IF failing \cup skipping \cup releasing = {} THEN g
      ELSE [g EXCEPT !.task = [p \in Project |-> next(p).task[p]],
                     !.run = [p \in Project |-> next(p).run[p]],
                     !.endings = [p \in Project |-> next(p).endings[p]]]

Generous(g) ==      \* mutant: only a failed Project Run makes the Global Run fail
  CASE g.requested -> "cancelled"
    [] ~g.requested /\ (\E p \in Project : g.task[p] = "recovery_attention") -> "attention_required"
    [] OTHER -> IF \E p \in Project \ optional : g.run[p] = "failed" THEN "failed" ELSE "completed"

\* deriveGlobalRunStatus, when every Project Run has ended
Aggregate(g) ==
  CASE g.requested -> "cancelled"
    [] ~g.requested /\ (\E p \in Project : g.task[p] = "recovery_attention") -> "attention_required"
    [] OTHER -> IF \E p \in Project \ optional : g.run[p] # "completed" THEN "failed" ELSE "completed"

Previewed(g) ==      \* mutant: the result is projected by every refresh
  LET s == IF \A p \in Project : Ended(g, p) THEN Aggregate(g)
           ELSE IF \E p \in Project : g.run[p] = "running" THEN "running" ELSE "waiting"
      legal == LegalGlobalRun(g.status, s)
  IN  [rows |-> [g EXCEPT !.result = s, !.status = IF legal THEN s ELSE @], thrown |-> ~legal]

\* The result row is written before updateGlobalRun checks the transition.
Concluded(g) ==
  IF \A p \in Project : Ended(g, p)
  THEN LET s == Aggregate(g)
           legal == LegalGlobalRun(g.status, s)
       IN  [rows |-> [g EXCEPT !.result = s, !.status = IF legal THEN s ELSE @], thrown |-> ~legal]
  ELSE LET s == IF \E p \in Project : g.run[p] = "running" THEN "running" ELSE "waiting"
           legal == LegalGlobalRun(g.status, s)
       IN  [rows |-> [g EXCEPT !.status = IF legal THEN s ELSE @], thrown |-> ~legal]

\* The tables before the consumers are served, as a set of one: TLC evaluates a member once.
Settled(g0) == {HandedOver(d, graph) : d \in {Resolved(c) : c \in {ChildrenRefreshed(g0)}}}

\* Consumers come one after the other, until one of them throws.
Concluding(g) ==
  IF Throwing(g) = {} THEN {Concluded(h) : h \in {Served(g, Consumer)}}
  ELSE {[rows |-> Served(g, S), thrown |-> TRUE] : S \in SUBSET (Consumer \ Throwing(g))}

\* refreshGlobalRun
Refreshed(g) ==
  IF ~g.revision \/ Over(g) THEN {[rows |-> g, thrown |-> FALSE]}
  ELSE UNION {Concluding(h) : h \in Settled(g)}

\* refreshRun of one Project Run: the Global Run is refreshed only if its Run ends now.
RunRefreshed(g, p) ==
  IF Ended(g, p) \/ Derived(g, p) = "none" THEN {[rows |-> g, thrown |-> FALSE]}
  ELSE UNION {Refreshed(h) : h \in {WithRun(g, p, Derived(g, p))}}

\* What a refresh may leave behind when the process dies inside it: some of its writes,
\* a handoff not yet received, a consumer's Task released and not its Run, a result without a status
Interrupted(g0) ==
  LET prepared(d) == {[d EXCEPT !.handoff = [e \in graph |-> IF e \in E /\ HandedOver(d, E).handoff[e] = "received"
                                                                /\ @[e] = "none" THEN "prepared" ELSE @[e]]] :
                        E \in SUBSET graph}
      served(h) == {Served(h, S) : S \in SUBSET (Consumer \ Throwing(h))}
      queued(h) == {[h EXCEPT !.task = [p \in Project |-> IF p \in S THEN Released(h, p).task[p] ELSE @[p]]] :
                      S \in SUBSET (Releasing(h) \ Throwing(h))}
      projected(h) == {[k EXCEPT !.result = Concluded(k).rows.result] : k \in {Served(h, Consumer)}}
  IN  {g0} \cup (UNION {prepared(d) : d \in {Resolved(c) : c \in {ChildrenRefreshed(g0)}}})
      \cup (UNION {served(h) \cup queued(h) : h \in Settled(g0)})
      \cup (UNION {IF Throwing(h) = {} THEN projected(h) ELSE {} : h \in Settled(g0)})

-----------------------------------------------------------------------------
\* The daemon meets the outcome of a refresh: an error in a scheduled Task is not caught.
Meets(o) ==
  /\ rows' = o.rows
  /\ up' = ~o.thrown
  /\ call' = IF o.thrown THEN NoCall ELSE call

\* createGlobalRunGraph: one transaction
Materialized(g) ==
  [g EXCEPT !.status = "preparing", !.revision = TRUE,
            !.run = [p \in Project |-> "preparing"], !.task = [p \in Project |-> "staged"],
            !.dep = [e \in graph |-> "pending"]]

\* releaseGlobalRun releases the roots of R, then the Global Run is running.
RootsReleased(g, R) ==
  [g EXCEPT !.task = [p \in Project |-> IF p \in R THEN Released(g, p).task[p] ELSE @[p]],
            !.run = [p \in Project |-> IF p \in R THEN Released(g, p).run[p] ELSE @[p]]]
Started(g) == [RootsReleased(g, Project \ Consumer) EXCEPT !.status = "running"]

\* The contract of every Task of p stays within the roots, kinds, side effects, sandbox and modes of its manifest.
Authorized(p) == p \notin exceeds
AllAuthorized == \A p \in Project : Authorized(p)

\* prepare_global_run, also when a crash has left the row accepted
Prepare ==
  /\ up /\ rows.status \in {"none", "accepted"}
  /\ \/ rows' = [rows EXCEPT !.status = "failed"]      \* no such context, say
     \/ Acyclic /\ AllAuthorized /\ rows' = Started(Materialized(rows))
  /\ UNCHANGED <<graph, contract, optional, exceeds, call, alone, up, faults>>

PrepareTorn ==
  /\ up /\ rows.status \in {"none", "accepted"} /\ faults < MaxFaults /\ faults' = faults + 1
  /\ up' = FALSE /\ call' = NoCall
  /\ \/ \E s \in {"accepted", "resolving_context", "planning", "preparing"} : rows' = [rows EXCEPT !.status = s]
     \/ /\ Acyclic /\ AllAuthorized
        /\ \E R \in SUBSET (Project \ Consumer) : rows' = RootsReleased(Materialized(rows), R)
  /\ UNCHANGED <<graph, contract, optional, exceeds, alone>>

Ungated(g, p) == TRUE      \* mutant: a claim does not ask the gate

\* assertGlobalTaskGate, once the handoffs of p are materialized again
Gate(g, p) ==
  /\ g.status \in {"running", "waiting"} /\ ~g.requested
  /\ Authorized(p)
  /\ \A e \in Inbound(p) : g.dep[e] = "satisfied" /\ g.handoff[e] = "received"

\* #startScheduledTask: a Task the gate does not let through fails without an attempt.
Claim(p) ==
  /\ up /\ rows.task[p] = "queued"
  /\ \E g \in {HandedOver(rows, IF rows.status \in {"running", "waiting"} /\ ~rows.requested /\ Authorized(p)
                                THEN Inbound(p) ELSE {})} :
         IF Gate(g, p)
         THEN rows' = [g EXCEPT !.task[p] = "running"] /\ UNCHANGED <<up, call>>
         ELSE \E o \in RunRefreshed([g EXCEPT !.task[p] = "failed"], p) : Meets(o)
  /\ UNCHANGED <<graph, contract, optional, exceeds, alone, faults>>

\* The Task ends and afterTask refreshes its Run.
TaskEnds(p) ==
  /\ up /\ rows.task[p] = "running"
  /\ \E t \in {"completed", "failed", "recovery_attention"} :
       \E o \in RunRefreshed([rows EXCEPT !.task[p] = t], p) : Meets(o)
  /\ UNCHANGED <<graph, contract, optional, exceeds, alone, faults>>

\* ... and the process dies inside it.
TaskEndsTorn(p) ==
  /\ up /\ rows.task[p] = "running" /\ faults < MaxFaults /\ faults' = faults + 1
  /\ \E t \in {"completed", "failed", "recovery_attention"} :
       \E g \in {[rows EXCEPT !.task[p] = t]} : rows' \in {g} \cup Interrupted(ChildrenRefreshed(g))
  /\ up' = FALSE /\ call' = NoCall
  /\ UNCHANGED <<graph, contract, optional, exceeds, alone>>

\* refresh_global_run; its caller is told of an error.
Refresh ==
  /\ up /\ rows.revision
  /\ \E o \in Refreshed(rows) : rows' = o.rows
  /\ UNCHANGED <<graph, contract, optional, exceeds, call, alone, up, faults>>

\* repair_task_contract: the new contract may ask for more, or for less.
Repair(p) ==
  /\ up /\ faults < MaxFaults /\ faults' = faults + 1
  /\ rows.task[p] \in RepairableTaskStatuses
  /\ rows' = [rows EXCEPT !.task[p] = "queued", !.run[p] = "running"]
  /\ exceeds' \in {exceeds \cup {p}, exceeds \ {p}}
  /\ UNCHANGED <<graph, contract, optional, call, alone, up>>

\* A received handoff is modified in the database.
Tamper(e) ==
  /\ faults < MaxFaults /\ faults' = faults + 1
  /\ rows.handoff[e] \in {"prepared", "received"} /\ rows.intact[e]
  /\ rows' = [rows EXCEPT !.intact[e] = FALSE]
  /\ UNCHANGED <<graph, contract, optional, exceeds, call, alone, up>>

-----------------------------------------------------------------------------
\* Cancellation

\* cancelRun; its updateRun throws when the Run has ended meanwhile.
Cancelled(g, p) ==
  LET task == IF g.task[p] \in Waiting \cup {"running"} THEN "canceled" ELSE g.task[p]
  IN  WithRun([g EXCEPT !.task[p] = task], p, "cancelled")

\* cancelGlobalRun, with the Project Runs that have not ended
AllCancelled(g) ==
  LET live == {p \in Project : g.run[p] # "none" /\ ~Ended(g, p)}
  IN  [g EXCEPT !.status = "cancelled",
                !.run = [p \in Project |-> IF p \in live THEN "cancelled" ELSE @[p]],
                !.endings = [p \in Project |-> IF p \in live THEN @[p] \cup {"cancelled"} ELSE @[p]],
                !.task = [p \in Project |-> IF p \in live THEN Cancelled(g, p).task[p] ELSE @[p]]]

\* cancel_run on one Project Run: the Global Run is not refreshed.
CancelAlone(p) ==
  /\ up /\ faults < MaxFaults /\ faults' = faults + 1
  /\ rows.run[p] # "none" /\ ~Ended(rows, p)
  /\ rows' = Cancelled(rows, p)
  /\ alone' = TRUE
  /\ UNCHANGED <<graph, contract, optional, exceeds, call, up>>

\* cancel_global_run: the request is recorded before anything else.
RequestCancel ==
  /\ up /\ rows.status # "none" /\ ~Over(rows) /\ call.state \in {"none", "failed"}
  /\ rows' = [rows EXCEPT !.requested = TRUE]
  /\ call' = [state |-> "calling", left |-> IF rows.revision THEN Project ELSE {}, at |-> {}]
  /\ UNCHANGED <<graph, contract, optional, exceeds, alone, up, faults>>

Child(p) == up /\ call.state = "calling" /\ call.at = {} /\ p \in call.left

\* The next child is cancelled at once, or after the interrupt of its turn.
CancelChild(p) ==
  /\ Child(p)
  /\ IF ~Ended(rows, p) /\ rows.task[p] = "running"
     THEN call' = [call EXCEPT !.at = {p}] /\ UNCHANGED rows
     ELSE /\ call' = [call EXCEPT !.left = @ \ {p}]
          /\ rows' = IF Ended(rows, p) THEN rows ELSE Cancelled(rows, p)
  /\ UNCHANGED <<graph, contract, optional, exceeds, alone, up, faults>>

\* The interrupt is over; if the Run has ended meanwhile, cancelRun throws and the call with it.
CancelGoesOn(p) ==
  /\ up /\ call.at = {p}
  /\ IF Ended(rows, p)
     THEN call' = [NoCall EXCEPT !.state = "failed"] /\ UNCHANGED rows
     ELSE /\ call' = [call EXCEPT !.left = @ \ {p}, !.at = {}]
          /\ rows' = Cancelled(rows, p)
  /\ UNCHANGED <<graph, contract, optional, exceeds, alone, up, faults>>

CancelEnds ==
  /\ up /\ call.state = "calling" /\ call.left = {}
  /\ call' = NoCall
  /\ rows' = IF Over(rows) THEN rows ELSE [rows EXCEPT !.status = "cancelled"]
  /\ UNCHANGED <<graph, contract, optional, exceeds, alone, up, faults>>

-----------------------------------------------------------------------------
\* The daemon

Crash ==
  /\ up /\ faults < MaxFaults /\ faults' = faults + 1
  /\ up' = FALSE /\ call' = NoCall
  /\ UNCHANGED <<graph, contract, optional, rows, exceeds, alone>>

\* recoverInterruptedTasks queues a Task again, gives it up, or leaves it to its dispatch.
TasksRecovered(g) ==
  {[g EXCEPT !.task = [p \in Project |-> CASE @[p] = "running" /\ p \in Q -> "queued"
                                        [] @[p] = "running" /\ p \in A -> "recovery_attention"
                                        [] OTHER -> @[p]]] :
     Q \in SUBSET Project, A \in SUBSET Project}

Impatient(g) == {[rows |-> g, thrown |-> FALSE]}      \* mutant: a requested cancellation is not taken up again

Abandoned(g) == {[rows |-> AllCancelled(g), thrown |-> FALSE]}

\* recoverGlobalRuns
Recovered(g) ==
  CASE Over(g) \/ g.status = "none" -> {[rows |-> g, thrown |-> FALSE]}
    [] ~Over(g) /\ g.requested -> Abandoned(g)
    [] ~Over(g) /\ ~g.requested /\ g.status = "preparing" /\ g.revision -> {[rows |-> Started(g), thrown |-> FALSE]}
    [] ~g.requested /\ g.status \in {"running", "waiting"} -> Refreshed(g)
    [] ~Over(g) /\ ~g.requested /\ ~g.revision /\ g.status \in {"resolving_context", "planning", "preparing"} ->
         {[rows |-> [g EXCEPT !.status = "failed"], thrown |-> FALSE]}
    [] OTHER -> {[rows |-> g, thrown |-> FALSE]}

\* The constructor of the daemon; an error in it keeps the daemon down.
Restart ==
  /\ ~up
  /\ \E g \in TasksRecovered(rows) : \E o \in Recovered(g) : rows' = o.rows /\ up' = ~o.thrown
  /\ UNCHANGED <<graph, contract, optional, exceeds, call, alone, faults>>

Next ==
  \/ Prepare \/ PrepareTorn \/ Refresh \/ RequestCancel \/ CancelEnds \/ Crash \/ Restart
  \/ \E p \in Project : \/ Claim(p) \/ TaskEnds(p) \/ TaskEndsTorn(p) \/ Repair(p)
                        \/ CancelAlone(p) \/ CancelChild(p) \/ CancelGoesOn(p)
  \/ \E e \in graph : Tamper(e)

Spec == Init /\ [][Next]_vars

\* The scheduler polls, Tasks end, interrupts settle, and a client starts the daemon again.
\* Nobody has to refresh.
Fairness ==
  /\ WF_vars(Restart) /\ WF_vars(CancelEnds)
  /\ \A p \in Project : /\ WF_vars(Claim(p)) /\ WF_vars(TaskEnds(p))
                        /\ WF_vars(CancelChild(p)) /\ WF_vars(CancelGoesOn(p))

FairSpec == Spec /\ Fairness

-----------------------------------------------------------------------------
\* Properties

\* Under a Global Run that has ended no Task runs: not one repaired afterwards, released by a late
\* refresh or passed over by the cancellation (registry.js:1926, mcp-server.js:1530).
EndedIsQuiet == Over(rows) => \A p \in Project : rows.task[p] # "running"

\* A Task starts only within its manifest, when its producers have ended the way its dependencies ask
\* for and what they handed over has not been touched (registry.js:1608, 1926).
StartsAreJustified ==
  [][\A p \in Project : rows.task[p] # "running" /\ rows'.task[p] = "running" =>
       /\ p \notin exceeds
       /\ \A e \in Inbound(p) :
            /\ rows.intact[e]
            /\ CASE contract[e].condition = "all_success" -> "completed" \in rows.endings[e[1]]
                 [] contract[e].condition = "on_failure" -> rows.endings[e[1]] \cap {"failed", "cancelled"} # {}
                 [] OTHER -> rows.endings[e[1]] # {}]_vars

\* A Global Run never succeeds with a required Project Run that did not, or with one left in attention;
\* and the result row, projected before the status, does not announce another end over a crash in between
\* (registry.js:2144, 2108), as long as no Project Run is optional.
SuccessIsEarned ==
  /\ rows.status = "completed" =>
       \A p \in Project \ optional : "completed" \in rows.endings[p] /\ rows.task[p] # "recovery_attention"
  /\ optional = {} /\ Over(rows) => rows.result \in {"none", rows.status}

\* A cancellation converges over crashes, unless its call was answered with an error (registry.js:2165, 2189).
CancellationConverges == rows.requested ~> Over(rows) \/ call.state = "failed"

Flat == Consumer \cap {e[1] : e \in graph} = {}
NoFallback == \A e \in graph : contract[e].condition # "on_failure"

\* A Global Run ends by itself if no consumer is a producer and no dependency waits for a failure,
\* unless one of its Project Runs was cancelled alone (registry.js:2081).
FlatRunSettles == (rows.status = "running" /\ Flat /\ NoFallback) ~> Over(rows) \/ alone

-----------------------------------------------------------------------------
\* A promise that the code does not keep; no run checks it (Requests <- FallbackRequest refutes it).

\* docs/contracts/GLOBAL_RUNS.md:164: a skipped Project Run counts as a success where the policy of its
\* dependency allows it; so a consumer whose dependencies are all skipped ends.
SkippedRunsEnd ==
  \A p \in Project : (p \in Consumer /\ \A e \in Inbound(p) : rows.dep[e] = "skipped") ~> rows.run[p] = "completed" \/ Over(rows)
=============================================================================
