-------------------------- MODULE GlobalRunProofs ---------------------------
(***************************************************************************)
(* Theorems about GlobalRun for every value of its constants.              *)
(***************************************************************************)
EXTENDS GlobalRun, TLAPS

RunField == [Project -> {"none", "preparing", "running"} \cup TerminalRunStatuses]
TaskField == [Project -> TaskState]
EndingsField == [Project -> SUBSET TerminalRunStatuses]
DepField == [graph -> {"none", "pending", "satisfied", "skipped", "failed"}]
HandoffField == [graph -> {"none", "prepared", "received", "invalid"}]
IntactField == [graph -> BOOLEAN]
StatusField == GlobalRunStatuses \cup {"none"}
ResultField == {"none"} \cup TerminalGlobalRunStatuses

Rows == [status : StatusField, requested : BOOLEAN, revision : BOOLEAN, run : RunField, task : TaskField,
         endings : EndingsField, dep : DepField, handoff : HandoffField, intact : IntactField,
         result : ResultField]

EndedTask == {"completed", "failed", "recovery_attention", "canceled", "skipped"}

\* The Task of a Project Run fits its Run.  Inside a refresh that a crash has cut off the Task of a
\* consumer may be released before its Run is, and a Task may have ended before its Run has.
Fits(g, p) ==
  /\ g.run[p] = "none" => ~g.revision /\ g.task[p] = "none"
  /\ g.run[p] = "preparing" =>
       \/ g.task[p] = "staged"
       \/ /\ g.task[p] = "queued" /\ p \in Consumer
          /\ \A e \in Inbound(p) : g.dep[e] \in {"satisfied", "failed"}
  /\ g.run[p] = "running" => g.task[p] \in {"queued", "running"} \cup EndedTask
  /\ Ended(g, p) => g.task[p] \in EndedTask

Fresh(g) == \A p \in Project : g.run[p] = "running" => g.task[p] \in {"queued", "running"}
Tidy(g) == \A p \in Project : g.run[p] = "preparing" => g.task[p] = "staged"

\* What a consumer may rely on, given how its producer has ended so far.
Justified(g, e) ==
  CASE contract[e].condition = "all_success" -> "completed" \in g.endings[e[1]]
    [] contract[e].condition = "on_failure" -> g.endings[e[1]] \cap {"failed", "cancelled"} # {}
    [] OTHER -> g.endings[e[1]] # {}

Honest(g, e) ==
  /\ g.dep[e] = "satisfied" => Justified(g, e)
  /\ g.handoff[e] = "none" => g.intact[e]
  /\ g.handoff[e] = "invalid" => g.dep[e] = "failed"

\* The request is a graph of Project Runs.
Request ==
  /\ graph \subseteq Project \X Project
  /\ contract \in [graph -> [condition : Conditions, needs : Needs]]
  /\ optional \subseteq Project

Sound(g) ==
  /\ Request /\ g \in Rows
  /\ \A p \in Project : Fits(g, p) /\ (Ended(g, p) => g.run[p] \in g.endings[p])
  /\ \A e \in graph : Honest(g, e)

AllEnded(g) == \A p \in Project : Ended(g, p)
Live == {"running", "waiting"}

\* A result that is projected before its status is the one the status will get.
Foretold(g) ==
  optional = {} /\ g.result # "none" /\ ~Over(g) => AllEnded(g) /\ g.result = Aggregate(g)

\* The tables of a daemon that runs (u) or does not.
Good(g, u) ==
  /\ Sound(g)
  /\ u \/ Over(g) => Fresh(g) /\ Tidy(g)
  /\ g.status \in {"none", "accepted", "resolving_context", "planning"} => ~g.revision
  /\ g.status \in Live => g.revision
  /\ g.status = "none" => ~g.requested
  /\ ~g.revision => (\A p \in Project : g.run[p] = "none") /\ (\A e \in graph : g.handoff[e] = "none")
  /\ \A p \in Project : g.task[p] = "running" => g.status \in Live
  /\ g.revision /\ g.status = "preparing" =>
       ~u /\ Fresh(g) /\ Tidy(g) /\ \A p \in Project : g.run[p] \in {"preparing", "running"}
  /\ g.result # "none" => Over(g) \/ g.status \in Live
  /\ Foretold(g)
  /\ optional = {} /\ u /\ ~Over(g) => g.result = "none"
  /\ optional = {} /\ Over(g) => g.result \in {"none", g.status}
  /\ g.status = "completed" =>
       \A p \in Project \ optional : "completed" \in g.endings[p] /\ g.task[p] # "recovery_attention"
  /\ u /\ g.status = "waiting" /\ AllEnded(g) /\ ~g.requested => \E p \in Project : g.run[p] # "completed"

\* A cancellation that is called has been recorded, what it has passed does not run, and it dies with
\* the daemon.
CallIsAhead ==
  /\ call.state = "calling" => rows.requested /\ \A p \in Project \ call.left : rows.task[p] # "running"
  /\ call.left # {} \/ call.at # {} => rows.revision
  /\ ~up => call = NoCall

Frame ==
  /\ [graph |-> graph, contract |-> contract, optional |-> optional] \in Requests
  /\ exceeds \subseteq Project
  /\ call \in [state : {"none", "calling", "failed"}, left : SUBSET Project, at : SUBSET Project]
  /\ alone \in BOOLEAN /\ up \in BOOLEAN /\ faults \in 0..MaxFaults

IInv == Frame /\ Good(rows, up) /\ CallIsAhead

-----------------------------------------------------------------------------
\* What the operators of a refresh do

SameHead(g, h) ==
  /\ h.status = g.status /\ h.requested = g.requested /\ h.revision = g.revision /\ h.result = g.result

SameDeps(g, h) == h.dep = g.dep /\ h.handoff = g.handoff /\ h.intact = g.intact

SameRuns(g, h) == h.run = g.run /\ h.task = g.task /\ h.endings = g.endings

\* No Task starts.
StartsNothing(g, h) == \A p \in Project : h.task[p] = "running" => g.task[p] = "running"

LEMMA RowFacts ==
  ASSUME NEW g \in Rows
  PROVE  /\ g.run \in RunField /\ g.task \in TaskField /\ g.endings \in EndingsField
         /\ g.dep \in DepField /\ g.handoff \in HandoffField /\ g.intact \in IntactField
BY DEF Rows

LEMMA EdgeFacts ==
  ASSUME Request, NEW e \in graph
  PROVE  e[1] \in Project /\ e[2] \in Project /\ contract[e].condition \in Conditions /\ e[2] \in Consumer
BY DEF Request, Consumer

\* How a producer has ended is not forgotten.
LEMMA StillJustified ==
  ASSUME Request, NEW g \in Rows, NEW h \in Rows, \A p \in Project : g.endings[p] \subseteq h.endings[p],
         NEW e \in graph, Justified(g, e)
  PROVE  Justified(h, e)
<1>1. g.endings[e[1]] \subseteq h.endings[e[1]] /\ contract[e].condition \in Conditions
  BY EdgeFacts
<1> QED BY <1>1 DEF Justified, Conditions

\* A step that leaves the dependencies alone
LEMMA SoundMoves ==
  ASSUME NEW g, Sound(g), NEW h \in Rows, SameDeps(g, h),
         \A p \in Project : /\ Fits(h, p) /\ (Ended(h, p) => h.run[p] \in h.endings[p])
                            /\ g.endings[p] \subseteq h.endings[p]
  PROVE  Sound(h)
<1>1. ASSUME NEW e \in graph PROVE Honest(h, e)
  BY StillJustified DEF Sound, Honest, SameDeps
<1> QED BY <1>1 DEF Sound

LEMMA DerivedFacts ==
  ASSUME NEW g \in Rows, NEW p \in Project
  PROVE  /\ Derived(g, p) # "none" <=> g.task[p] \in EndedTask
         /\ Derived(g, p) # "none" => Derived(g, p) \in TerminalRunStatuses
<1>1. g.task[p] \in TaskState
  BY DEF Rows, TaskField
<1> QED BY <1>1 DEF Derived, DeriveRunStatus, TerminalTaskStatuses, SuccessfulTaskStatuses, FailedTaskStatuses,
                    TerminalRunStatuses, EndedTask, TaskState

LEMMA ChildrenRefreshedFacts ==
  ASSUME NEW g, Sound(g)
  PROVE  LET c == ChildrenRefreshed(g)
         IN  /\ Sound(c) /\ Fresh(c) /\ (Tidy(g) => Tidy(c))
             /\ SameHead(g, c) /\ SameDeps(g, c) /\ c.task = g.task
             /\ \A p \in Project : /\ c.run[p] = g.run[p] \/ (~Ended(g, p) /\ Ended(c, p))
                                   /\ g.endings[p] \subseteq c.endings[p]
             /\ Fresh(g) => c.run = g.run
<1> DEFINE news == {p \in Project : ~Ended(g, p) /\ Derived(g, p) # "none"}
           run == [p \in Project |-> IF p \in news THEN Derived(g, p) ELSE g.run[p]]
           endings == [p \in Project |-> IF p \in news THEN g.endings[p] \cup {Derived(g, p)} ELSE g.endings[p]]
           c == ChildrenRefreshed(g)
<1>1. g \in Rows
  BY DEF Sound
<1>2. run \in RunField /\ endings \in EndingsField
  BY <1>1, RowFacts, DerivedFacts DEF RunField, EndingsField
<1>3. c = [g EXCEPT !.task = g.task, !.run = run, !.endings = endings]
  BY <1>1 DEF ChildrenRefreshed, Rows
<1> HIDE DEF c, run, endings
<1>4. c \in Rows /\ c.run = run /\ c.task = g.task /\ c.endings = endings /\ SameHead(g, c) /\ SameDeps(g, c)
  BY <1>1, <1>2, <1>3, RowFacts DEF Rows, SameHead, SameDeps
<1> USE DEF run, endings
<1>5. ASSUME NEW p \in Project
      PROVE  /\ Fits(c, p) /\ (Ended(c, p) => c.run[p] \in c.endings[p]) /\ g.endings[p] \subseteq c.endings[p]
             /\ c.run[p] = "running" => c.task[p] \in {"queued", "running"}
             /\ g.run[p] # "running" => c.run[p] = g.run[p]
             /\ c.run[p] = g.run[p] \/ (~Ended(g, p) /\ Ended(c, p) /\ g.task[p] \in EndedTask)
  <2>1. Fits(g, p) /\ (Ended(g, p) => g.run[p] \in g.endings[p])
    BY DEF Sound
  <2>2. CASE p \in news
    <3>1. /\ c.run[p] = Derived(g, p) /\ c.run[p] \in TerminalRunStatuses
          /\ c.endings[p] = g.endings[p] \cup {Derived(g, p)} /\ g.task[p] \in EndedTask
      BY <1>1, <1>4, <2>2, DerivedFacts
    <3>2. g.run[p] \in {"none", "preparing", "running"} \cup TerminalRunStatuses
      BY <1>1, RowFacts DEF RunField
    <3> HIDE DEF news
    <3> QED BY <1>4, <2>1, <2>2, <3>1, <3>2 DEF Fits, Ended, EndedTask, TerminalRunStatuses, news
  <2>3. CASE p \notin news
    <3>1. c.run[p] = g.run[p] /\ c.endings[p] = g.endings[p] /\ (Ended(g, p) \/ g.task[p] \notin EndedTask)
      BY <1>1, <1>4, <2>3, DerivedFacts
    <3> HIDE DEF news
    <3> QED BY <1>4, <2>1, <3>1 DEF Fits, Ended, SameDeps, SameHead, TerminalRunStatuses
  <2> QED BY <2>2, <2>3
<1>6. Sound(c)
  BY <1>4, <1>5, SoundMoves
<1>7. Fresh(c) /\ (Tidy(g) => Tidy(c))
  BY <1>4, <1>5 DEF Fresh, Tidy, Ended, TerminalRunStatuses
<1>8. ASSUME Fresh(g) PROVE c.run = g.run
  <2>1. \A p \in Project : c.run[p] = g.run[p]
    BY <1>5, <1>8 DEF Fresh, EndedTask
  <2> QED BY <1>1, <1>4, <2>1, RowFacts DEF RunField
<1> QED BY <1>4, <1>5, <1>6, <1>7, <1>8 DEF c

LEMMA ResolvedFacts ==
  ASSUME NEW g, Sound(g)
  PROVE  LET d == Resolved(g)
         IN  /\ Sound(d) /\ SameHead(g, d) /\ SameRuns(g, d) /\ d.handoff = g.handoff /\ d.intact = g.intact
<1> DEFINE dep == [e \in graph |-> IF g.dep[e] = "pending" /\ Ended(g, e[1])
                                   THEN Resolution(contract[e].condition, g.run[e[1]]) ELSE g.dep[e]]
           d == Resolved(g)
<1>1. g \in Rows /\ Request
  BY DEF Sound
<1>2. ASSUME NEW e \in graph
      PROVE  /\ dep[e] = g.dep[e] \/ (g.dep[e] = "pending" /\ dep[e] \in {"satisfied", "skipped", "failed"})
             /\ dep[e] = "satisfied" => Justified(g, e)
  <2>1. e[1] \in Project /\ contract[e].condition \in Conditions
    BY <1>1, EdgeFacts
  <2>2. (Ended(g, e[1]) => g.run[e[1]] \in g.endings[e[1]]) /\ (g.dep[e] = "satisfied" => Justified(g, e))
    BY <2>1 DEF Sound, Honest
  <2> QED BY <2>1, <2>2 DEF Resolution, Justified, Conditions, Ended, TerminalRunStatuses
<1>3. dep \in DepField
  BY <1>1, <1>2, RowFacts DEF DepField
<1>4. d = [g EXCEPT !.handoff = g.handoff, !.dep = dep]
  BY <1>1 DEF Resolved, Rows
<1> HIDE DEF d, dep
<1>5. /\ d \in Rows /\ d.dep = dep /\ d.handoff = g.handoff /\ d.intact = g.intact
      /\ SameHead(g, d) /\ SameRuns(g, d)
  BY <1>1, <1>3, <1>4, RowFacts DEF Rows, SameHead, SameRuns
<1>6. \A p \in Project : Fits(d, p) /\ (Ended(d, p) => d.run[p] \in d.endings[p])
  BY <1>2, <1>5 DEF Sound, SameRuns, SameHead, Fits, Ended, Inbound
<1>7. \A e \in graph : Honest(d, e)
  BY <1>2, <1>5 DEF Sound, SameRuns, Honest, Justified
<1> QED BY <1>1, <1>5, <1>6, <1>7 DEF Sound, d

LEMMA HandedOverFacts ==
  ASSUME NEW g, Sound(g), NEW ES \in SUBSET graph
  PROVE  LET h == HandedOver(g, ES)
         IN  /\ Sound(h) /\ SameHead(g, h) /\ SameRuns(g, h) /\ h.intact = g.intact
             /\ \A e \in graph : h.handoff[e] = "none" => g.handoff[e] = "none"
             /\ \A e \in ES : h.dep[e] = "satisfied" => h.handoff[e] = "received" /\ h.intact[e]
<1> DEFINE due == {e \in ES : g.dep[e] = "satisfied"}
           bad == {e \in due : IF g.handoff[e] = "none" THEN Missing(g, e) ELSE ~g.intact[e]}
           good == {e \in due \ bad : g.handoff[e] \in {"none", "prepared"}}
           handoff == [e \in graph |-> IF e \in bad THEN "invalid" ELSE IF e \in good THEN "received" ELSE g.handoff[e]]
           dep == [e \in graph |-> IF e \in bad THEN "failed" ELSE g.dep[e]]
           h == HandedOver(g, ES)
<1>1. g \in Rows /\ Request
  BY DEF Sound
<1>2. handoff \in HandoffField /\ dep \in DepField
  BY <1>1, RowFacts DEF HandoffField, DepField
<1>3. h = [g EXCEPT !.handoff = handoff, !.dep = dep]
  BY <1>1 DEF HandedOver, Rows
<1> HIDE DEF h, dep, handoff
<1>4. /\ h \in Rows /\ h.dep = dep /\ h.handoff = handoff /\ h.intact = g.intact
      /\ SameHead(g, h) /\ SameRuns(g, h)
  BY <1>1, <1>2, <1>3, RowFacts DEF Rows, SameHead, SameRuns
<1> USE DEF dep, handoff
<1>5. ASSUME NEW e \in graph
      PROVE  /\ h.dep[e] = g.dep[e] \/ (g.dep[e] = "satisfied" /\ h.dep[e] = "failed")
             /\ h.handoff[e] = "none" => g.handoff[e] = "none"
             /\ h.handoff[e] = "invalid" => h.dep[e] = "failed"
             /\ e \in ES /\ h.dep[e] = "satisfied" => h.handoff[e] = "received" /\ h.intact[e]
  <2>1. Honest(g, e) /\ g.handoff[e] \in {"none", "prepared", "received", "invalid"}
    BY <1>1, RowFacts DEF Sound, HandoffField
  <2>2. CASE e \in bad
    BY <1>4, <2>2
  <2>3. CASE e \notin bad
    <3>1. h.dep[e] = g.dep[e] /\ h.handoff[e] = IF e \in good THEN "received" ELSE g.handoff[e]
      BY <1>4, <2>3
    <3> QED BY <1>4, <2>1, <2>3, <3>1 DEF Honest
  <2> QED BY <2>2, <2>3
<1> HIDE DEF dep, handoff
<1>6. \A p \in Project : Fits(h, p) /\ (Ended(h, p) => h.run[p] \in h.endings[p])
  BY <1>4, <1>5 DEF Sound, SameRuns, SameHead, Fits, Ended, Inbound
<1>7. \A e \in graph : Honest(h, e)
  BY <1>4, <1>5 DEF Sound, SameRuns, Honest, Justified
<1> QED BY <1>1, <1>4, <1>5, <1>6, <1>7 DEF Sound, h

\* A consumer that is served: it fails with its dependencies, or is released.
KeptAt(g, h, p) == h.run[p] = g.run[p] /\ h.task[p] = g.task[p] /\ h.endings[p] = g.endings[p]

FailedAt(g, h, p) ==
  /\ ~Ended(g, p) /\ h.run[p] = "failed" /\ h.task[p] \in EndedTask
  /\ h.endings[p] = g.endings[p] \cup {"failed"}

ReleasedAt(g, h, p) ==
  /\ g.run[p] = "preparing" /\ h.run[p] = "running" /\ h.task[p] = "queued" /\ h.endings[p] = g.endings[p]

ServedAt(g, h, p) == KeptAt(g, h, p) \/ FailedAt(g, h, p) \/ ReleasedAt(g, h, p)

LEMMA WithRunFacts ==
  ASSUME NEW g \in Rows, NEW p \in Project, NEW s \in {"preparing", "running"} \cup TerminalRunStatuses
  PROVE  LET h == WithRun(g, p, s)
         IN  /\ h \in Rows /\ h.task = g.task /\ SameHead(g, h) /\ SameDeps(g, h)
             /\ h.run = [g.run EXCEPT ![p] = s]
             /\ h.endings = [g.endings EXCEPT ![p] = IF s \in TerminalRunStatuses THEN @ \cup {s} ELSE @]
<1> DEFINE run == [g.run EXCEPT ![p] = s]
           endings == [g.endings EXCEPT ![p] = IF s \in TerminalRunStatuses THEN @ \cup {s} ELSE @]
           h == WithRun(g, p, s)
<1>1. run \in RunField /\ endings \in EndingsField
  BY RowFacts DEF RunField, EndingsField, TerminalRunStatuses
<1>2. h = [g EXCEPT !.run = run, !.endings = endings]
  BY DEF WithRun, Rows
<1> HIDE DEF h, run, endings
<1>3. /\ h \in Rows /\ h.task = g.task /\ SameHead(g, h) /\ SameDeps(g, h) /\ h.run = run /\ h.endings = endings
  BY <1>1, <1>2, RowFacts DEF Rows, SameHead, SameDeps
<1> QED BY <1>3 DEF h, run, endings

LEMMA WithTaskFacts ==
  ASSUME NEW g \in Rows, NEW p \in Project, NEW x \in TaskState
  PROVE  LET h == [g EXCEPT !.task[p] = x]
         IN  /\ h \in Rows /\ h.task = [g.task EXCEPT ![p] = x] /\ SameHead(g, h) /\ SameDeps(g, h)
             /\ h.run = g.run /\ h.endings = g.endings
<1> DEFINE task == [g.task EXCEPT ![p] = x]
           h == [g EXCEPT !.task[p] = x]
<1>1. task \in TaskField
  BY RowFacts DEF TaskField
<1>2. h = [g EXCEPT !.task = task]
  BY DEF Rows
<1> HIDE DEF h, task
<1>3. /\ h \in Rows /\ h.task = task /\ SameHead(g, h) /\ SameDeps(g, h)
      /\ h.run = g.run /\ h.endings = g.endings
  BY <1>1, <1>2, RowFacts DEF Rows, SameHead, SameDeps
<1> QED BY <1>3 DEF h, task

\* updateTask refuses to skip a staged Task, and a Task released before a crash is not skipped.
LEMMA SkippingThrows ==
  ASSUME NEW g, Sound(g)
  PROVE  Skipping(g) \subseteq Throwing(g)
<1> SUFFICES ASSUME NEW p \in Skipping(g) PROVE p \in Throwing(g)
  OBVIOUS
<1>1. p \in Consumer /\ g.run[p] = "preparing" /\ \A e \in Inbound(p) : g.dep[e] = "skipped"
  BY DEF Skipping, Resolvable
<1>2. PICK e \in graph : e[2] = p
  BY <1>1 DEF Consumer
<1>3. e \in Inbound(p) /\ p \in Project
  BY <1>2, EdgeFacts DEF Inbound, Sound
<1>4. g.task[p] = "staged"
  BY <1>1, <1>3 DEF Sound, Fits
<1> QED BY <1>4 DEF Throwing, LegalTask, TaskTransitions, SuccessfulTaskStatuses

LEMMA ServingFacts ==
  ASSUME NEW g, Sound(g), NEW p \in Consumer
  PROVE  /\ p \in Failing(g) => p \notin Skipping(g) /\ p \notin Releasing(g)
         /\ p \in Failing(g) => FailedAt(g, Failed(g, p), p)
         /\ p \in Releasing(g) => ReleasedAt(g, Released(g, p), p)
<1>1. g \in Rows /\ p \in Project /\ Fits(g, p)
  BY EdgeFacts DEF Sound, Consumer
<1>2. PICK e \in Inbound(p) : TRUE
  BY DEF Inbound, Consumer
<1>3. g.task[p] \in TaskState /\ g.run[p] \in {"none", "preparing", "running"} \cup TerminalRunStatuses
  BY <1>1, RowFacts DEF TaskField, RunField
<1>4. ASSUME p \in Failing(g) PROVE p \notin Skipping(g) /\ p \notin Releasing(g)
  BY <1>4 DEF Failing, Skipping, Releasing
<1>5. ASSUME p \in Failing(g) PROVE FailedAt(g, Failed(g, p), p)
  <2> DEFINE x == CASE g.task[p] \in Waiting -> "failed" [] g.task[p] = "running" -> "recovery_attention"
                    [] OTHER -> g.task[p]
             h == [g EXCEPT !.task[p] = x]
  <2>1. ~Ended(g, p) /\ g.run[p] # "none"
    BY <1>5 DEF Failing, Resolvable
  <2>2. x \in EndedTask /\ x \in TaskState
    BY <1>1, <1>3, <2>1 DEF Fits, Ended, EndedTask, Waiting, TaskState
  <2>3. Failed(g, p) = WithRun(h, p, "failed")
    BY <1>1 DEF Failed, Rows
  <2> HIDE DEF x, h
  <2>4. /\ h \in Rows /\ h.task = [g.task EXCEPT ![p] = x] /\ h.run = g.run /\ h.endings = g.endings
    BY <1>1, <2>2, WithTaskFacts DEF h
  <2>5. "failed" \in TerminalRunStatuses
    BY DEF TerminalRunStatuses
  <2>6. LET k == WithRun(h, p, "failed")
        IN  /\ k.task = h.task /\ k.run = [h.run EXCEPT ![p] = "failed"]
            /\ k.endings = [h.endings EXCEPT ![p] = IF "failed" \in TerminalRunStatuses THEN @ \cup {"failed"} ELSE @]
    BY <1>1, <2>4, <2>5, WithRunFacts
  <2>7. /\ g.task \in [Project -> TaskState] /\ g.run \in [Project -> {"none", "preparing", "running"} \cup TerminalRunStatuses]
        /\ g.endings \in [Project -> SUBSET TerminalRunStatuses]
    BY <1>1, RowFacts DEF TaskField, RunField, EndingsField
  <2> QED BY <1>1, <2>1, <2>2, <2>3, <2>4, <2>5, <2>6, <2>7 DEF FailedAt
<1>6. ASSUME p \in Releasing(g) PROVE ReleasedAt(g, Released(g, p), p)
  <2> DEFINE x == IF g.task[p] = "staged" THEN "queued" ELSE g.task[p]
             h == [g EXCEPT !.task[p] = x]
  <2>1. g.run[p] = "preparing"
    BY <1>6 DEF Releasing
  <2>2. x = "queued" /\ x \in TaskState
    BY <1>1, <1>3, <2>1 DEF Fits, TaskState
  <2>3. Released(g, p) = WithRun(h, p, "running")
    BY <1>1 DEF Released, Rows
  <2> HIDE DEF x, h
  <2>4. /\ h \in Rows /\ h.task = [g.task EXCEPT ![p] = x] /\ h.run = g.run /\ h.endings = g.endings
    BY <1>1, <2>2, WithTaskFacts DEF h
  <2>5. "running" \notin TerminalRunStatuses
    BY DEF TerminalRunStatuses
  <2>6. LET k == WithRun(h, p, "running")
        IN  /\ k.task = h.task /\ k.run = [h.run EXCEPT ![p] = "running"]
            /\ k.endings = [h.endings EXCEPT ![p] = IF "running" \in TerminalRunStatuses THEN @ \cup {"running"} ELSE @]
    BY <1>1, <2>4, WithRunFacts
  <2>7. /\ g.task \in [Project -> TaskState] /\ g.run \in [Project -> {"none", "preparing", "running"} \cup TerminalRunStatuses]
        /\ g.endings \in [Project -> SUBSET TerminalRunStatuses]
    BY <1>1, RowFacts DEF TaskField, RunField, EndingsField
  <2> QED BY <1>1, <2>1, <2>2, <2>3, <2>4, <2>5, <2>6, <2>7 DEF ReleasedAt
<1> QED BY <1>4, <1>5, <1>6

LEMMA ServedFacts ==
  ASSUME NEW g, Sound(g), NEW S \in SUBSET Consumer, S \cap Throwing(g) = {}
  PROVE  LET h == Served(g, S)
         IN  /\ h \in Rows /\ SameHead(g, h) /\ SameDeps(g, h)
             /\ \A p \in Project : ServedAt(g, h, p)
             /\ \A p \in S \cap (Failing(g) \cup Releasing(g)) : h.run[p] # "preparing"
             /\ \A p \in Project \ S : h.run[p] = g.run[p]
<1> DEFINE failing == S \cap Failing(g)
           skipping == S \cap Skipping(g)
           releasing == S \cap Releasing(g)
           next(p) == CASE p \in failing -> Failed(g, p)
                        [] p \in skipping -> Skipped(g, p)
                        [] p \in releasing -> Released(g, p)
                        [] OTHER -> g
           task == [p \in Project |-> next(p).task[p]]
           run == [p \in Project |-> next(p).run[p]]
           endings == [p \in Project |-> next(p).endings[p]]
           h == Served(g, S)
<1>1. g \in Rows /\ Request /\ Consumer \subseteq Project
  BY EdgeFacts DEF Sound, Consumer
<1>2. skipping = {}
  BY SkippingThrows
<1>3. ASSUME NEW p \in Project
      PROVE  /\ ServedAt(g, next(p), p)
             /\ p \in S \cap (Failing(g) \cup Releasing(g)) => next(p).run[p] # "preparing"
             /\ p \notin S => next(p).run[p] = g.run[p]
  <2>1. CASE p \in failing
    <3>1. next(p) = Failed(g, p) /\ FailedAt(g, Failed(g, p), p)
      BY <1>2, <2>1, ServingFacts
    <3> HIDE DEF next
    <3> QED BY <2>1, <3>1 DEF ServedAt, FailedAt
  <2>2. CASE p \in releasing /\ p \notin failing
    <3>1. next(p) = Released(g, p) /\ ReleasedAt(g, Released(g, p), p)
      BY <1>2, <2>2, ServingFacts
    <3> HIDE DEF next
    <3> QED BY <2>2, <3>1 DEF ServedAt, ReleasedAt
  <2>3. CASE p \notin releasing /\ p \notin failing
    <3>1. next(p) = g
      BY <1>2, <2>3
    <3> HIDE DEF next
    <3> QED BY <2>3, <3>1 DEF ServedAt, KeptAt
  <2> QED BY <2>1, <2>2, <2>3
<1>4. ASSUME NEW p \in Project
      PROVE  /\ next(p).run[p] \in {"none", "preparing", "running"} \cup TerminalRunStatuses
             /\ next(p).task[p] \in TaskState /\ next(p).endings[p] \in SUBSET TerminalRunStatuses
  <2>1. /\ g.task[p] \in TaskState /\ g.endings[p] \in SUBSET TerminalRunStatuses
        /\ g.run[p] \in {"none", "preparing", "running"} \cup TerminalRunStatuses
    BY <1>1, RowFacts DEF TaskField, RunField, EndingsField
  <2>2. ServedAt(g, next(p), p)
    BY <1>3
  <2> HIDE DEF next
  <2> QED BY <2>1, <2>2 DEF ServedAt, KeptAt, FailedAt, ReleasedAt, EndedTask, TaskState, TerminalRunStatuses
<1>5. task \in TaskField /\ run \in RunField /\ endings \in EndingsField
  BY <1>4 DEF TaskField, RunField, EndingsField
<1>6. CASE failing \cup skipping \cup releasing = {}
  <2>1. h = g
    BY <1>6 DEF Served
  <2>2. S \cap (Failing(g) \cup Releasing(g)) = {}
    BY <1>6
  <2> HIDE DEF h
  <2>3. \A p \in Project : ServedAt(g, h, p)
    BY <2>1 DEF ServedAt, KeptAt
  <2> QED BY <1>1, <2>1, <2>2, <2>3 DEF SameHead, SameDeps, h
<1>7. CASE failing \cup skipping \cup releasing # {}
  <2>1. h = [g EXCEPT !.task = task, !.run = run, !.endings = endings]
    BY <1>7 DEF Served
  <2> HIDE DEF h, task, run, endings
  <2>2. h \in Rows /\ SameHead(g, h) /\ SameDeps(g, h) /\ h.task = task /\ h.run = run /\ h.endings = endings
    BY <1>1, <1>5, <2>1, RowFacts DEF Rows, SameHead, SameDeps
  <2>3. \A p \in Project : /\ h.task[p] = next(p).task[p] /\ h.run[p] = next(p).run[p]
                           /\ h.endings[p] = next(p).endings[p]
    BY <2>2 DEF task, run, endings
  <2> HIDE DEF next
  <2>4. \A p \in Project : ServedAt(g, h, p)
    BY <1>3, <2>3 DEF ServedAt, KeptAt, FailedAt, ReleasedAt
  <2> QED BY <1>1, <1>3, <2>2, <2>3, <2>4 DEF h
<1> QED BY <1>6, <1>7

\* Serving leaves the tables sound, and starts and ends Runs with their Tasks.
LEMMA ServedIsSound ==
  ASSUME NEW g, Sound(g), Fresh(g), NEW S \in SUBSET Consumer, S \cap Throwing(g) = {}
  PROVE  LET h == Served(g, S)
         IN  Sound(h) /\ Fresh(h) /\ (Tidy(g) => Tidy(h))
<1> DEFINE h == Served(g, S)
<1>1. h \in Rows /\ SameDeps(g, h) /\ SameHead(g, h) /\ \A p \in Project : ServedAt(g, h, p)
  BY ServedFacts
<1> HIDE DEF h
<1>2. ASSUME NEW p \in Project
      PROVE  /\ Fits(h, p) /\ (Ended(h, p) => h.run[p] \in h.endings[p]) /\ g.endings[p] \subseteq h.endings[p]
             /\ h.run[p] = "running" => h.task[p] \in {"queued", "running"}
             /\ h.run[p] = "preparing" => g.run[p] = "preparing" /\ h.task[p] = g.task[p]
  <2>1. ServedAt(g, h, p) /\ Fits(g, p) /\ (Ended(g, p) => g.run[p] \in g.endings[p])
    BY <1>1 DEF Sound
  <2>2. g.run[p] = "running" => g.task[p] \in {"queued", "running"}
    BY DEF Fresh
  <2>3. CASE KeptAt(g, h, p)
    BY <1>1, <2>1, <2>2, <2>3 DEF KeptAt, Fits, Ended, SameDeps, SameHead
  <2>4. CASE FailedAt(g, h, p)
    BY <2>1, <2>4 DEF FailedAt, Fits, Ended, TerminalRunStatuses
  <2>5. CASE ReleasedAt(g, h, p)
    BY <2>1, <2>5 DEF ReleasedAt, Fits, Ended, TerminalRunStatuses
  <2> QED BY <2>1, <2>3, <2>4, <2>5 DEF ServedAt
<1>3. Sound(h)
  BY <1>1, <1>2, SoundMoves
<1>4. Fresh(h) /\ (Tidy(g) => Tidy(h))
  BY <1>2 DEF Fresh, Tidy
<1> QED BY <1>3, <1>4 DEF h

\* What is due has been handed over.
Delivered(g) == \A e \in graph : g.dep[e] = "satisfied" => g.handoff[e] = "received"

LEMMA AllServedIsTidy ==
  ASSUME NEW g, Sound(g), Delivered(g), Throwing(g) = {}
  PROVE  Tidy(Served(g, Consumer))
<1> DEFINE h == Served(g, Consumer)
<1>1. /\ \A p \in Project : ServedAt(g, h, p)
      /\ \A p \in Consumer \cap (Failing(g) \cup Releasing(g)) : h.run[p] # "preparing"
  BY ServedFacts
<1> HIDE DEF h
<1>2. ASSUME NEW p \in Project, h.run[p] = "preparing" PROVE h.task[p] = "staged"
  <2>1. KeptAt(g, h, p) /\ g.run[p] = "preparing" /\ h.task[p] = g.task[p]
    BY <1>1, <1>2 DEF ServedAt, KeptAt, FailedAt, ReleasedAt
  <2>2. CASE g.task[p] # "staged"
    <3>1. p \in Consumer /\ \A e \in Inbound(p) : g.dep[e] \in {"satisfied", "failed"}
      BY <2>1, <2>2 DEF Sound, Fits
    <3>2. p \in Resolvable(g)
      BY <2>1, <3>1 DEF Resolvable, Ended, TerminalRunStatuses
    <3>3. p \in Failing(g) \cup Releasing(g)
      BY <2>1, <3>1, <3>2 DEF Failing, Releasing, Delivered, Inbound
    <3> QED BY <1>1, <1>2, <3>1, <3>3
  <2> QED BY <2>1, <2>2
<1> QED BY <1>2 DEF Tidy, h

\* The tables before the consumers are served.
LEMMA SettledFacts ==
  ASSUME NEW g, Sound(g), NEW h \in Settled(g)
  PROVE  /\ Sound(h) /\ Fresh(h) /\ Delivered(h) /\ (Tidy(g) => Tidy(h))
         /\ SameHead(g, h) /\ h.task = g.task
         /\ \A p \in Project : h.run[p] = g.run[p] \/ (~Ended(g, p) /\ Ended(h, p))
         /\ Fresh(g) => h.run = g.run
<1> DEFINE c == ChildrenRefreshed(g)
           d == Resolved(c)
<1>1. h = HandedOver(d, graph)
  BY DEF Settled
<1>2. /\ Sound(c) /\ Fresh(c) /\ (Tidy(g) => Tidy(c)) /\ SameHead(g, c) /\ c.task = g.task
      /\ \A p \in Project : c.run[p] = g.run[p] \/ (~Ended(g, p) /\ Ended(c, p))
      /\ Fresh(g) => c.run = g.run
  BY ChildrenRefreshedFacts
<1> HIDE DEF c
<1>3. Sound(d) /\ SameHead(c, d) /\ SameRuns(c, d)
  BY <1>2, ResolvedFacts
<1> HIDE DEF d
<1>4. graph \in SUBSET graph
  OBVIOUS
<1>5. Sound(h) /\ SameHead(d, h) /\ SameRuns(d, h) /\ Delivered(h)
  BY <1>1, <1>3, <1>4, HandedOverFacts DEF Delivered
<1> QED BY <1>2, <1>3, <1>5 DEF SameHead, SameRuns, Fresh, Tidy, Ended

LEMMA AggregateFacts ==
  ASSUME NEW g
  PROVE  /\ Aggregate(g) \in TerminalGlobalRunStatuses
         /\ g.requested => Aggregate(g) = "cancelled"
         /\ Aggregate(g) = "completed" =>
              /\ \A p \in Project \ optional : g.run[p] = "completed"
              /\ \A p \in Project : g.task[p] # "recovery_attention"
BY DEF Aggregate, TerminalGlobalRunStatuses

LEMMA SameAggregate ==
  ASSUME NEW g, NEW h, h.run = g.run, h.task = g.task, h.requested = g.requested
  PROVE  Aggregate(h) = Aggregate(g) /\ (AllEnded(h) <=> AllEnded(g))
BY DEF Aggregate, AllEnded, Ended

LEMMA SoundHead ==
  ASSUME NEW g, Sound(g), NEW h \in Rows, SameRuns(g, h), SameDeps(g, h), h.revision = g.revision
  PROVE  Sound(h) /\ (Fresh(g) => Fresh(h)) /\ (Tidy(g) => Tidy(h))
<1>1. \A p \in Project : /\ Fits(h, p) /\ (Ended(h, p) => h.run[p] \in h.endings[p])
                         /\ g.endings[p] \subseteq h.endings[p]
  BY DEF Sound, SameRuns, SameDeps, Fits, Ended
<1> QED BY <1>1, SoundMoves DEF SameRuns, Fresh, Tidy

LEMMA ConcludedFacts ==
  ASSUME NEW g \in Rows, g.status \in Live
  PROVE  LET h == Concluded(g).rows
             thrown == Concluded(g).thrown
         IN  /\ h \in Rows /\ SameRuns(g, h) /\ SameDeps(g, h) /\ h.requested = g.requested /\ h.revision = g.revision
             /\ thrown \in BOOLEAN
             /\ ~AllEnded(g) => ~thrown /\ h.status \in Live /\ h.result = g.result
             /\ AllEnded(g) => h.result = Aggregate(g)
             /\ AllEnded(g) /\ ~thrown => h.status = Aggregate(g)
             /\ AllEnded(g) /\ thrown => h.status = "waiting" /\ g.status = "waiting" /\ Aggregate(g) = "completed"
<1> DEFINE h == Concluded(g).rows
           thrown == Concluded(g).thrown
<1>1. CASE AllEnded(g)
  <2> DEFINE s == Aggregate(g)
             legal == LegalGlobalRun(g.status, s)
             status == IF legal THEN s ELSE g.status
  <2>1. s \in TerminalGlobalRunStatuses
    BY AggregateFacts
  <2>2. ~legal => g.status = "waiting" /\ s = "completed"
    BY <2>1 DEF LegalGlobalRun, GlobalRunTransitions, TerminalGlobalRunStatuses, Live
  <2>3. h = [g EXCEPT !.result = s, !.status = status] /\ thrown = ~legal
    BY <1>1 DEF Concluded, AllEnded
  <2>4. status \in StatusField /\ s \in ResultField
    BY <2>1 DEF StatusField, ResultField, GlobalRunStatuses, Live
  <2> HIDE DEF h, thrown, s, legal
  <2>5. /\ h \in Rows /\ SameRuns(g, h) /\ SameDeps(g, h) /\ h.requested = g.requested /\ h.revision = g.revision
        /\ h.status = status /\ h.result = s
    BY <2>3, <2>4 DEF Rows, SameRuns, SameDeps
  <2> QED BY <1>1, <2>2, <2>3, <2>5 DEF h, thrown, s
<1>2. CASE ~AllEnded(g)
  <2> DEFINE s == IF \E p \in Project : g.run[p] = "running" THEN "running" ELSE "waiting"
             legal == LegalGlobalRun(g.status, s)
  <2>1. s \in Live /\ legal
    BY DEF LegalGlobalRun, GlobalRunTransitions, Live
  <2>2. h = [g EXCEPT !.status = IF legal THEN s ELSE @] /\ thrown = ~legal
    BY <1>2 DEF Concluded, AllEnded
  <2>3. s \in StatusField
    BY <2>1 DEF StatusField, GlobalRunStatuses, Live
  <2> HIDE DEF h, thrown, s, legal
  <2>4. /\ h \in Rows /\ SameRuns(g, h) /\ SameDeps(g, h) /\ h.requested = g.requested /\ h.revision = g.revision
        /\ h.status = s /\ h.result = g.result
    BY <2>1, <2>2, <2>3 DEF Rows, SameRuns, SameDeps
  <2> QED BY <1>2, <2>1, <2>2, <2>4 DEF h, thrown
<1> QED BY <1>1, <1>2

LEMMA RefreshedFacts ==
  ASSUME NEW g, g.revision, ~Over(g), NEW o \in Refreshed(g)
  PROVE  \E h \in Settled(g) :
           \/ Throwing(h) = {} /\ o = Concluded(Served(h, Consumer))
           \/ /\ Throwing(h) # {}
              /\ \E S \in SUBSET (Consumer \ Throwing(h)) : o = [rows |-> Served(h, S), thrown |-> TRUE]
<1>1. PICK h \in Settled(g) : o \in Concluding(h)
  BY DEF Refreshed
<1>2. CASE Throwing(h) = {}
  BY <1>1, <1>2 DEF Concluding
<1>3. CASE Throwing(h) # {}
  BY <1>1, <1>3 DEF Concluding
<1> QED BY <1>1, <1>2, <1>3

\* A refresh before its conclusion
LEMMA ServedSettled ==
  ASSUME NEW g, Sound(g), NEW h \in Settled(g), NEW S \in SUBSET Consumer, S \cap Throwing(h) = {}
  PROVE  LET k == Served(h, S)
         IN  /\ Sound(k) /\ Fresh(k) /\ (Tidy(g) => Tidy(k)) /\ SameHead(g, k)
             /\ Throwing(h) = {} /\ S = Consumer => Tidy(k)
             /\ \A p \in Project : k.task[p] = "running" => g.task[p] = "running"
             /\ AllEnded(g) => k.run = g.run /\ k.task = g.task /\ Throwing(h) = {}
             /\ Fresh(g) => \A p \in Project : ~Ended(g, p) /\ Ended(k, p) => k.run[p] = "failed"
             /\ \A p \in Throwing(h) : p \in Project /\ ~Ended(k, p)
<1> DEFINE k == Served(h, S)
<1>1. /\ Sound(h) /\ Fresh(h) /\ Delivered(h) /\ (Tidy(g) => Tidy(h)) /\ SameHead(g, h) /\ h.task = g.task
      /\ \A p \in Project : h.run[p] = g.run[p] \/ (~Ended(g, p) /\ Ended(h, p))
      /\ Fresh(g) => h.run = g.run
  BY SettledFacts
<1>2. /\ k \in Rows /\ SameHead(h, k) /\ SameDeps(h, k)
      /\ \A p \in Project : ServedAt(h, k, p)
      /\ \A p \in Project \ S : k.run[p] = h.run[p]
  BY <1>1, ServedFacts
<1>3. Sound(k) /\ Fresh(k) /\ (Tidy(h) => Tidy(k))
  BY <1>1, ServedIsSound
<1>4. Throwing(h) = {} /\ S = Consumer => Tidy(k)
  BY <1>1, AllServedIsTidy
<1> HIDE DEF k
<1>5. \A p \in Project : k.task[p] = "running" => g.task[p] = "running"
  BY <1>1, <1>2 DEF ServedAt, KeptAt, FailedAt, ReleasedAt, EndedTask
<1>6. \A p \in Throwing(h) : p \in Project /\ ~Ended(h, p) /\ p \notin S
  <2>1. \A p \in Throwing(h) : p \in Consumer /\ ~Ended(h, p) /\ p \notin S
    BY DEF Throwing, Skipping, Releasing, Resolvable
  <2> QED BY <1>1, <2>1, EdgeFacts DEF Consumer, Sound
<1>7. ASSUME AllEnded(g) PROVE k.run = g.run /\ k.task = g.task /\ Throwing(h) = {}
  <2>1. \A p \in Project : h.run[p] = g.run[p] /\ Ended(h, p)
    BY <1>1, <1>7 DEF AllEnded, Ended
  <2>2. \A p \in Project : k.run[p] = g.run[p] /\ k.task[p] = g.task[p]
    BY <1>1, <1>2, <2>1 DEF ServedAt, KeptAt, FailedAt, ReleasedAt, Ended, TerminalRunStatuses
  <2>3. /\ k.run \in RunField /\ g.run \in RunField /\ k.task \in TaskField /\ g.task \in TaskField
    BY <1>2, RowFacts DEF Sound
  <2>4. Throwing(h) = {}
    BY <1>6, <2>1
  <2> QED BY <2>2, <2>3, <2>4 DEF RunField, TaskField
<1>8. ASSUME Fresh(g), NEW p \in Project, ~Ended(g, p), Ended(k, p) PROVE k.run[p] = "failed"
  BY <1>1, <1>2, <1>8 DEF ServedAt, KeptAt, FailedAt, ReleasedAt, Ended, TerminalRunStatuses
<1>9. \A p \in Throwing(h) : p \in Project /\ ~Ended(k, p)
  BY <1>2, <1>6 DEF Ended
<1>10. SameHead(g, k)
  BY <1>1, <1>2 DEF SameHead
<1> QED BY <1>1, <1>3, <1>4, <1>5, <1>7, <1>8, <1>9, <1>10 DEF k

\* The tables a refresh works on
Ready(g) == Sound(g) /\ g.revision /\ g.status \in Live /\ Foretold(g)

\* Whoever calls a refresh meets its outcome: an error ends the process.
LEMMA RefreshMet ==
  ASSUME NEW g, Ready(g), NEW o \in Refreshed(g)
  PROVE  /\ Good(o.rows, ~o.thrown) /\ o.thrown \in BOOLEAN /\ o.rows.requested = g.requested /\ o.rows.revision = g.revision
         /\ \A p \in Project : o.rows.task[p] = "running" => g.task[p] = "running"
<1>1. ~Over(g) /\ g.revision /\ Sound(g) /\ g.status \in Live /\ Foretold(g)
  BY DEF Ready, Over, Live, TerminalGlobalRunStatuses
<1>2. PICK h \in Settled(g) :
        \/ Throwing(h) = {} /\ o = Concluded(Served(h, Consumer))
        \/ /\ Throwing(h) # {}
           /\ \E S \in SUBSET (Consumer \ Throwing(h)) : o = [rows |-> Served(h, S), thrown |-> TRUE]
  BY <1>1, RefreshedFacts
<1>3. CASE Throwing(h) = {} /\ o = Concluded(Served(h, Consumer))
  <2> DEFINE k == Served(h, Consumer)
  <2>1. /\ Sound(k) /\ Fresh(k) /\ Tidy(k) /\ SameHead(g, k)
        /\ \A p \in Project : k.task[p] = "running" => g.task[p] = "running"
        /\ AllEnded(g) => k.run = g.run /\ k.task = g.task
    BY <1>1, <1>3, ServedSettled
  <2>2. o = Concluded(k)
    BY <1>3
  <2> HIDE DEF k
  <2>3. k \in Rows /\ k.status \in Live /\ k.revision /\ k.requested = g.requested /\ k.result = g.result
    BY <1>1, <2>1 DEF Sound, SameHead
  <2> DEFINE r == o.rows
  <2>4. /\ r \in Rows /\ SameRuns(k, r) /\ SameDeps(k, r) /\ r.requested = k.requested /\ r.revision = k.revision
        /\ o.thrown \in BOOLEAN
        /\ ~AllEnded(k) => ~o.thrown /\ r.status \in Live /\ r.result = k.result
        /\ AllEnded(k) => r.result = Aggregate(k)
        /\ AllEnded(k) /\ ~o.thrown => r.status = Aggregate(k)
        /\ AllEnded(k) /\ o.thrown => r.status = "waiting" /\ k.status = "waiting" /\ Aggregate(k) = "completed"
    BY <2>2, <2>3, ConcludedFacts
  <2> HIDE DEF r
  <2>5. Sound(r) /\ Fresh(r) /\ Tidy(r)
    BY <2>1, <2>4, SoundHead
  <2>6. Aggregate(r) = Aggregate(k) /\ (AllEnded(r) <=> AllEnded(k)) /\ Aggregate(k) \in TerminalGlobalRunStatuses
    BY <2>4, SameAggregate, AggregateFacts DEF SameRuns
  <2>7. ~AllEnded(k) /\ optional = {} => r.result = "none"
    BY <1>1, <2>1, <2>3, <2>4, SameAggregate DEF Foretold
  <2>8. r.status \in Live \cup TerminalGlobalRunStatuses
    BY <2>4, <2>6 DEF Live
  <2>9. \A p \in Project : r.task[p] = "running" => r.status \in Live
    BY <2>4, <2>5, <2>6 DEF Sound, Fits, AllEnded, EndedTask
  <2>10. Foretold(r)
    BY <2>4, <2>6, <2>7 DEF Foretold
  <2>11. optional = {} /\ ~o.thrown /\ ~Over(r) => r.result = "none"
    BY <2>4, <2>6, <2>7 DEF Over
  <2>12. optional = {} /\ Over(r) => r.result \in {"none", r.status}
    BY <2>4, <2>6, <2>7 DEF Over, TerminalGlobalRunStatuses
  <2>13. r.status = "completed" =>
           \A p \in Project \ optional : "completed" \in r.endings[p] /\ r.task[p] # "recovery_attention"
    <3>1. SUFFICES ASSUME r.status = "completed", NEW p \in Project \ optional
                   PROVE  "completed" \in r.endings[p] /\ r.task[p] # "recovery_attention"
      OBVIOUS
    <3>2. AllEnded(k) /\ Aggregate(r) = "completed"
      BY <2>4, <2>6, <3>1 DEF Live
    <3>3. r.run[p] = "completed" /\ r.task[p] # "recovery_attention"
      BY <3>2, AggregateFacts
    <3> QED BY <2>5, <3>3 DEF Sound, Ended, TerminalRunStatuses
  <2>14. ~o.thrown /\ r.status = "waiting" /\ AllEnded(r) /\ ~r.requested => \E p \in Project : r.run[p] # "completed"
    BY <2>4, <2>6 DEF TerminalGlobalRunStatuses
  <2>15. r.revision /\ r.status \notin {"none", "accepted", "resolving_context", "planning", "preparing"}
    BY <2>3, <2>4, <2>8 DEF Live, TerminalGlobalRunStatuses
  <2>16. r.result # "none" => Over(r) \/ r.status \in Live
    BY <2>8 DEF Over
  <2>17. Good(r, ~o.thrown)
    BY <2>5, <2>9, <2>10, <2>11, <2>12, <2>13, <2>14, <2>15, <2>16 DEF Good
  <2> QED BY <1>1, <2>1, <2>3, <2>4, <2>17 DEF SameRuns, r
<1>4. ASSUME Throwing(h) # {}, NEW S \in SUBSET (Consumer \ Throwing(h)), o = [rows |-> Served(h, S), thrown |-> TRUE]
      PROVE  /\ Good(o.rows, ~o.thrown) /\ o.thrown \in BOOLEAN /\ o.rows.requested = g.requested /\ o.rows.revision = g.revision
             /\ \A p \in Project : o.rows.task[p] = "running" => g.task[p] = "running"
  <2> DEFINE r == o.rows
  <2>1. r = Served(h, S) /\ o.thrown = TRUE /\ S \in SUBSET Consumer /\ S \cap Throwing(h) = {}
    BY <1>4
  <2>2. /\ Sound(r) /\ SameHead(g, r) /\ ~AllEnded(g)
        /\ \A p \in Project : r.task[p] = "running" => g.task[p] = "running"
    BY <1>1, <1>4, <2>1, ServedSettled
  <2> HIDE DEF r
  <2>3. r.status \in Live /\ r.revision /\ r.requested = g.requested /\ ~Over(r) /\ (optional = {} => r.result = "none")
    BY <1>1, <2>2 DEF SameHead, Foretold, Over, Live, TerminalGlobalRunStatuses
  <2>4. Good(r, FALSE)
    BY <2>2, <2>3 DEF Good, Foretold, Live
  <2> QED BY <1>1, <2>1, <2>2, <2>3, <2>4 DEF r
<1> QED BY <1>2, <1>3, <1>4

LEMMA LiveIsReady ==
  ASSUME NEW g, Good(g, TRUE), g.revision, ~Over(g)
  PROVE  Ready(g)
<1>1. Sound(g) /\ g.status \in StatusField /\ Foretold(g)
  BY DEF Good, Sound, Rows
<1>2. g.status \notin {"none", "accepted", "resolving_context", "planning", "preparing"}
  BY DEF Good
<1> QED BY <1>1, <1>2 DEF Ready, Over, Live, StatusField, GlobalRunStatuses

\* A caller that is told of an error goes on with the tables the refresh has left.
LEMMA RefreshSurvived ==
  ASSUME NEW g, Good(g, TRUE), g.revision, NEW o \in Refreshed(g)
  PROVE  /\ Good(o.rows, TRUE) /\ o.rows.requested = g.requested /\ o.rows.revision = g.revision
         /\ \A p \in Project : o.rows.task[p] = "running" => g.task[p] = "running"
<1>1. CASE Over(g)
  <2>1. o = [rows |-> g, thrown |-> FALSE]
    BY <1>1 DEF Refreshed
  <2>2. o.rows = g
    BY <2>1
  <2> QED BY <2>2
<1>2. CASE ~Over(g)
  <2>1. Ready(g) /\ Fresh(g) /\ Tidy(g) /\ Sound(g) /\ (optional = {} => g.result = "none")
    BY <1>2, LiveIsReady DEF Good
  <2>2. /\ Good(o.rows, ~o.thrown) /\ o.thrown \in BOOLEAN /\ o.rows.requested = g.requested /\ o.rows.revision = g.revision
        /\ \A p \in Project : o.rows.task[p] = "running" => g.task[p] = "running"
    BY <2>1, RefreshMet
  <2>3. CASE ~o.thrown
    BY <2>2, <2>3
  <2>4. CASE o.thrown
    <3> DEFINE r == o.rows
    <3>1. PICK h \in Settled(g) :
            \/ Throwing(h) = {} /\ o = Concluded(Served(h, Consumer))
            \/ /\ Throwing(h) # {}
               /\ \E S \in SUBSET (Consumer \ Throwing(h)) : o = [rows |-> Served(h, S), thrown |-> TRUE]
      BY <1>2, RefreshedFacts
    <3>2. CASE Throwing(h) = {} /\ o = Concluded(Served(h, Consumer))
      <4> DEFINE k == Served(h, Consumer)
      <4>1. /\ Sound(k) /\ Fresh(k) /\ Tidy(k) /\ SameHead(g, k)
            /\ AllEnded(g) => k.run = g.run /\ k.task = g.task
            /\ \A p \in Project : ~Ended(g, p) /\ Ended(k, p) => k.run[p] = "failed"
        BY <2>1, <3>2, ServedSettled
      <4>2. o = Concluded(k)
        BY <3>2
      <4> HIDE DEF k
      <4>3. k \in Rows /\ k.status \in Live
        BY <2>1, <4>1 DEF Sound, SameHead, Ready
      <4>4. /\ r \in Rows /\ SameRuns(k, r) /\ SameDeps(k, r) /\ r.requested = k.requested /\ r.revision = k.revision
            /\ ~AllEnded(k) => ~o.thrown
            /\ AllEnded(k) /\ o.thrown => r.status = "waiting" /\ k.status = "waiting" /\ Aggregate(k) = "completed"
        BY <4>2, <4>3, ConcludedFacts
      <4> HIDE DEF r
      <4>5. Sound(r) /\ Fresh(r) /\ Tidy(r)
        BY <4>1, <4>4, SoundHead
      <4>6. /\ AllEnded(k) /\ k.status = "waiting" /\ Aggregate(k) = "completed" /\ r.status = "waiting"
            /\ AllEnded(r) /\ ~k.requested
        BY <2>4, <4>4, SameAggregate, AggregateFacts DEF SameRuns
      <4>7. PICK q \in Project : k.run[q] # "completed"
        <5>1. CASE AllEnded(g)
          BY <4>1, <4>6, <5>1 DEF Good, SameHead
        <5>2. CASE ~AllEnded(g)
          BY <4>1, <4>6, <5>2 DEF AllEnded
        <5> QED BY <5>1, <5>2
      <4>8. optional # {}
        BY <4>6, <4>7, AggregateFacts
      <4>9. r.run[q] # "completed" /\ ~Over(r)
        BY <4>4, <4>6, <4>7 DEF SameRuns, Over, TerminalGlobalRunStatuses
      <4>10. Good(r, TRUE)
        BY <2>2, <4>5, <4>6, <4>8, <4>9, <2>4 DEF Good, r
      <4> QED BY <2>2, <4>10 DEF r
    <3>3. ASSUME Throwing(h) # {}, NEW S \in SUBSET (Consumer \ Throwing(h)), o = [rows |-> Served(h, S), thrown |-> TRUE]
          PROVE  Good(r, TRUE)
      <4>1. r = Served(h, S) /\ S \in SUBSET Consumer /\ S \cap Throwing(h) = {}
        BY <3>3
      <4>2. /\ Sound(r) /\ Fresh(r) /\ Tidy(r) /\ SameHead(g, r) /\ ~AllEnded(r)
        BY <2>1, <3>3, <4>1, ServedSettled DEF AllEnded
      <4> HIDE DEF r
      <4>3. optional = {} => r.result = "none"
        BY <2>1, <4>2 DEF SameHead
      <4>4. r.status \in Live /\ r.revision
        BY <2>1, <4>2 DEF Ready, SameHead
      <4>5. \A p \in Project : r.task[p] = "running" => r.status \in Live
        BY <4>4
      <4> QED BY <4>2, <4>3, <4>4, <4>5 DEF Good, Foretold, Over, Live, TerminalGlobalRunStatuses
    <3>4. Good(r, TRUE)
      BY <3>1, <3>2, <3>3
    <3> QED BY <2>2, <3>4
  <2> QED BY <2>2, <2>3, <2>4
<1> QED BY <1>1, <1>2

-----------------------------------------------------------------------------
\* What a step may do

\* The request stays what it is, so what holds of the new tables holds after the step.
LEMMA GoodPrimed ==
  ASSUME UNCHANGED <<graph, contract, optional>>, Good(rows', up')
  PROVE  Good(rows, up)'
<1>1. (Request' <=> Request) /\ Consumer' = Consumer /\ Rows' = Rows
  BY DEF Request, Consumer, Rows, RunField, TaskField, EndingsField, DepField, HandoffField, IntactField,
         StatusField, ResultField
<1>2. ASSUME NEW p \in Project PROVE Fits(rows, p)' <=> Fits(rows', p)
  BY <1>1 DEF Fits, Ended, Inbound
<1>3. ASSUME NEW e \in graph PROVE Honest(rows, e)' <=> Honest(rows', e)
  BY DEF Honest, Justified
<1>4. Sound(rows)'
  BY <1>1, <1>2, <1>3 DEF Good, Sound, Ended
<1>5. Aggregate(rows)' = Aggregate(rows')
  BY DEF Aggregate
<1>6. Foretold(rows)'
  BY <1>5 DEF Good, Foretold, AllEnded, Ended, Over
<1> QED BY <1>4, <1>6 DEF Good, Fresh, Tidy, AllEnded, Ended, Over

LEMMA Keeps ==
  ASSUME IInv, UNCHANGED <<graph, contract, optional>>, Good(rows', up'),
         exceeds' \in SUBSET Project, alone' \in BOOLEAN, up' \in BOOLEAN, faults' \in 0..MaxFaults,
         call' \in [state : {"none", "calling", "failed"}, left : SUBSET Project, at : SUBSET Project],
         call'.state = "calling" => rows'.requested /\ \A p \in Project \ call'.left : rows'.task[p] # "running",
         call'.left # {} \/ call'.at # {} => rows'.revision,
         ~up' => call' = NoCall
  PROVE  IInv'
<1>1. Frame'
  BY DEF IInv, Frame
<1>2. CallIsAhead'
  BY DEF CallIsAhead, NoCall
<1> QED BY <1>1, <1>2, GoodPrimed DEF IInv

LEMMA GoodFacts ==
  ASSUME NEW g, NEW u, Good(g, u)
  PROVE  /\ Sound(g) /\ g \in Rows /\ Request
         /\ \A p \in Project : g.task[p] \in TaskState /\ Fits(g, p)
         /\ \A p \in Project : g.run[p] \in {"none", "preparing", "running"} \cup TerminalRunStatuses
BY RowFacts DEF Good, Sound, TaskField, RunField

LEMMA GoodDown ==
  ASSUME NEW g, Good(g, TRUE)
  PROVE  Good(g, FALSE)
BY DEF Good

\* A step that moves neither the head nor the Runs
LEMMA GoodMoves ==
  ASSUME NEW g, NEW u \in BOOLEAN, Good(g, u), NEW h, Sound(h), SameHead(g, h), SameRuns(g, h),
         ~g.revision => h.handoff = g.handoff
  PROVE  Good(h, u)
<1>1. Aggregate(h) = Aggregate(g) /\ (AllEnded(h) <=> AllEnded(g)) /\ (Over(h) <=> Over(g))
  BY SameAggregate DEF SameHead, SameRuns, Over
<1>2. (Fresh(h) <=> Fresh(g)) /\ (Tidy(h) <=> Tidy(g))
  BY DEF SameRuns, Fresh, Tidy
<1>3. Foretold(h)
  BY <1>1 DEF Good, Foretold, SameHead
<1> QED BY <1>1, <1>2, <1>3 DEF Good, SameHead, SameRuns

\* Before there is a revision a step moves the head only.
LEMMA Unmaterialized ==
  ASSUME NEW g, Sound(g), ~g.revision, \A p \in Project : g.run[p] = "none", \A e \in graph : g.handoff[e] = "none",
         g.result = "none", NEW h \in Rows, SameRuns(g, h), SameDeps(g, h), h.revision = g.revision,
         h.result = g.result, h.status \notin Live \cup {"completed"}, h.status = "none" => ~h.requested
  PROVE  Good(h, TRUE) /\ Good(h, FALSE)
<1>1. Sound(h)
  BY SoundHead
<1>2. \A p \in Project : h.run[p] = "none" /\ h.task[p] = "none"
  BY <1>1 DEF SameRuns, Sound, Fits
<1>3. Fresh(h) /\ Tidy(h) /\ (\A e \in graph : h.handoff[e] = "none")
  BY <1>2 DEF Fresh, Tidy, SameDeps
<1> QED BY <1>1, <1>2, <1>3 DEF Good, Foretold, Live

\* A refresh that a crash cuts off
LEMMA ReadyIsGood ==
  ASSUME NEW g, Ready(g)
  PROVE  Good(g, FALSE)
BY DEF Ready, Good, Foretold, Over, Live, TerminalGlobalRunStatuses

LEMMA RootsReleasedFacts ==
  ASSUME NEW g \in Rows, NEW R \in SUBSET Project
  PROVE  LET h == RootsReleased(g, R)
         IN  /\ h \in Rows /\ SameHead(g, h) /\ SameDeps(g, h) /\ h.endings = g.endings
             /\ \A p \in Project :
                  /\ h.run[p] = IF p \in R THEN "running" ELSE g.run[p]
                  /\ h.task[p] = IF p \in R /\ g.task[p] = "staged" THEN "queued" ELSE g.task[p]
<1> DEFINE task == [p \in Project |-> IF p \in R THEN Released(g, p).task[p] ELSE g.task[p]]
           run == [p \in Project |-> IF p \in R THEN Released(g, p).run[p] ELSE g.run[p]]
           h == RootsReleased(g, R)
<1>1. ASSUME NEW p \in Project
      PROVE  /\ Released(g, p).run[p] = "running"
             /\ Released(g, p).task[p] = IF g.task[p] = "staged" THEN "queued" ELSE g.task[p]
  <2> DEFINE x == IF g.task[p] = "staged" THEN "queued" ELSE g.task[p]
             k == [g EXCEPT !.task[p] = x]
  <2>1. x \in TaskState
    BY RowFacts DEF TaskField, TaskState
  <2>2. Released(g, p) = WithRun(k, p, "running")
    BY DEF Released, Rows
  <2> HIDE DEF k, x
  <2>3. k \in Rows /\ k.task = [g.task EXCEPT ![p] = x] /\ k.run = g.run
    BY <2>1, WithTaskFacts DEF k
  <2>4. LET w == WithRun(k, p, "running")
        IN  /\ w.task = k.task /\ w.run = [k.run EXCEPT ![p] = "running"]
            /\ w.endings = [k.endings EXCEPT ![p] = IF "running" \in TerminalRunStatuses THEN @ \cup {"running"} ELSE @]
    BY <2>3, WithRunFacts
  <2>5. g.task \in [Project -> TaskState] /\ g.run \in [Project -> {"none", "preparing", "running"} \cup TerminalRunStatuses]
    BY RowFacts DEF TaskField, RunField
  <2>6. Released(g, p).task[p] = x /\ Released(g, p).run[p] = "running"
    BY <2>2, <2>3, <2>4, <2>5
  <2> QED BY <2>6 DEF x
<1>2. ASSUME NEW p \in Project
      PROVE  /\ run[p] = IF p \in R THEN "running" ELSE g.run[p]
             /\ task[p] = IF p \in R /\ g.task[p] = "staged" THEN "queued" ELSE g.task[p]
  BY <1>1
<1>3. task \in TaskField /\ run \in RunField
  <2> HIDE DEF task, run
  <2>1. \A p \in Project : task[p] \in TaskState /\ run[p] \in {"none", "preparing", "running"} \cup TerminalRunStatuses
    BY <1>2, RowFacts DEF TaskField, RunField, TaskState
  <2> QED BY <2>1 DEF task, run, TaskField, RunField
<1>4. h = [g EXCEPT !.task = task, !.run = run]
  BY DEF RootsReleased, Rows
<1> HIDE DEF h, task, run
<1>5. h \in Rows /\ SameHead(g, h) /\ SameDeps(g, h) /\ h.endings = g.endings /\ h.task = task /\ h.run = run
  BY <1>3, <1>4, RowFacts DEF Rows, SameHead, SameDeps
<1> QED BY <1>2, <1>5 DEF h

\* What releaseGlobalRun starts from, and leaves behind
Prepared(g) ==
  /\ Sound(g) /\ Fresh(g) /\ Tidy(g) /\ g.revision /\ g.status = "preparing" /\ g.result = "none"
  /\ \A p \in Project : g.run[p] \in {"preparing", "running"} /\ g.task[p] # "running"

LEMMA RootsReleasedIsPrepared ==
  ASSUME NEW g, Prepared(g), NEW R \in SUBSET Project
  PROVE  Prepared(RootsReleased(g, R))
<1> DEFINE h == RootsReleased(g, R)
<1>1. /\ h \in Rows /\ SameHead(g, h) /\ SameDeps(g, h) /\ h.endings = g.endings
      /\ \A p \in Project :
           /\ h.run[p] = IF p \in R THEN "running" ELSE g.run[p]
           /\ h.task[p] = IF p \in R /\ g.task[p] = "staged" THEN "queued" ELSE g.task[p]
  BY RootsReleasedFacts DEF Prepared, Sound
<1> HIDE DEF h
<1>2. ASSUME NEW p \in Project
      PROVE  /\ Fits(h, p) /\ (Ended(h, p) => h.run[p] \in h.endings[p])
             /\ h.run[p] = "running" => h.task[p] \in {"queued", "running"}
             /\ h.run[p] = "preparing" => h.task[p] = "staged"
             /\ h.run[p] \in {"preparing", "running"} /\ h.task[p] # "running"
  <2>1. g.run[p] = "preparing" => g.task[p] = "staged"
    BY DEF Prepared, Tidy
  <2>2. g.run[p] = "running" => g.task[p] = "queued"
    BY DEF Prepared, Fresh
  <2>3. g.run[p] \in {"preparing", "running"}
    BY DEF Prepared
  <2> QED BY <1>1, <2>1, <2>2, <2>3 DEF Fits, Ended, TerminalRunStatuses
<1>3. Sound(h)
  BY <1>1, <1>2, SoundMoves DEF Prepared
<1>4. Fresh(h) /\ Tidy(h)
  BY <1>2 DEF Fresh, Tidy
<1>5. h.revision /\ h.status = "preparing" /\ h.result = "none"
  BY <1>1 DEF SameHead, Prepared
<1> QED BY <1>2, <1>3, <1>4, <1>5 DEF Prepared, h

LEMMA StartedIsGood ==
  ASSUME NEW g, Prepared(g)
  PROVE  /\ Good(g, FALSE) /\ Good(Started(g), TRUE)
         /\ Started(g).revision /\ Started(g).requested = g.requested
         /\ \A p \in Project : Started(g).task[p] # "running"
<1> DEFINE k == RootsReleased(g, Project \ Consumer)
           h == Started(g)
<1>1. Good(g, FALSE)
  BY DEF Prepared, Good, Foretold, Over, Live, TerminalGlobalRunStatuses
<1>2. Prepared(k) /\ k.requested = g.requested
  BY RootsReleasedIsPrepared, RootsReleasedFacts DEF Prepared, Sound, SameHead
<1>3. h = [k EXCEPT !.status = "running"]
  BY DEF Started
<1> HIDE DEF k, h
<1>4. k \in Rows /\ k.revision /\ k.result = "none"
  BY <1>2 DEF Prepared, Sound
<1>5. "running" \in StatusField
  BY DEF StatusField, GlobalRunStatuses
<1>6. /\ h \in Rows /\ SameRuns(k, h) /\ SameDeps(k, h) /\ h.status = "running" /\ h.requested = k.requested
      /\ h.revision = k.revision /\ h.result = k.result
  BY <1>3, <1>4, <1>5 DEF Rows, SameRuns, SameDeps
<1>7. Sound(h) /\ Fresh(h) /\ Tidy(h)
  BY <1>2, <1>6, SoundHead DEF Prepared
<1>8. Good(h, TRUE)
  BY <1>4, <1>6, <1>7 DEF Good, Foretold, Live, Over, TerminalGlobalRunStatuses
<1> QED BY <1>1, <1>2, <1>4, <1>6, <1>8 DEF h, SameRuns, Prepared

\* A Run ends with its Task.
LEMMA RunEnds ==
  ASSUME NEW g, Sound(g), NEW p \in Project, NEW x \in EndedTask, NEW s \in TerminalRunStatuses
  PROVE  LET h == WithRun([g EXCEPT !.task[p] = x], p, s)
         IN  /\ Sound(h) /\ SameHead(g, h) /\ (Fresh(g) => Fresh(h)) /\ (Tidy(g) => Tidy(h))
             /\ h.run[p] = s /\ h.task[p] = x
             /\ \A q \in Project : /\ g.endings[q] \subseteq h.endings[q]
                                   /\ q # p => h.run[q] = g.run[q] /\ h.task[q] = g.task[q]
<1> DEFINE k == [g EXCEPT !.task[p] = x]
           h == WithRun(k, p, s)
<1>1. g \in Rows /\ x \in TaskState
  BY DEF Sound, EndedTask, TaskState
<1>2. /\ k \in Rows /\ k.task = [g.task EXCEPT ![p] = x] /\ SameHead(g, k) /\ SameDeps(g, k)
      /\ k.run = g.run /\ k.endings = g.endings
  BY <1>1, WithTaskFacts
<1> HIDE DEF k
<1>3. /\ h \in Rows /\ h.task = k.task /\ SameHead(k, h) /\ SameDeps(k, h)
      /\ h.run = [k.run EXCEPT ![p] = s]
      /\ h.endings = [k.endings EXCEPT ![p] = IF s \in TerminalRunStatuses THEN @ \cup {s} ELSE @]
  BY <1>2, WithRunFacts
<1> HIDE DEF h
<1>4. SameHead(g, h) /\ SameDeps(g, h)
  BY <1>2, <1>3 DEF SameHead, SameDeps
<1>5. /\ g.task \in [Project -> TaskState] /\ g.run \in [Project -> {"none", "preparing", "running"} \cup TerminalRunStatuses]
      /\ g.endings \in [Project -> SUBSET TerminalRunStatuses]
  BY <1>1, RowFacts DEF TaskField, RunField, EndingsField
<1>6. ASSUME NEW q \in Project
      PROVE  /\ q = p => h.run[q] = s /\ h.task[q] = x /\ h.endings[q] = g.endings[q] \cup {s}
             /\ q # p => h.run[q] = g.run[q] /\ h.task[q] = g.task[q] /\ h.endings[q] = g.endings[q]
  BY <1>2, <1>3, <1>5
<1>7. ASSUME NEW q \in Project
      PROVE  Fits(h, q) /\ (Ended(h, q) => h.run[q] \in h.endings[q]) /\ g.endings[q] \subseteq h.endings[q]
  <2>1. CASE q = p
    BY <1>6, <2>1 DEF Fits, Ended, TerminalRunStatuses
  <2>2. CASE q # p
    BY <1>4, <1>6, <2>2 DEF Sound, Fits, Ended, SameHead, SameDeps
  <2> QED BY <2>1, <2>2
<1>8. Sound(h)
  BY <1>3, <1>4, <1>7, SoundMoves
<1>9. (Fresh(g) => Fresh(h)) /\ (Tidy(g) => Tidy(h))
  BY <1>6 DEF Fresh, Tidy, TerminalRunStatuses
<1> QED BY <1>4, <1>6, <1>7, <1>8, <1>9 DEF h, k

\* ... badly, and nothing is refreshed.
LEMMA RunEndsAlone ==
  ASSUME NEW g, Good(g, TRUE), NEW p \in Project, g.run[p] # "none",
         NEW x \in EndedTask \ {"recovery_attention"}, NEW s \in TerminalRunStatuses \ {"completed"}
  PROVE  Good(WithRun([g EXCEPT !.task[p] = x], p, s), TRUE)
<1> DEFINE h == WithRun([g EXCEPT !.task[p] = x], p, s)
<1>1. /\ Sound(h) /\ SameHead(g, h) /\ (Fresh(g) => Fresh(h)) /\ (Tidy(g) => Tidy(h))
      /\ h.run[p] = s /\ h.task[p] = x
      /\ \A q \in Project : /\ g.endings[q] \subseteq h.endings[q]
                            /\ q # p => h.run[q] = g.run[q] /\ h.task[q] = g.task[q]
  BY RunEnds DEF Good
<1> HIDE DEF h
<1>2. g.revision /\ Fresh(h) /\ Tidy(h)
  BY <1>1 DEF Good
<1>3. \A q \in Project : /\ h.task[q] = "running" => g.task[q] = "running"
                         /\ h.task[q] = "recovery_attention" => g.task[q] = "recovery_attention"
  BY <1>1 DEF EndedTask
<1>4. h.run[p] # "completed"
  BY <1>1
<1>5. Foretold(h)
  BY <1>1 DEF Good, Foretold, SameHead, Over
<1>6. \A q \in Project : h.task[q] = "running" => h.status \in Live
  BY <1>1, <1>3 DEF Good, SameHead
<1>7. h.status = "completed" =>
        \A q \in Project \ optional : "completed" \in h.endings[q] /\ h.task[q] # "recovery_attention"
  BY <1>1, <1>3 DEF Good, SameHead
<1> QED BY <1>1, <1>2, <1>4, <1>5, <1>6, <1>7 DEF Good, SameHead, Over, h

\* A Task ends and afterTask refreshes its Run.
LEMMA RunMet ==
  ASSUME NEW g, Good(g, TRUE), NEW p \in Project, g.task[p] \in {"queued", "running"},
         NEW x \in {"completed", "failed", "recovery_attention"}, Over(g) => x = "failed",
         NEW o \in RunRefreshed([g EXCEPT !.task[p] = x], p)
  PROVE  /\ Good(o.rows, ~o.thrown) /\ o.thrown \in BOOLEAN /\ o.rows.requested = g.requested /\ o.rows.revision
         /\ \A q \in Project : o.rows.task[q] = "running" => g.task[q] = "running"
<1> DEFINE k == [g EXCEPT !.task[p] = x]
           s == Derived(k, p)
           h == WithRun(k, p, s)
<1>1. Sound(g) /\ g \in Rows /\ Fits(g, p) /\ Fresh(g) /\ Tidy(g)
  BY GoodFacts DEF Good
<1>2. g.run[p] = "running" /\ g.revision
  BY <1>1, GoodFacts DEF Fits, Tidy, Ended, EndedTask, Good
<1>3. x \in TaskState /\ x \in EndedTask
  BY DEF TaskState, EndedTask
<1>4. k \in Rows /\ k.task = [g.task EXCEPT ![p] = x] /\ k.run = g.run
  BY <1>1, <1>3, WithTaskFacts
<1>5. k.task[p] = x
  BY <1>1, <1>4, RowFacts DEF TaskField
<1> HIDE DEF k
<1>6. ~Ended(k, p) /\ s # "none" /\ s \in TerminalRunStatuses /\ (x = "failed" => s = "failed")
  <2>1. ~Ended(k, p)
    BY <1>2, <1>4 DEF Ended, TerminalRunStatuses
  <2>2. s # "none" /\ s \in TerminalRunStatuses
    BY <1>3, <1>4, <1>5, DerivedFacts
  <2>3. x = "failed" => s = "failed"
    BY <1>5 DEF Derived, DeriveRunStatus, TerminalTaskStatuses, FailedTaskStatuses
  <2> QED BY <2>1, <2>2, <2>3
<1>7. o \in Refreshed(h)
  BY <1>6 DEF RunRefreshed, k
<1> HIDE DEF s
<1>8. /\ Sound(h) /\ SameHead(g, h) /\ h.run[p] = s /\ h.task[p] = x
      /\ \A q \in Project : q # p => h.run[q] = g.run[q] /\ h.task[q] = g.task[q]
  BY <1>1, <1>3, <1>6, RunEnds DEF k
<1>9. ASSUME Over(g) PROVE Good(h, TRUE)
  <2>1. x \in EndedTask \ {"recovery_attention"}
    BY <1>3, <1>9
  <2>2. s \in TerminalRunStatuses \ {"completed"} /\ g.run[p] # "none"
    BY <1>2, <1>6, <1>9
  <2> QED BY <2>1, <2>2, RunEndsAlone DEF k
<1> HIDE DEF h
<1>10. \A q \in Project : h.task[q] = "running" => g.task[q] = "running"
  BY <1>3, <1>8 DEF EndedTask
<1>11. CASE Over(g)
  <2>1. Over(h)
    BY <1>8, <1>11 DEF SameHead, Over
  <2>2. o = [rows |-> h, thrown |-> FALSE]
    BY <1>7, <2>1 DEF Refreshed
  <2>3. o.rows = h /\ o.thrown = FALSE
    BY <2>2
  <2>4. h.requested = g.requested /\ h.revision
    BY <1>2, <1>8 DEF SameHead
  <2> QED BY <1>9, <1>10, <1>11, <2>3, <2>4
<1>12. CASE ~Over(g)
  <2>1. Ready(g) /\ (optional = {} => g.result = "none")
    BY <1>2, <1>12, LiveIsReady DEF Good
  <2>2. Ready(h)
    BY <1>8, <2>1 DEF Ready, SameHead, Foretold
  <2>3. h.requested = g.requested /\ h.revision
    BY <1>2, <1>8 DEF SameHead
  <2> QED BY <1>7, <1>10, <2>2, <2>3, RefreshMet
<1> QED BY <1>11, <1>12

-----------------------------------------------------------------------------
\* The actions

LEMMA FrameFacts ==
  ASSUME IInv
  PROVE  /\ exceeds \in SUBSET Project /\ alone \in BOOLEAN /\ up \in BOOLEAN /\ faults \in 0..MaxFaults
         /\ call \in [state : {"none", "calling", "failed"}, left : SUBSET Project, at : SUBSET Project]
         /\ MaxFaults \in Nat
         /\ NoCall \in [state : {"none", "calling", "failed"}, left : SUBSET Project, at : SUBSET Project]
         /\ Good(rows, up) /\ CallIsAhead
         /\ up => Good(rows, TRUE)
         /\ ~up => Good(rows, FALSE)
<1>1. up \in BOOLEAN /\ Good(rows, up)
  BY DEF IInv, Frame
<1>2. (up => Good(rows, TRUE)) /\ (~up => Good(rows, FALSE))
  <2>1. CASE up = TRUE
    BY <1>1, <2>1
  <2>2. CASE up = FALSE
    BY <1>1, <2>2
  <2> QED BY <1>1, <2>1, <2>2
<1> QED BY <1>1, <1>2, GlobalRunAssumption DEF IInv, Frame, NoCall

\* The bound on faults is respected.
LEMMA FaultCounts ==
  ASSUME IInv, faults < MaxFaults, faults' = faults + 1
  PROVE  faults' \in 0..MaxFaults
BY FrameFacts

\* A row of a Global Run that has no Project Runs yet gets another status.
LEMMA StatusMoves ==
  ASSUME NEW g, Sound(g), ~g.revision, \A p \in Project : g.run[p] = "none", \A e \in graph : g.handoff[e] = "none",
         g.result = "none", NEW s \in StatusField \ (Live \cup {"completed", "none"})
  PROVE  LET h == [g EXCEPT !.status = s]
         IN  /\ Good(h, TRUE) /\ Good(h, FALSE) /\ h.requested = g.requested /\ h.revision = g.revision /\ h.task = g.task
<1> DEFINE h == [g EXCEPT !.status = s]
<1>1. g \in Rows
  BY DEF Sound
<1>2. /\ h \in Rows /\ SameRuns(g, h) /\ SameDeps(g, h) /\ h.status = s /\ h.revision = g.revision
      /\ h.requested = g.requested /\ h.result = g.result
  BY <1>1 DEF Rows, SameRuns, SameDeps
<1> HIDE DEF h
<1>3. Good(h, TRUE) /\ Good(h, FALSE)
  BY <1>2, Unmaterialized
<1> QED BY <1>2, <1>3 DEF h, SameRuns

LEMMA MaterializedIsPrepared ==
  ASSUME NEW g, Good(g, TRUE), g.status \in {"none", "accepted"}
  PROVE  Prepared(Materialized(g)) /\ Materialized(g).requested = g.requested
<1> DEFINE run == [p \in Project |-> "preparing"]
           task == [p \in Project |-> "staged"]
           dep == [e \in graph |-> "pending"]
           h == Materialized(g)
<1>1. g \in Rows /\ Sound(g) /\ (\A e \in graph : g.handoff[e] = "none") /\ g.result = "none"
  BY DEF Good, Sound, Over, Live, TerminalGlobalRunStatuses
<1>2. run \in RunField /\ task \in TaskField /\ dep \in DepField /\ "preparing" \in StatusField
  BY DEF RunField, TaskField, TaskState, DepField, StatusField, GlobalRunStatuses
<1>3. h = [g EXCEPT !.status = "preparing", !.revision = TRUE, !.run = run, !.task = task, !.dep = dep]
  BY DEF Materialized
<1> HIDE DEF h, run, task, dep
<1>4. /\ h \in Rows /\ h.status = "preparing" /\ h.revision = TRUE /\ h.run = run /\ h.task = task /\ h.dep = dep
      /\ h.handoff = g.handoff /\ h.intact = g.intact /\ h.result = g.result /\ h.requested = g.requested
  BY <1>1, <1>2, <1>3, RowFacts DEF Rows
<1> USE DEF run, task, dep
<1>5. \A p \in Project : h.run[p] = "preparing" /\ h.task[p] = "staged"
  BY <1>4
<1>6. \A p \in Project : Fits(h, p) /\ ~Ended(h, p)
  BY <1>5 DEF Fits, Ended, TerminalRunStatuses
<1>7. \A e \in graph : Honest(h, e)
  BY <1>1, <1>4 DEF Honest, Sound
<1> QED BY <1>1, <1>4, <1>5, <1>6, <1>7 DEF Prepared, Sound, Fresh, Tidy, h

LEMMA NotMaterialized ==
  ASSUME NEW g, NEW u, Good(g, u), ~g.revision, ~Over(g)
  PROVE  /\ Sound(g) /\ (\A p \in Project : g.run[p] = "none" /\ g.task[p] = "none")
         /\ (\A e \in graph : g.handoff[e] = "none") /\ g.result = "none"
BY GoodFacts DEF Good, Fits

LEMMA PrepareKeeps ==
  ASSUME IInv, Prepare
  PROVE  IInv'
<1> USE DEF Prepare
<1>1. Good(rows, TRUE) /\ ~rows.revision /\ ~Over(rows)
  BY FrameFacts DEF Good, Over, TerminalGlobalRunStatuses
<1>2. /\ Sound(rows) /\ (\A p \in Project : rows.run[p] = "none" /\ rows.task[p] = "none")
      /\ (\A e \in graph : rows.handoff[e] = "none") /\ rows.result = "none"
  BY <1>1, NotMaterialized
<1>3. /\ Good(rows', TRUE) /\ rows'.requested = rows.requested /\ (rows.revision => rows'.revision)
      /\ \A p \in Project : rows'.task[p] # "running"
  <2>1. CASE rows' = [rows EXCEPT !.status = "failed"]
    <3>1. "failed" \in StatusField \ (Live \cup {"completed", "none"})
      BY DEF StatusField, GlobalRunStatuses, Live, TerminalGlobalRunStatuses
    <3> DEFINE h == [rows EXCEPT !.status = "failed"]
    <3>2. /\ Good(h, TRUE) /\ h.requested = rows.requested /\ h.revision = rows.revision /\ h.task = rows.task
      BY ONLY <1>1, <1>2, <3>1, StatusMoves
    <3>3. \A p \in Project : h.task[p] # "running"
      BY <1>2, <3>2
    <3> QED BY <2>1, <3>2, <3>3
  <2>2. CASE rows' = Started(Materialized(rows))
    BY <1>1, <2>2, MaterializedIsPrepared, StartedIsGood
  <2> QED BY <2>1, <2>2
<1>4. up' = TRUE /\ call' = call /\ (call'.state = "calling" => rows'.requested)
  BY <1>3, FrameFacts DEF CallIsAhead
<1> QED BY <1>3, <1>4, FrameFacts, Keeps DEF CallIsAhead

LEMMA PrepareTornKeeps ==
  ASSUME IInv, PrepareTorn
  PROVE  IInv'
<1> USE DEF PrepareTorn
<1>1. Good(rows, TRUE) /\ ~rows.revision /\ ~Over(rows)
  BY FrameFacts DEF Good, Over, TerminalGlobalRunStatuses
<1>2. /\ Sound(rows) /\ (\A p \in Project : rows.run[p] = "none" /\ rows.task[p] = "none")
      /\ (\A e \in graph : rows.handoff[e] = "none") /\ rows.result = "none"
  BY <1>1, NotMaterialized
<1>3. Good(rows', FALSE)
  <2>1. ASSUME NEW s \in {"accepted", "resolving_context", "planning", "preparing"},
               rows' = [rows EXCEPT !.status = s]
        PROVE  Good(rows', FALSE)
    <3>1. s \in StatusField \ (Live \cup {"completed", "none"})
      BY DEF StatusField, GlobalRunStatuses, Live
    <3> QED BY <1>1, <1>2, <2>1, <3>1, StatusMoves
  <2>2. ASSUME NEW R \in SUBSET (Project \ Consumer), rows' = RootsReleased(Materialized(rows), R)
        PROVE  Good(rows', FALSE)
    <3>1. Prepared(Materialized(rows)) /\ R \in SUBSET Project
      BY <1>1, MaterializedIsPrepared
    <3> QED BY <2>2, <3>1, RootsReleasedIsPrepared, StartedIsGood
  <2> QED BY <2>1, <2>2
<1>4. up' = FALSE /\ faults' \in 0..MaxFaults
  BY FaultCounts
<1> QED BY <1>3, <1>4, FrameFacts, Keeps DEF NoCall

\* The daemon goes on, or dies with what a refresh has left behind.
LEMMA MetKeeps ==
  ASSUME IInv, up, NEW o, Meets(o), UNCHANGED <<graph, contract, optional, exceeds, alone, faults>>,
         Good(o.rows, ~o.thrown), o.thrown \in BOOLEAN, o.rows.requested = rows.requested, o.rows.revision,
         \A q \in Project : o.rows.task[q] = "running" => rows.task[q] = "running"
  PROVE  IInv'
<1> USE DEF Meets
<1>1. Good(rows', up') /\ up' \in BOOLEAN
  <2>1. CASE o.thrown = TRUE
    BY <2>1
  <2>2. CASE o.thrown = FALSE
    BY <2>2
  <2> QED BY <2>1, <2>2
<1>2. call' = IF o.thrown THEN NoCall ELSE call
  OBVIOUS
<1>3. call' \in [state : {"none", "calling", "failed"}, left : SUBSET Project, at : SUBSET Project]
  BY <1>2, FrameFacts
<1>4. call'.state = "calling" => rows'.requested /\ \A p \in Project \ call'.left : rows'.task[p] # "running"
  <2>1. CASE o.thrown = TRUE
    BY <2>1, <1>2 DEF NoCall
  <2>2. CASE o.thrown = FALSE
    BY <2>2, <1>2, FrameFacts DEF CallIsAhead
  <2> QED BY <2>1, <2>2
<1>5. ~up' => call' = NoCall
  BY <1>2
<1> QED BY <1>1, <1>3, <1>4, <1>5, FrameFacts, Keeps

LEMMA ClaimKeeps ==
  ASSUME IInv, NEW p \in Project, Claim(p)
  PROVE  IInv'
<1> USE DEF Claim
<1> DEFINE ES == IF rows.status \in {"running", "waiting"} /\ ~rows.requested /\ Authorized(p) THEN Inbound(p) ELSE {}
           g == HandedOver(rows, ES)
<1>1. /\ Good(rows, TRUE) /\ Sound(rows) /\ rows \in Rows /\ up /\ rows.task[p] = "queued" /\ Fits(rows, p)
      /\ Fresh(rows) /\ Tidy(rows)
  BY FrameFacts, GoodFacts DEF Good
<1>2. rows.run[p] = "running" /\ rows.revision
  BY <1>1, GoodFacts DEF Fits, Tidy, EndedTask, Ended, Good
<1>3. ES \in SUBSET graph
  BY DEF Inbound
<1>4. Sound(g) /\ SameHead(rows, g) /\ SameRuns(rows, g)
  BY <1>1, <1>3, HandedOverFacts
<1>5. Good(g, TRUE)
  BY <1>1, <1>2, <1>4, GoodMoves
<1>6. IF Gate(g, p)
      THEN rows' = [g EXCEPT !.task[p] = "running"] /\ UNCHANGED <<up, call>>
      ELSE \E o \in RunRefreshed([g EXCEPT !.task[p] = "failed"], p) : Meets(o)
  OBVIOUS
<1> HIDE DEF g, ES
<1>7. CASE Gate(g, p)
  <2> DEFINE h == [g EXCEPT !.task[p] = "running"]
  <2>1. rows' = h /\ up' = up /\ call' = call
    BY <1>6, <1>7
  <2>2. "running" \in TaskState /\ g \in Rows
    BY <1>4 DEF TaskState, Sound
  <2>3. /\ h \in Rows /\ h.task = [g.task EXCEPT ![p] = "running"] /\ SameHead(g, h) /\ SameDeps(g, h)
        /\ h.run = g.run /\ h.endings = g.endings
    BY <2>2, WithTaskFacts
  <2> HIDE DEF h
  <2>4. g.status \in Live /\ ~g.requested
    BY <1>7 DEF Gate, Live
  <2>5. g.task \in [Project -> TaskState]
    BY <2>2, RowFacts DEF TaskField
  <2>6. h.task[p] = "running" /\ \A q \in Project : q # p => h.task[q] = g.task[q]
    BY <2>3, <2>5
  <2>7. g.run[p] = "running"
    BY <1>2, <1>4 DEF SameRuns
  <2>8. ASSUME NEW q \in Project
        PROVE  /\ Fits(h, q) /\ (Ended(h, q) => h.run[q] \in h.endings[q]) /\ g.endings[q] \subseteq h.endings[q]
               /\ h.run[q] = "running" => h.task[q] \in {"queued", "running"}
               /\ h.run[q] = "preparing" => h.task[q] = "staged"
    <3>1. CASE q = p
      BY <2>3, <2>6, <2>7, <3>1 DEF Fits, Ended, TerminalRunStatuses
    <3>2. CASE q # p
      BY <1>5, <2>3, <2>6, <3>2 DEF Good, Sound, Fresh, Tidy, Fits, Ended, SameHead, SameDeps
    <3> QED BY <3>1, <3>2
  <2>9. Sound(h)
    BY <1>4, <2>3, <2>8, SoundMoves
  <2>10. Fresh(h) /\ Tidy(h) /\ ~AllEnded(h)
    BY <2>3, <2>7, <2>8 DEF Fresh, Tidy, AllEnded, Ended, TerminalRunStatuses
  <2>11. h.status \in Live /\ h.revision /\ ~h.requested /\ ~Over(h) /\ (optional = {} => h.result = "none")
    BY <1>2, <1>4, <1>5, <2>3, <2>4 DEF SameHead, Good, Over, Live, TerminalGlobalRunStatuses
  <2>12. Good(h, TRUE)
    BY <2>9, <2>10, <2>11 DEF Good, Foretold, Live
  <2>13. call.state # "calling"
    BY <1>4, <2>4, FrameFacts DEF CallIsAhead, SameHead
  <2>14. Good(rows', up') /\ rows'.revision
    BY <1>1, <2>1, <2>11, <2>12, FrameFacts
  <2> QED BY <1>1, <2>1, <2>13, <2>14, FrameFacts, Keeps
<1>8. CASE ~Gate(g, p)
  <2>1. PICK o \in RunRefreshed([g EXCEPT !.task[p] = "failed"], p) : Meets(o)
    BY <1>6, <1>8
  <2>2. g.task[p] \in {"queued", "running"}
    BY <1>1, <1>4 DEF SameRuns
  <2>3. /\ Good(o.rows, ~o.thrown) /\ o.thrown \in BOOLEAN /\ o.rows.requested = g.requested /\ o.rows.revision
        /\ \A q \in Project : o.rows.task[q] = "running" => g.task[q] = "running"
    BY <1>5, <2>1, <2>2, RunMet
  <2> QED BY <1>1, <1>4, <2>1, <2>3, MetKeeps DEF SameHead, SameRuns
<1> QED BY <1>7, <1>8

LEMMA TaskEndsKeeps ==
  ASSUME IInv, NEW p \in Project, TaskEnds(p)
  PROVE  IInv'
<1> USE DEF TaskEnds
<1>1. Good(rows, TRUE) /\ up /\ rows.task[p] = "running" /\ ~Over(rows)
  BY FrameFacts DEF Good, Over, Live, TerminalGlobalRunStatuses
<1>2. PICK t \in {"completed", "failed", "recovery_attention"} :
        \E o \in RunRefreshed([rows EXCEPT !.task[p] = t], p) : Meets(o)
  OBVIOUS
<1>3. PICK o \in RunRefreshed([rows EXCEPT !.task[p] = t], p) : Meets(o)
  BY <1>2
<1>4. /\ Good(o.rows, ~o.thrown) /\ o.thrown \in BOOLEAN /\ o.rows.requested = rows.requested /\ o.rows.revision
      /\ \A q \in Project : o.rows.task[q] = "running" => rows.task[q] = "running"
  BY <1>1, <1>3, RunMet
<1> QED BY <1>1, <1>3, <1>4, MetKeeps

\* What a refresh may leave behind when the process dies inside it.
LEMMA InterruptedFacts ==
  ASSUME NEW g, Sound(g), g.revision, g.status \in Live, optional = {} => g.result = "none",
         NEW r \in Interrupted(g)
  PROVE  Good(r, FALSE) /\ StartsNothing(g, r)
<1> DEFINE Plain(k) == /\ Sound(k) /\ k.revision /\ k.status \in Live /\ (optional = {} => k.result = "none")
           prepared(d) == {[d EXCEPT !.handoff = [e \in graph |-> IF e \in E /\ HandedOver(d, E).handoff[e] = "received"
                                                                     /\ @[e] = "none" THEN "prepared" ELSE @[e]]] :
                             E \in SUBSET graph}
           served(h) == {Served(h, S) : S \in SUBSET (Consumer \ Throwing(h))}
           queued(h) == {[h EXCEPT !.task = [p \in Project |-> IF p \in S THEN Released(h, p).task[p] ELSE @[p]]] :
                           S \in SUBSET (Releasing(h) \ Throwing(h))}
           projected(h) == {[k EXCEPT !.result = Concluded(k).rows.result] : k \in {Served(h, Consumer)}}
<1>1. ASSUME NEW k, Plain(k) PROVE Good(k, FALSE)
  BY <1>1, ReadyIsGood DEF Ready, Foretold
<1>2. CASE r = g
  BY <1>1, <1>2 DEF StartsNothing
<1>3. ASSUME r \in prepared(Resolved(ChildrenRefreshed(g))) PROVE Good(r, FALSE) /\ StartsNothing(g, r)
  <2> DEFINE c == ChildrenRefreshed(g)
             d == Resolved(c)
  <2>1. Sound(c) /\ SameHead(g, c) /\ c.task = g.task
    BY ChildrenRefreshedFacts
  <2> HIDE DEF c
  <2>2. Sound(d) /\ SameHead(c, d) /\ SameRuns(c, d)
    BY <2>1, ResolvedFacts
  <2> HIDE DEF d
  <2>3. PICK F \in SUBSET graph :
          r = [d EXCEPT !.handoff = [e \in graph |-> IF e \in F /\ HandedOver(d, F).handoff[e] = "received"
                                                        /\ @[e] = "none" THEN "prepared" ELSE @[e]]]
    BY <1>3 DEF c, d
  <2> DEFINE handoff == [e \in graph |-> IF e \in F /\ HandedOver(d, F).handoff[e] = "received"
                                            /\ d.handoff[e] = "none" THEN "prepared" ELSE d.handoff[e]]
  <2>4. d \in Rows
    BY <2>2 DEF Sound
  <2>5. handoff \in HandoffField /\ \A e \in graph : handoff[e] = d.handoff[e] \/ handoff[e] = "prepared"
    BY <2>4, RowFacts DEF HandoffField
  <2>6. r = [d EXCEPT !.handoff = handoff]
    BY <2>3, <2>4 DEF Rows
  <2> HIDE DEF handoff
  <2>7. r \in Rows /\ SameHead(d, r) /\ SameRuns(d, r) /\ r.dep = d.dep /\ r.intact = d.intact /\ r.handoff = handoff
    BY <2>4, <2>5, <2>6, RowFacts DEF Rows, SameHead, SameRuns
  <2>8. \A p \in Project : Fits(r, p) /\ (Ended(r, p) => r.run[p] \in r.endings[p])
    BY <2>2, <2>7 DEF Sound, SameRuns, SameHead, Fits, Ended
  <2>9. \A e \in graph : Honest(r, e)
    BY <2>2, <2>5, <2>7 DEF Sound, SameRuns, Honest, Justified
  <2>10. Sound(r)
    BY <2>2, <2>7, <2>8, <2>9 DEF Sound
  <2> QED BY <1>1, <2>1, <2>2, <2>7, <2>10 DEF SameHead, SameRuns, StartsNothing
<1>4. ASSUME NEW h \in Settled(g) PROVE Plain(h) /\ h.task = g.task
  BY SettledFacts DEF SameHead
<1>5. ASSUME NEW h \in Settled(g), r \in served(h) PROVE Good(r, FALSE) /\ StartsNothing(g, r)
  <2>1. PICK S \in SUBSET (Consumer \ Throwing(h)) : r = Served(h, S)
    BY <1>5
  <2>2. S \in SUBSET Consumer /\ S \cap Throwing(h) = {}
    OBVIOUS
  <2>3. Sound(r) /\ SameHead(g, r) /\ StartsNothing(g, r)
    BY <2>1, <2>2, ServedSettled DEF StartsNothing
  <2> QED BY <1>1, <2>3 DEF SameHead
<1>6. ASSUME NEW h \in Settled(g), r \in queued(h) PROVE Good(r, FALSE) /\ StartsNothing(g, r)
  <2>1. PICK S \in SUBSET (Releasing(h) \ Throwing(h)) :
          r = [h EXCEPT !.task = [p \in Project |-> IF p \in S THEN Released(h, p).task[p] ELSE @[p]]]
    BY <1>6
  <2> DEFINE task == [p \in Project |-> IF p \in S THEN Released(h, p).task[p] ELSE h.task[p]]
  <2>2. Sound(h) /\ h \in Rows /\ h.revision
    BY <1>4 DEF Sound
  <2>3. ASSUME NEW p \in Project
        PROVE  /\ p \in S => /\ h.run[p] = "preparing" /\ task[p] = "queued" /\ p \in Consumer
                             /\ \A e \in Inbound(p) : h.dep[e] = "satisfied"
               /\ p \notin S => task[p] = h.task[p]
    <3>1. ASSUME p \in S
          PROVE  /\ h.run[p] = "preparing" /\ p \in Consumer /\ \A e \in Inbound(p) : h.dep[e] = "satisfied"
                 /\ ReleasedAt(h, Released(h, p), p)
      <4>1. p \in Releasing(h) /\ p \in Consumer
        BY <3>1 DEF Releasing, Resolvable
      <4>2. ReleasedAt(h, Released(h, p), p)
        BY <2>2, <4>1, ServingFacts
      <4> QED BY <4>1, <4>2 DEF Releasing
    <3> QED BY <3>1 DEF ReleasedAt
  <2>4. task \in TaskField
    <3>1. \A p \in Project : h.task[p] \in TaskState
      BY <2>2, RowFacts DEF TaskField
    <3> HIDE DEF task
    <3>2. \A p \in Project : task[p] \in TaskState
      BY <2>3, <3>1 DEF TaskState
    <3> QED BY <3>2 DEF task, TaskField
  <2>5. r = [h EXCEPT !.task = task]
    BY <2>1, <2>2 DEF Rows
  <2> HIDE DEF task
  <2>6. /\ r \in Rows /\ r.task = task /\ r.run = h.run /\ r.endings = h.endings /\ SameHead(h, r) /\ SameDeps(h, r)
    BY <2>2, <2>4, <2>5, RowFacts DEF Rows, SameHead, SameDeps
  <2>7. ASSUME NEW p \in Project
        PROVE  Fits(r, p) /\ (Ended(r, p) => r.run[p] \in r.endings[p]) /\ h.endings[p] \subseteq r.endings[p]
    <3>1. CASE p \in S
      BY <2>3, <2>6, <3>1 DEF Fits, Ended, TerminalRunStatuses, SameDeps
    <3>2. CASE p \notin S
      BY <2>2, <2>3, <2>6, <3>2 DEF Sound, Fits, Ended, SameDeps, SameHead
    <3> QED BY <3>1, <3>2
  <2>8. Sound(r)
    BY <2>2, <2>6, <2>7, SoundMoves
  <2>9. StartsNothing(g, r)
    BY <1>4, <2>3, <2>6 DEF StartsNothing
  <2> QED BY <1>1, <1>4, <2>6, <2>8, <2>9 DEF SameHead
<1>7. ASSUME NEW h \in Settled(g), Throwing(h) = {}, r \in projected(h) PROVE Good(r, FALSE) /\ StartsNothing(g, r)
  <2> DEFINE k == Served(h, Consumer)
  <2>1. r = [k EXCEPT !.result = Concluded(k).rows.result]
    BY <1>7
  <2>2. Sound(k) /\ SameHead(g, k) /\ StartsNothing(g, k)
    BY <1>7, ServedSettled DEF StartsNothing
  <2> HIDE DEF k
  <2>3. k \in Rows /\ Plain(k)
    BY <2>2 DEF Sound, SameHead
  <2>4. LET o == Concluded(k)
        IN  /\ o.rows \in Rows
            /\ ~AllEnded(k) => o.rows.result = k.result
            /\ AllEnded(k) => o.rows.result = Aggregate(k)
    BY <2>3, ConcludedFacts
  <2> DEFINE x == Concluded(k).rows.result
  <2>5. x \in ResultField /\ (~AllEnded(k) => x = k.result) /\ (AllEnded(k) => x = Aggregate(k))
    BY <2>4 DEF Rows
  <2> HIDE DEF x
  <2>6. /\ r \in Rows /\ SameRuns(k, r) /\ SameDeps(k, r) /\ r.result = x /\ r.status = k.status
        /\ r.revision = k.revision /\ r.requested = k.requested
    BY <2>1, <2>3, <2>5 DEF Rows, SameRuns, SameDeps, x
  <2>7. Sound(r)
    BY <2>2, <2>6, SoundHead
  <2>8. Aggregate(r) = Aggregate(k) /\ (AllEnded(r) <=> AllEnded(k))
    BY <2>6, SameAggregate DEF SameRuns
  <2>9. Foretold(r)
    BY <2>3, <2>5, <2>6, <2>8 DEF Foretold
  <2> QED BY <2>2, <2>3, <2>6, <2>7, <2>9, ReadyIsGood DEF Ready, SameRuns, StartsNothing
<1> DEFINE before == UNION {prepared(d) : d \in {Resolved(c) : c \in {ChildrenRefreshed(g)}}}
           during == UNION {served(h) \cup queued(h) : h \in Settled(g)}
           after == UNION {IF Throwing(h) = {} THEN projected(h) ELSE {} : h \in Settled(g)}
<1> HIDE DEF prepared, served, queued, projected, before, during, after
<1>8. r \in {g} \cup before \cup during \cup after
  BY DEF Interrupted, prepared, served, queued, projected, before, during, after
<1>9. CASE r \in before
  <2>1. r \in prepared(Resolved(ChildrenRefreshed(g)))
    BY <1>9 DEF before
  <2> QED BY <1>3, <2>1
<1>10. CASE r \in during
  <2>1. PICK h \in Settled(g) : r \in served(h) \cup queued(h)
    BY <1>10 DEF during
  <2> QED BY <1>5, <1>6, <2>1
<1>11. CASE r \in after
  <2>1. PICK h \in Settled(g) : r \in IF Throwing(h) = {} THEN projected(h) ELSE {}
    BY <1>11 DEF after
  <2> QED BY <1>7, <2>1
<1> QED BY <1>2, <1>8, <1>9, <1>10, <1>11

LEMMA TaskEndsTornKeeps ==
  ASSUME IInv, NEW p \in Project, TaskEndsTorn(p)
  PROVE  IInv' /\ StartsNothing(rows, rows')
<1> USE DEF TaskEndsTorn
<1>1. /\ Good(rows, TRUE) /\ Sound(rows) /\ rows \in Rows /\ Fits(rows, p) /\ rows.task[p] = "running"
      /\ rows.status \in Live /\ rows.revision /\ (optional = {} => rows.result = "none")
      /\ Fresh(rows) /\ Tidy(rows)
  BY FrameFacts, GoodFacts DEF Good, Over, Live, TerminalGlobalRunStatuses
<1>2. PICK t \in {"completed", "failed", "recovery_attention"} :
        \E g \in {[rows EXCEPT !.task[p] = t]} : rows' \in {g} \cup Interrupted(ChildrenRefreshed(g))
  OBVIOUS
<1> DEFINE g == [rows EXCEPT !.task[p] = t]
           c == ChildrenRefreshed(g)
<1>3. t \in TaskState /\ t \in EndedTask
  BY DEF TaskState, EndedTask
<1>4. /\ g \in Rows /\ g.task = [rows.task EXCEPT ![p] = t] /\ SameHead(rows, g) /\ SameDeps(rows, g)
      /\ g.run = rows.run /\ g.endings = rows.endings
  BY <1>1, <1>3, WithTaskFacts
<1>5. rows' \in {g} \cup Interrupted(c)
  BY <1>2
<1> HIDE DEF g
<1>6. rows.run[p] = "running" /\ rows.task \in [Project -> TaskState]
  BY <1>1, GoodFacts, RowFacts DEF Fits, Ended, EndedTask, Tidy, TaskField
<1>7. ASSUME NEW q \in Project
      PROVE  Fits(g, q) /\ (Ended(g, q) => g.run[q] \in g.endings[q]) /\ rows.endings[q] \subseteq g.endings[q]
  <2>1. CASE q = p
    BY <1>3, <1>4, <1>6, <2>1 DEF Fits, Ended, TerminalRunStatuses
  <2>2. CASE q # p
    BY <1>1, <1>4, <1>6, <2>2 DEF Sound, Fits, Ended, SameHead, SameDeps
  <2> QED BY <2>1, <2>2
<1>8. Sound(g)
  BY <1>1, <1>4, <1>7, SoundMoves
<1>9. Sound(c) /\ SameHead(g, c) /\ c.task = g.task
  BY <1>8, ChildrenRefreshedFacts
<1> HIDE DEF c
<1>10. Good(g, FALSE)
  BY <1>1, <1>4, <1>8, ReadyIsGood DEF Ready, SameHead, Foretold
<1>11. \A r \in Interrupted(c) : Good(r, FALSE) /\ StartsNothing(c, r)
  BY <1>1, <1>4, <1>9, InterruptedFacts DEF SameHead
<1>12. Good(rows', FALSE)
  BY <1>5, <1>10, <1>11
<1>14. StartsNothing(rows, rows')
  <2>1. StartsNothing(rows, g)
    BY <1>1, <1>4, <1>6 DEF StartsNothing
  <2>2. rows' = g \/ StartsNothing(g, rows')
    BY <1>5, <1>9, <1>11 DEF StartsNothing
  <2> QED BY <2>1, <2>2 DEF StartsNothing
<1>13. up' = FALSE /\ faults' \in 0..MaxFaults
  BY FaultCounts
<1> QED BY <1>12, <1>13, <1>14, FrameFacts, Keeps DEF NoCall

LEMMA RefreshKeeps ==
  ASSUME IInv, Refresh
  PROVE  IInv'
<1> USE DEF Refresh
<1>1. PICK o \in Refreshed(rows) : rows' = o.rows
  OBVIOUS
<1>2. /\ Good(rows', TRUE) /\ rows'.requested = rows.requested /\ rows'.revision
      /\ \A p \in Project : rows'.task[p] = "running" => rows.task[p] = "running"
  <2>1. Good(rows, TRUE) /\ rows.revision
    BY FrameFacts
  <2>2. /\ Good(o.rows, TRUE) /\ o.rows.requested = rows.requested /\ o.rows.revision = rows.revision
        /\ \A p \in Project : o.rows.task[p] = "running" => rows.task[p] = "running"
    BY <1>1, <2>1, RefreshSurvived
  <2> QED BY <1>1, <2>1, <2>2
<1>3. up' = TRUE /\ call' = call
  BY FrameFacts
<1> QED BY <1>2, <1>3, FrameFacts, Keeps DEF CallIsAhead

LEMMA RepairKeeps ==
  ASSUME IInv, NEW p \in Project, Repair(p)
  PROVE  IInv'
<1> USE DEF Repair
<1> DEFINE g == [rows EXCEPT !.task[p] = "queued"]
           run == [rows.run EXCEPT ![p] = "running"]
           h == [g EXCEPT !.run = run]
<1>1. /\ Good(rows, TRUE) /\ Sound(rows) /\ rows \in Rows /\ Fits(rows, p)
      /\ Fresh(rows) /\ Tidy(rows) /\ rows.task[p] \in RepairableTaskStatuses
  BY FrameFacts, GoodFacts DEF Good
<1>2. rows.revision
  BY <1>1 DEF Good, Fits, RepairableTaskStatuses, FailedTaskStatuses
<1>3. rows' = h
  BY <1>1 DEF Rows
<1>4. "queued" \in TaskState /\ run \in RunField
  BY <1>1, RowFacts DEF TaskState, RunField
<1>5. /\ g \in Rows /\ g.task = [rows.task EXCEPT ![p] = "queued"] /\ SameHead(rows, g) /\ SameDeps(rows, g)
      /\ g.run = rows.run /\ g.endings = rows.endings
  BY <1>1, <1>4, WithTaskFacts
<1> HIDE DEF g, run
<1>6. h \in Rows /\ h.run = run /\ h.task = g.task /\ h.endings = rows.endings /\ SameHead(rows, h) /\ SameDeps(rows, h)
  BY <1>4, <1>5, RowFacts DEF Rows, SameHead, SameDeps
<1> HIDE DEF h
<1>7. ASSUME NEW q \in Project
      PROVE  /\ q = p => h.run[q] = "running" /\ h.task[q] = "queued"
             /\ q # p => h.run[q] = rows.run[q] /\ h.task[q] = rows.task[q]
  BY <1>1, <1>5, <1>6, RowFacts DEF run, RunField, TaskField
<1>8. ASSUME NEW q \in Project
      PROVE  /\ Fits(h, q) /\ (Ended(h, q) => h.run[q] \in h.endings[q]) /\ rows.endings[q] \subseteq h.endings[q]
             /\ h.run[q] = "running" => h.task[q] \in {"queued", "running"}
             /\ h.run[q] = "preparing" => h.task[q] = "staged"
  <2>1. CASE q = p
    BY <1>6, <1>7, <2>1 DEF Fits, Ended, TerminalRunStatuses
  <2>2. CASE q # p
    BY <1>1, <1>6, <1>7, <2>2 DEF Sound, Fresh, Tidy, Fits, Ended, SameHead, SameDeps
  <2> QED BY <2>1, <2>2
<1>9. Sound(h) /\ Fresh(h) /\ Tidy(h)
  BY <1>1, <1>6, <1>8, SoundMoves DEF Fresh, Tidy
<1>10. ~AllEnded(h)
  BY <1>7 DEF AllEnded, Ended, TerminalRunStatuses
<1>11. \A q \in Project : /\ h.task[q] = "running" => rows.task[q] = "running"
                          /\ h.task[q] = "recovery_attention" => rows.task[q] = "recovery_attention"
  BY <1>7
<1>12. \A q \in Project : h.task[q] = "running" => h.status \in Live
  BY <1>1, <1>6, <1>11 DEF Good, SameHead
<1>13. h.status = "completed" =>
         \A q \in Project \ optional : "completed" \in h.endings[q] /\ h.task[q] # "recovery_attention"
  BY <1>1, <1>6, <1>11 DEF Good, SameHead
<1>14. Foretold(h)
  BY <1>1, <1>6 DEF Good, Foretold, SameHead, Over
<1>15. Good(h, TRUE)
  BY <1>1, <1>2, <1>6, <1>9, <1>10, <1>12, <1>13, <1>14 DEF Good, SameHead, Over
<1>16. h.requested = rows.requested /\ h.revision
  BY <1>2, <1>6 DEF SameHead
<1>17. up' = TRUE /\ call' = call /\ faults' \in 0..MaxFaults /\ exceeds' \in SUBSET Project
  BY FaultCounts, FrameFacts
<1> QED BY <1>3, <1>11, <1>15, <1>16, <1>17, FrameFacts, Keeps DEF CallIsAhead

LEMMA TamperKeeps ==
  ASSUME IInv, NEW e \in graph, Tamper(e)
  PROVE  IInv'
<1> USE DEF Tamper
<1> DEFINE intact == [rows.intact EXCEPT ![e] = FALSE]
           h == [rows EXCEPT !.intact = intact]
<1>1. Good(rows, up) /\ Sound(rows) /\ rows \in Rows /\ up \in BOOLEAN
  BY FrameFacts, GoodFacts
<1>2. rows' = h
  BY <1>1 DEF Rows
<1>3. intact \in IntactField /\ \A x \in graph : x # e => intact[x] = rows.intact[x]
  BY <1>1, RowFacts DEF IntactField
<1> HIDE DEF intact
<1>4. /\ h \in Rows /\ SameHead(rows, h) /\ SameRuns(rows, h) /\ h.dep = rows.dep /\ h.handoff = rows.handoff
      /\ h.intact = intact
  BY <1>1, <1>3, RowFacts DEF Rows, SameHead, SameRuns
<1> HIDE DEF h
<1>5. \A p \in Project : Fits(h, p) /\ (Ended(h, p) => h.run[p] \in h.endings[p])
  BY <1>1, <1>4 DEF Sound, SameRuns, SameHead, Fits, Ended
<1>6. \A x \in graph : Honest(h, x)
  BY <1>1, <1>3, <1>4 DEF Sound, SameRuns, Honest, Justified
<1>7. Sound(h)
  BY <1>1, <1>4, <1>5, <1>6 DEF Sound
<1>8. Good(h, up)
  BY <1>1, <1>4, <1>7, GoodMoves
<1>9. up' = up /\ call' = call /\ faults' \in 0..MaxFaults
  BY FaultCounts
<1>10. /\ h.requested = rows.requested /\ h.revision = rows.revision /\ h.task = rows.task
  BY <1>4 DEF SameHead, SameRuns
<1>11. Good(rows', up')
  BY <1>2, <1>8, <1>9
<1> QED BY <1>1, <1>2, <1>9, <1>10, <1>11, FrameFacts, Keeps DEF CallIsAhead

LEMMA CancelledIsGood ==
  ASSUME NEW g, Good(g, TRUE), NEW p \in Project, g.run[p] # "none", ~Ended(g, p)
  PROVE  LET h == Cancelled(g, p)
         IN  /\ Good(h, TRUE) /\ h.requested = g.requested /\ h.revision = g.revision /\ h.task[p] = "canceled"
             /\ \A q \in Project : q # p => h.task[q] = g.task[q]
<1> DEFINE h == Cancelled(g, p)
<1>1. /\ Sound(g) /\ Fits(g, p) /\ Fresh(g) /\ Tidy(g)
      /\ g.run[p] \in {"none", "preparing", "running"} \cup TerminalRunStatuses
  BY GoodFacts DEF Good
<1>2. g.task[p] \in Waiting \cup {"running"}
  BY <1>1 DEF Fresh, Tidy, Ended, Waiting
<1>3. h = WithRun([g EXCEPT !.task[p] = "canceled"], p, "cancelled")
  BY <1>2 DEF Cancelled
<1>4. "canceled" \in EndedTask \ {"recovery_attention"} /\ "cancelled" \in TerminalRunStatuses \ {"completed"}
  BY DEF EndedTask, TerminalRunStatuses
<1> HIDE DEF h
<1>5. Good(h, TRUE)
  BY <1>3, <1>4, RunEndsAlone
<1>6. SameHead(g, h) /\ h.task[p] = "canceled" /\ \A q \in Project : q # p => h.task[q] = g.task[q]
  BY <1>1, <1>3, <1>4, RunEnds
<1> QED BY <1>5, <1>6 DEF SameHead, h

LEMMA CancelAloneKeeps ==
  ASSUME IInv, NEW p \in Project, CancelAlone(p)
  PROVE  IInv'
<1> USE DEF CancelAlone
<1>1. Good(rows, TRUE) /\ up' = TRUE /\ call' = call /\ faults' \in 0..MaxFaults /\ alone' \in BOOLEAN
  BY FrameFacts, FaultCounts
<1>2. /\ Good(rows', TRUE) /\ rows'.requested = rows.requested /\ rows'.revision = rows.revision
      /\ rows'.task[p] = "canceled" /\ \A q \in Project : q # p => rows'.task[q] = rows.task[q]
  BY <1>1, CancelledIsGood
<1> QED BY <1>1, <1>2, FrameFacts, Keeps DEF CallIsAhead

LEMMA RequestCancelKeeps ==
  ASSUME IInv, RequestCancel
  PROVE  IInv'
<1> USE DEF RequestCancel
<1> DEFINE h == [rows EXCEPT !.requested = TRUE]
<1>1. Good(rows, TRUE) /\ Sound(rows) /\ rows \in Rows /\ rows.status # "none" /\ ~Over(rows)
  BY FrameFacts, GoodFacts
<1>2. rows' = h
  OBVIOUS
<1>3. /\ h \in Rows /\ SameRuns(rows, h) /\ SameDeps(rows, h) /\ h.requested = TRUE /\ h.status = rows.status
      /\ h.revision = rows.revision /\ h.result = rows.result
  BY <1>1 DEF Rows, SameRuns, SameDeps
<1> HIDE DEF h
<1>4. Sound(h) /\ Fresh(h) /\ Tidy(h)
  BY <1>1, <1>3, SoundHead DEF Good
<1>5. Good(h, TRUE)
  BY <1>1, <1>3, <1>4 DEF Good, Foretold, SameRuns, SameDeps, Over
<1>6. ~rows.revision => \A p \in Project : h.task[p] # "running"
  BY <1>1, <1>3, NotMaterialized DEF SameRuns
<1>7. call' = [state |-> "calling", left |-> IF rows.revision THEN Project ELSE {}, at |-> {}] /\ up' = TRUE
  BY FrameFacts
<1>8. /\ call'.state = "calling" => rows'.requested /\ \A p \in Project \ call'.left : rows'.task[p] # "running"
      /\ call'.left # {} \/ call'.at # {} => rows'.revision
      /\ call' \in [state : {"none", "calling", "failed"}, left : SUBSET Project, at : SUBSET Project]
  <2>1. CASE rows.revision
    BY <1>2, <1>3, <1>7, <2>1
  <2>2. CASE ~rows.revision
    <3>1. call' = [state |-> "calling", left |-> {}, at |-> {}]
      BY <1>7, <2>2
    <3>2. rows'.requested /\ \A p \in Project : rows'.task[p] # "running"
      BY <1>2, <1>3, <1>6, <2>2
    <3> QED BY <3>1, <3>2
  <2> QED BY <2>1, <2>2
<1>9. Good(rows', up')
  BY <1>2, <1>5, <1>7
<1> QED BY <1>7, <1>8, <1>9, FrameFacts, Keeps

LEMMA CancelChildKeeps ==
  ASSUME IInv, NEW p \in Project, CancelChild(p)
  PROVE  IInv'
<1> USE DEF CancelChild, Child
<1>1. /\ Good(rows, TRUE) /\ Sound(rows) /\ Fits(rows, p) /\ up' = TRUE /\ rows.revision
      /\ p \in call.left /\ call.state = "calling" /\ rows.requested
      /\ \A q \in Project \ call.left : rows.task[q] # "running"
  BY FrameFacts, GoodFacts DEF CallIsAhead
<1>2. CASE ~Ended(rows, p) /\ rows.task[p] = "running"
  <2>1. call' = [call EXCEPT !.at = {p}] /\ rows' = rows
    BY <1>2
  <2>2. /\ call' \in [state : {"none", "calling", "failed"}, left : SUBSET Project, at : SUBSET Project]
        /\ call'.left = call.left
    BY <2>1, FrameFacts
  <2> QED BY <1>1, <2>1, <2>2, FrameFacts, Keeps
<1>3. CASE ~(~Ended(rows, p) /\ rows.task[p] = "running")
  <2>1. call' = [call EXCEPT !.left = @ \ {p}] /\ rows' = IF Ended(rows, p) THEN rows ELSE Cancelled(rows, p)
    BY <1>3
  <2>2. /\ call' \in [state : {"none", "calling", "failed"}, left : SUBSET Project, at : SUBSET Project]
        /\ call'.left = call.left \ {p}
    BY <2>1, FrameFacts
  <2>3. /\ Good(rows', TRUE) /\ rows'.requested = rows.requested /\ rows'.revision = rows.revision
        /\ rows'.task[p] # "running" /\ \A q \in Project : q # p => rows'.task[q] = rows.task[q]
    <3>1. CASE Ended(rows, p)
      BY <1>1, <2>1, <3>1 DEF Fits, EndedTask
    <3>2. CASE ~Ended(rows, p)
      <4>1. rows.run[p] # "none" /\ rows' = Cancelled(rows, p)
        BY <1>1, <2>1, <3>2 DEF Fits
      <4>2. Good(rows, TRUE)
        BY <1>1
      <4>3. LET h == Cancelled(rows, p)
            IN  /\ Good(h, TRUE) /\ h.requested = rows.requested /\ h.revision = rows.revision
                /\ h.task[p] = "canceled" /\ \A q \in Project : q # p => h.task[q] = rows.task[q]
        BY <3>2, <4>1, <4>2, CancelledIsGood
      <4> QED BY <4>1, <4>3
    <3> QED BY <3>1, <3>2
  <2>4. \A q \in Project \ call'.left : rows'.task[q] # "running"
    BY <1>1, <2>2, <2>3
  <2> QED BY <1>1, <2>2, <2>3, <2>4, FrameFacts, Keeps
<1> QED BY <1>2, <1>3

LEMMA CancelGoesOnKeeps ==
  ASSUME IInv, NEW p \in Project, CancelGoesOn(p)
  PROVE  IInv'
<1> USE DEF CancelGoesOn
<1>1. /\ Good(rows, TRUE) /\ Fits(rows, p) /\ up' = TRUE /\ rows.revision
      /\ call.state = "calling" => /\ rows.requested
                                   /\ \A q \in Project \ call.left : rows.task[q] # "running"
  BY FrameFacts, GoodFacts DEF CallIsAhead
<1>2. CASE Ended(rows, p)
  <2>1. call' = [NoCall EXCEPT !.state = "failed"] /\ rows' = rows
    BY <1>2
  <2>2. /\ call' \in [state : {"none", "calling", "failed"}, left : SUBSET Project, at : SUBSET Project]
        /\ call'.state = "failed"
    BY <2>1 DEF NoCall
  <2> QED BY <1>1, <2>1, <2>2, FrameFacts, Keeps
<1>3. CASE ~Ended(rows, p)
  <2>1. call' = [call EXCEPT !.left = @ \ {p}, !.at = {}] /\ rows' = Cancelled(rows, p) /\ rows.run[p] # "none"
    BY <1>1, <1>3 DEF Fits
  <2>2. /\ call' \in [state : {"none", "calling", "failed"}, left : SUBSET Project, at : SUBSET Project]
        /\ call'.left = call.left \ {p} /\ call'.state = call.state
    BY <2>1, FrameFacts
  <2>3. /\ Good(rows', TRUE) /\ rows'.requested = rows.requested /\ rows'.revision = rows.revision
        /\ rows'.task[p] = "canceled" /\ \A q \in Project : q # p => rows'.task[q] = rows.task[q]
    <3>1. Good(rows, TRUE) /\ rows.run[p] # "none"
      BY <1>1, <2>1
    <3>2. LET h == Cancelled(rows, p)
          IN  /\ Good(h, TRUE) /\ h.requested = rows.requested /\ h.revision = rows.revision
              /\ h.task[p] = "canceled" /\ \A q \in Project : q # p => h.task[q] = rows.task[q]
      <4> HIDE DEF CancelGoesOn
      <4> QED BY <1>3, <3>1, CancelledIsGood
    <3> QED BY <2>1, <3>2
  <2>4. call'.state = "calling" => \A q \in Project \ call'.left : rows'.task[q] # "running"
    BY <1>1, <2>2, <2>3
  <2> QED BY <1>1, <2>2, <2>3, <2>4, FrameFacts, Keeps
<1> QED BY <1>2, <1>3

LEMMA CancelEndsKeeps ==
  ASSUME IInv, CancelEnds
  PROVE  IInv'
<1> USE DEF CancelEnds
<1> DEFINE h == [rows EXCEPT !.status = "cancelled"]
<1>1. /\ Good(rows, TRUE) /\ Sound(rows) /\ rows \in Rows /\ up' = TRUE /\ call' = NoCall
      /\ \A p \in Project : rows.task[p] # "running"
  BY FrameFacts, GoodFacts DEF CallIsAhead
<1>2. "cancelled" \in StatusField
  BY DEF StatusField, GlobalRunStatuses, TerminalGlobalRunStatuses
<1>3. /\ h \in Rows /\ SameRuns(rows, h) /\ SameDeps(rows, h) /\ h.status = "cancelled" /\ h.requested = rows.requested
      /\ h.revision = rows.revision /\ h.result = rows.result
  BY <1>1, <1>2 DEF Rows, SameRuns, SameDeps
<1>4. rows' = IF Over(rows) THEN rows ELSE h
  OBVIOUS
<1> HIDE DEF h
<1>5. Sound(h) /\ Fresh(h) /\ Tidy(h)
  BY <1>1, <1>3, SoundHead DEF Good
<1>6. ASSUME ~Over(rows) PROVE Good(h, TRUE)
  <2>1. \A p \in Project : h.task[p] # "running"
    BY <1>1, <1>3 DEF SameRuns
  <2>2. Over(h) /\ h.status \notin Live
    BY <1>3 DEF Over, Live, TerminalGlobalRunStatuses
  <2> QED BY <1>1, <1>3, <1>5, <1>6, <2>1, <2>2 DEF Good, Foretold, SameRuns, SameDeps
<1>7. Good(rows', TRUE) /\ rows'.requested = rows.requested /\ rows'.revision = rows.revision
  BY <1>1, <1>3, <1>4, <1>6
<1> QED BY <1>1, <1>7, FrameFacts, Keeps DEF NoCall

LEMMA CrashKeeps ==
  ASSUME IInv, Crash
  PROVE  IInv'
<1> USE DEF Crash
<1>1. Good(rows', FALSE)
  BY FrameFacts, GoodDown
<1>2. up' = FALSE /\ faults' \in 0..MaxFaults
  BY FaultCounts
<1> QED BY <1>1, <1>2, FrameFacts, Keeps DEF NoCall

LEMMA TasksRecoveredFacts ==
  ASSUME NEW g, Good(g, FALSE), NEW r \in TasksRecovered(g)
  PROVE  Good(r, FALSE) /\ StartsNothing(g, r)
<1>1. PICK Q \in SUBSET Project, A \in SUBSET Project :
        r = [g EXCEPT !.task = [p \in Project |-> CASE @[p] = "running" /\ p \in Q -> "queued"
                                                    [] @[p] = "running" /\ p \in A -> "recovery_attention"
                                                    [] OTHER -> @[p]]]
  BY DEF TasksRecovered
<1> DEFINE task == [p \in Project |-> CASE g.task[p] = "running" /\ p \in Q -> "queued"
                                        [] g.task[p] = "running" /\ p \in A -> "recovery_attention"
                                        [] OTHER -> g.task[p]]
<1>2. Sound(g) /\ g \in Rows
  BY GoodFacts
<1>3. ASSUME NEW p \in Project
      PROVE  /\ task[p] = g.task[p] \/ (g.task[p] = "running" /\ task[p] \in {"queued", "recovery_attention"})
             /\ task[p] \in TaskState /\ g.task[p] \in TaskState
  BY <1>2, RowFacts DEF TaskField, TaskState
<1>4. task \in TaskField
  <2>1. \A p \in Project : task[p] \in TaskState
    BY <1>3
  <2> QED BY <2>1 DEF TaskField
<1>5. r = [g EXCEPT !.task = task]
  BY <1>1, <1>2 DEF Rows
<1> HIDE DEF task
<1>6. /\ r \in Rows /\ r.task = task /\ r.run = g.run /\ r.endings = g.endings /\ SameHead(g, r) /\ SameDeps(g, r)
  BY <1>2, <1>4, <1>5, RowFacts DEF Rows, SameHead, SameDeps
<1>7. ASSUME NEW p \in Project
      PROVE  Fits(r, p) /\ (Ended(r, p) => r.run[p] \in r.endings[p]) /\ g.endings[p] \subseteq r.endings[p]
  <2>1. Fits(g, p) /\ (Ended(g, p) => g.run[p] \in g.endings[p])
    BY <1>2 DEF Sound
  <2>2. CASE task[p] = g.task[p]
    BY <1>6, <2>1, <2>2 DEF Fits, Ended, SameHead, SameDeps
  <2>3. CASE g.task[p] = "running" /\ task[p] \in {"queued", "recovery_attention"}
    <3>1. g.run[p] = "running"
      BY <1>2, <2>1, <2>3, RowFacts DEF Fits, Ended, EndedTask, RunField
    <3> QED BY <1>6, <2>3, <3>1 DEF Fits, Ended, EndedTask, TerminalRunStatuses
  <2> QED BY <1>3, <2>2, <2>3
<1>8. Sound(r)
  BY <1>2, <1>6, <1>7, SoundMoves
<1>9. ASSUME \A p \in Project : g.task[p] # "running" PROVE SameRuns(g, r)
  <2>1. \A p \in Project : task[p] = g.task[p]
    BY <1>3, <1>9
  <2>2. task = g.task
    BY <1>2, <1>4, <2>1, RowFacts DEF TaskField
  <2> QED BY <1>6, <2>2 DEF SameRuns
<1>12. StartsNothing(g, r)
  BY <1>3, <1>6 DEF StartsNothing
<1>10. CASE g.status \notin Live
  <2>1. SameRuns(g, r) /\ r.handoff = g.handoff
    BY <1>6, <1>9, <1>10 DEF Good, SameDeps
  <2> QED BY <1>6, <1>8, <1>12, <2>1, GoodMoves
<1>11. CASE g.status \in Live
  <2>1. Foretold(r)
    <3>1. CASE AllEnded(g)
      <4>1. SameRuns(g, r)
        BY <1>2, <1>9, <3>1 DEF Sound, Fits, AllEnded, EndedTask
      <4>2. Aggregate(r) = Aggregate(g) /\ (AllEnded(r) <=> AllEnded(g))
        BY <1>6, <4>1, SameAggregate DEF SameRuns, SameHead
      <4> QED BY <1>6, <4>2 DEF Good, Foretold, SameHead, Over
    <3>2. CASE ~AllEnded(g)
      BY <1>6, <3>2 DEF Good, Foretold, SameHead, Over
    <3> QED BY <3>1, <3>2
  <2>2. r.revision /\ r.status \in Live
    BY <1>6, <1>11 DEF Good, SameHead
  <2> QED BY <1>8, <1>12, <2>1, <2>2, ReadyIsGood DEF Ready
<1> QED BY <1>10, <1>11

LEMMA AllCancelledIsGood ==
  ASSUME NEW g, Good(g, FALSE), g.requested, ~Over(g)
  PROVE  Good(AllCancelled(g), TRUE) /\ StartsNothing(g, AllCancelled(g))
<1> DEFINE live == {p \in Project : g.run[p] # "none" /\ ~Ended(g, p)}
           run == [p \in Project |-> IF p \in live THEN "cancelled" ELSE g.run[p]]
           endings == [p \in Project |-> IF p \in live THEN g.endings[p] \cup {"cancelled"} ELSE g.endings[p]]
           task == [p \in Project |-> IF p \in live THEN Cancelled(g, p).task[p] ELSE g.task[p]]
           h == AllCancelled(g)
<1>1. Sound(g) /\ g \in Rows
  BY GoodFacts
<1>2. /\ g.task \in [Project -> TaskState] /\ g.run \in [Project -> {"none", "preparing", "running"} \cup TerminalRunStatuses]
      /\ g.endings \in [Project -> SUBSET TerminalRunStatuses]
  BY <1>1, RowFacts DEF TaskField, RunField, EndingsField
<1>3. ASSUME NEW p \in live PROVE task[p] \in EndedTask
  <2> DEFINE x == IF g.task[p] \in Waiting \cup {"running"} THEN "canceled" ELSE g.task[p]
             k == [g EXCEPT !.task[p] = x]
  <2>1. Fits(g, p) /\ g.run[p] \in {"preparing", "running"}
    BY <1>1, <1>2 DEF Sound, Ended
  <2>2. x \in EndedTask /\ x \in TaskState
    BY <1>2, <2>1 DEF Fits, Waiting, EndedTask, TaskState
  <2>3. Cancelled(g, p) = WithRun(k, p, "cancelled")
    BY DEF Cancelled
  <2> HIDE DEF x, k
  <2>4. k \in Rows /\ k.task = [g.task EXCEPT ![p] = x]
    BY <1>1, <2>2, WithTaskFacts DEF k
  <2>5. "cancelled" \in TerminalRunStatuses
    BY DEF TerminalRunStatuses
  <2>6. LET w == WithRun(k, p, "cancelled") IN w.task = k.task
    BY DEF WithRun
  <2>7. Cancelled(g, p).task[p] = x
    BY <1>2, <2>3, <2>4, <2>6
  <2> QED BY <2>2, <2>7
<1>4. ASSUME NEW p \in Project
      PROVE  /\ run[p] \in {"none"} \cup TerminalRunStatuses
             /\ p \in live => run[p] = "cancelled" /\ task[p] \in EndedTask /\ endings[p] = g.endings[p] \cup {"cancelled"}
             /\ p \notin live => run[p] = g.run[p] /\ task[p] = g.task[p] /\ endings[p] = g.endings[p]
  BY <1>3 DEF Ended, TerminalRunStatuses
<1>5. run \in RunField /\ endings \in EndingsField
  BY <1>2 DEF RunField, EndingsField, TerminalRunStatuses
<1>6. task \in TaskField
  <2> HIDE DEF task, live
  <2>1. \A p \in Project : task[p] \in TaskState
    BY <1>2, <1>4 DEF EndedTask, TaskState
  <2> QED BY <2>1 DEF task, TaskField
<1>7. h = [g EXCEPT !.status = "cancelled", !.run = run, !.endings = endings, !.task = task]
  BY <1>1 DEF AllCancelled, Rows
<1>8. "cancelled" \in StatusField
  BY DEF StatusField, GlobalRunStatuses, TerminalGlobalRunStatuses
<1> HIDE DEF h, task, run, endings
<1>9. /\ h \in Rows /\ SameDeps(g, h) /\ h.run = run /\ h.task = task /\ h.endings = endings /\ h.status = "cancelled"
      /\ h.requested = g.requested /\ h.revision = g.revision /\ h.result = g.result
  BY <1>1, <1>5, <1>6, <1>7, <1>8, RowFacts DEF Rows, SameDeps
<1>10. ASSUME NEW p \in Project
       PROVE  /\ Fits(h, p) /\ (Ended(h, p) => h.run[p] \in h.endings[p]) /\ g.endings[p] \subseteq h.endings[p]
              /\ h.run[p] \notin {"preparing", "running"} /\ h.task[p] # "running"
  <2>1. Fits(g, p) /\ (Ended(g, p) => g.run[p] \in g.endings[p])
    BY <1>1 DEF Sound
  <2>2. CASE p \in live
    BY <1>4, <1>9, <2>2 DEF Fits, Ended, EndedTask, TerminalRunStatuses
  <2>3. CASE p \notin live
    <3>1. h.run[p] = g.run[p] /\ h.task[p] = g.task[p] /\ h.endings[p] = g.endings[p]
      BY <1>4, <1>9, <2>3
    <3>2. g.run[p] = "none" \/ Ended(g, p)
      BY <2>3
    <3> QED BY <1>9, <2>1, <3>1, <3>2 DEF Fits, Ended, EndedTask, SameDeps, TerminalRunStatuses
  <2> QED BY <2>2, <2>3
<1>11. Sound(h) /\ Fresh(h) /\ Tidy(h)
  BY <1>1, <1>9, <1>10, SoundMoves DEF Fresh, Tidy
<1>12. optional = {} => h.result \in {"none", "cancelled"}
  BY <1>9, AggregateFacts DEF Good, Foretold
<1>13. ~h.revision => (\A p \in Project : h.run[p] = "none") /\ (\A e \in graph : h.handoff[e] = "none")
  <2>1. SUFFICES ASSUME ~h.revision
                 PROVE  (\A p \in Project : h.run[p] = "none") /\ (\A e \in graph : h.handoff[e] = "none")
    OBVIOUS
  <2>2. (\A p \in Project : g.run[p] = "none") /\ (\A e \in graph : g.handoff[e] = "none")
    BY <1>9, <2>1 DEF Good
  <2>3. \A p \in Project : p \notin live
    BY <2>2
  <2> QED BY <1>4, <1>9, <2>2, <2>3 DEF SameDeps
<1>14. Over(h) /\ h.status \notin Live
  BY <1>9 DEF Over, Live, TerminalGlobalRunStatuses
<1>15. Good(h, TRUE)
  BY <1>9, <1>10, <1>11, <1>12, <1>13, <1>14 DEF Good, Foretold
<1> QED BY <1>10, <1>15 DEF h, StartsNothing

\* recoverGlobalRuns leaves good tables behind, also when the start-up fails in it.
LEMMA RecoveredFacts ==
  ASSUME NEW g, Good(g, FALSE), NEW o \in Recovered(g)
  PROVE  Good(o.rows, ~o.thrown) /\ o.thrown \in BOOLEAN /\ StartsNothing(g, o.rows)
<1> DEFINE Same == [rows |-> g, thrown |-> FALSE]
<1>1. Sound(g) /\ g.status \in StatusField /\ (g.status = "none" => ~g.requested) /\ (g.status \in Live => g.revision)
  BY DEF Good, Sound, Rows
<1>2. Same.rows = g /\ Same.thrown = FALSE
  OBVIOUS
<1>3. ASSUME Good(g, TRUE), o = Same PROVE Good(o.rows, ~o.thrown) /\ o.thrown \in BOOLEAN /\ StartsNothing(g, o.rows)
  BY <1>2, <1>3 DEF StartsNothing
<1>4. CASE Over(g)
  <2>1. o = Same
    BY <1>4 DEF Recovered, Over, TerminalGlobalRunStatuses
  <2>2. g.status \notin Live /\ g.status # "preparing" /\ Fresh(g) /\ Tidy(g)
    BY <1>4 DEF Over, TerminalGlobalRunStatuses, Live, Good
  <2>3. Good(g, TRUE)
    BY <1>4, <2>2 DEF Good, Live
  <2> QED BY <1>3, <2>1, <2>3
<1>5. CASE ~Over(g) /\ g.requested
  <2>1. o = [rows |-> AllCancelled(g), thrown |-> FALSE]
    BY <1>1, <1>5 DEF Recovered, Abandoned
  <2>2. o.rows = AllCancelled(g) /\ o.thrown = FALSE
    BY <2>1
  <2>3. Good(AllCancelled(g), TRUE) /\ StartsNothing(g, AllCancelled(g))
    BY <1>5, AllCancelledIsGood
  <2> QED BY <2>2, <2>3
<1>6. CASE ~Over(g) /\ ~g.requested /\ g.status = "preparing" /\ g.revision
  <2>1. o = [rows |-> Started(g), thrown |-> FALSE]
    BY <1>6 DEF Recovered
  <2>2. o.rows = Started(g) /\ o.thrown = FALSE
    BY <2>1
  <2>3. Prepared(g)
    BY <1>1, <1>6 DEF Prepared, Good, Live
  <2> QED BY <2>2, <2>3, StartedIsGood DEF StartsNothing
<1>7. CASE ~Over(g) /\ ~g.requested /\ g.status \in Live
  <2>1. o \in Refreshed(g)
    BY <1>7 DEF Recovered, Live
  <2>2. Ready(g)
    BY <1>1, <1>7 DEF Ready, Good
  <2> QED BY <2>1, <2>2, RefreshMet DEF StartsNothing
<1>8. CASE ~Over(g) /\ ~g.requested /\ ~g.revision /\ g.status \in {"resolving_context", "planning", "preparing"}
  <2>1. o = [rows |-> [g EXCEPT !.status = "failed"], thrown |-> FALSE]
    BY <1>8 DEF Recovered
  <2>2. o.rows = [g EXCEPT !.status = "failed"] /\ o.thrown = FALSE
    BY <2>1
  <2>3. "failed" \in StatusField \ (Live \cup {"completed", "none"})
    BY DEF StatusField, GlobalRunStatuses, Live, TerminalGlobalRunStatuses
  <2>4. /\ (\A p \in Project : g.run[p] = "none" /\ g.task[p] = "none")
        /\ (\A e \in graph : g.handoff[e] = "none") /\ g.result = "none"
    BY <1>8, NotMaterialized
  <2>5. Good([g EXCEPT !.status = "failed"], TRUE) /\ [g EXCEPT !.status = "failed"].task = g.task
    BY <1>1, <1>8, <2>3, <2>4, StatusMoves
  <2> QED BY <2>2, <2>5 DEF StartsNothing
<1>9. CASE g.status \in {"none", "accepted"}
  <2>1. ~Over(g) /\ ~g.revision
    BY <1>9 DEF Over, TerminalGlobalRunStatuses, Good
  <2>2. CASE g.requested
    BY <1>5, <2>1, <2>2
  <2>3. CASE ~g.requested
    <3>1. o = Same
      BY <1>9, <2>1, <2>3 DEF Recovered
    <3>2. /\ (\A p \in Project : g.run[p] = "none" /\ g.task[p] = "none")
          /\ (\A e \in graph : g.handoff[e] = "none") /\ g.result = "none"
      BY <2>1, NotMaterialized
    <3>3. g \in Rows /\ g.status \notin Live \cup {"completed"}
      BY <1>1, <1>9 DEF Sound, Live
    <3>4. SameRuns(g, g) /\ SameDeps(g, g)
      BY DEF SameRuns, SameDeps
    <3>5. Good(g, TRUE)
      BY <1>1, <2>1, <3>2, <3>3, <3>4, Unmaterialized
    <3> QED BY <1>3, <3>1, <3>5
  <2> QED BY <2>2, <2>3
<1>10. \/ Over(g) \/ g.status \in Live \cup {"none", "accepted", "resolving_context", "planning", "preparing"}
  BY <1>1 DEF StatusField, GlobalRunStatuses, Over, Live
<1>11. g.status \in {"resolving_context", "planning"} => ~g.revision
  BY DEF Good
<1> QED BY <1>4, <1>5, <1>6, <1>7, <1>8, <1>9, <1>10, <1>11

LEMMA RestartKeeps ==
  ASSUME IInv, Restart
  PROVE  IInv' /\ StartsNothing(rows, rows')
<1> USE DEF Restart
<1>1. Good(rows, FALSE) /\ call = NoCall
  BY FrameFacts DEF CallIsAhead
<1>2. PICK g \in TasksRecovered(rows) : \E o \in Recovered(g) : rows' = o.rows /\ up' = ~o.thrown
  OBVIOUS
<1>3. PICK o \in Recovered(g) : rows' = o.rows /\ up' = ~o.thrown
  BY <1>2
<1>4. Good(g, FALSE) /\ StartsNothing(rows, g)
  BY <1>1, <1>2, TasksRecoveredFacts
<1>5. Good(o.rows, ~o.thrown) /\ o.thrown \in BOOLEAN /\ StartsNothing(g, o.rows)
  BY <1>4, RecoveredFacts
<1>6. Good(rows', up') /\ up' \in BOOLEAN
  <2>1. CASE o.thrown = TRUE
    BY <1>3, <1>5, <2>1
  <2>2. CASE o.thrown = FALSE
    BY <1>3, <1>5, <2>2
  <2> QED BY <1>5, <2>1, <2>2
<1>7. StartsNothing(rows, rows')
  BY <1>3, <1>4, <1>5 DEF StartsNothing
<1> QED BY <1>1, <1>6, <1>7, FrameFacts, Keeps DEF NoCall

-----------------------------------------------------------------------------
LEMMA InitKeeps == Init => IInv
<1> SUFFICES ASSUME Init PROVE IInv
  OBVIOUS
<1>1. PICK r \in Requests : graph = r.graph /\ contract = r.contract /\ optional = r.optional
  BY DEF Init
<1>2. Request
  BY <1>1, GlobalRunAssumption DEF Request
<1> DEFINE run == [p \in Project |-> "none"]
           endings == [p \in Project |-> {}]
           dep == [e \in graph |-> "none"]
           intact == [e \in graph |-> TRUE]
<1>3. rows = [status |-> "none", requested |-> FALSE, revision |-> FALSE, run |-> run, task |-> run,
              endings |-> endings, dep |-> dep, handoff |-> dep, intact |-> intact, result |-> "none"]
  BY DEF Init
<1>4. /\ run \in RunField /\ run \in TaskField /\ endings \in EndingsField /\ dep \in DepField /\ dep \in HandoffField
      /\ intact \in IntactField /\ "none" \in StatusField /\ "none" \in ResultField
  BY DEF RunField, TaskField, TaskState, EndingsField, DepField, HandoffField, IntactField, StatusField, ResultField
<1> HIDE DEF run, endings, dep, intact
<1>5. rows \in Rows
  BY <1>3, <1>4 DEF Rows
<1> USE DEF run, endings, dep, intact
<1>6. \A p \in Project : rows.run[p] = "none" /\ rows.task[p] = "none"
  BY <1>3
<1>7. \A e \in graph : rows.dep[e] = "none" /\ rows.handoff[e] = "none" /\ rows.intact[e]
  BY <1>3
<1>8. /\ rows.status = "none" /\ rows.requested = FALSE /\ rows.revision = FALSE /\ rows.result = "none"
  BY <1>3
<1>9. Sound(rows) /\ Fresh(rows) /\ Tidy(rows)
  BY <1>2, <1>5, <1>6, <1>7, <1>8 DEF Sound, Fresh, Tidy, Fits, Ended, Honest, TerminalRunStatuses
<1>10. Good(rows, TRUE)
  BY <1>6, <1>7, <1>8, <1>9 DEF Good, Foretold, Over, Live, TerminalGlobalRunStatuses
<1>11. up = TRUE /\ call = NoCall /\ alone = FALSE /\ faults = 0 /\ exceeds \subseteq Project /\ MaxFaults \in Nat
  BY GlobalRunAssumption DEF Init
<1>12. [graph |-> graph, contract |-> contract, optional |-> optional] \in Requests
  <2>1. r = [graph |-> r.graph, contract |-> r.contract, optional |-> r.optional]
    BY GlobalRunAssumption
  <2> QED BY <1>1, <2>1
<1>13. Frame
  <2>1. call \in [state : {"none", "calling", "failed"}, left : SUBSET Project, at : SUBSET Project]
    BY <1>11 DEF NoCall
  <2>2. alone \in BOOLEAN /\ up \in BOOLEAN
    BY <1>11
  <2>3. faults \in 0..MaxFaults
    BY <1>11
  <2> QED BY <1>11, <1>12, <2>1, <2>2, <2>3 DEF Frame
<1>14. CallIsAhead
  BY <1>11 DEF CallIsAhead, NoCall
<1> QED BY <1>10, <1>11, <1>13, <1>14 DEF IInv

LEMMA NextKeeps == IInv /\ [Next]_vars => IInv'
<1> SUFFICES ASSUME IInv, [Next]_vars PROVE IInv'
  OBVIOUS
<1>1. CASE UNCHANGED vars
  BY <1>1 DEF vars, IInv, Frame, CallIsAhead, Good, Sound, Request, Rows, RunField, TaskField, EndingsField, DepField,
     HandoffField, IntactField, StatusField, ResultField, Fits, Fresh, Tidy, Honest, Justified, Foretold, Aggregate,
     AllEnded, Ended, Over, Inbound, Consumer
<1>2. CASE Next
  BY <1>2, PrepareKeeps, PrepareTornKeeps, RefreshKeeps, RequestCancelKeeps, CancelEndsKeeps, CrashKeeps,
     RestartKeeps, ClaimKeeps, TaskEndsKeeps, TaskEndsTornKeeps, RepairKeeps, CancelAloneKeeps, CancelChildKeeps,
     CancelGoesOnKeeps, TamperKeeps DEF Next
<1> QED BY <1>1, <1>2

LEMMA IInvHolds == Spec => []IInv
BY InitKeeps, NextKeeps, PTL DEF Spec

-----------------------------------------------------------------------------
\* The tables, the calls and the request keep their types.
THEOREM TypeCorrect == Spec => []TypeOK
<1>1. ASSUME IInv PROVE TypeOK
  <2>1. Frame /\ rows \in Rows
    BY <1>1, GoodFacts DEF IInv
  <2>2. rows \in [status : GlobalRunStatuses \cup {"none"}, requested : BOOLEAN, revision : BOOLEAN,
                  run : [Project -> {"none", "preparing", "running"} \cup TerminalRunStatuses],
                  task : [Project -> TaskState], endings : [Project -> SUBSET TerminalRunStatuses],
                  dep : [graph -> {"none", "pending", "satisfied", "skipped", "failed"}],
                  handoff : [graph -> {"none", "prepared", "received", "invalid"}],
                  intact : [graph -> BOOLEAN], result : {"none"} \cup TerminalGlobalRunStatuses]
    BY <2>1 DEF Rows, StatusField, RunField, TaskField, EndingsField, DepField, HandoffField, IntactField, ResultField
  <2> QED BY <2>1, <2>2 DEF Frame, TypeOK
<1> QED BY <1>1, IInvHolds, PTL

\* Under a Global Run that has ended no Task runs, whatever was repaired, cancelled alone or lost in a
\* crash: a Task is claimed only through the gate, which asks for a live Global Run, and the Global Run
\* ends when every Project Run has, or when the cancellation has passed over them all.
THEOREM EndedRunsAreQuiet == Spec => []EndedIsQuiet
<1>1. ASSUME IInv PROVE EndedIsQuiet
  BY <1>1 DEF IInv, Good, EndedIsQuiet, Over, Live, TerminalGlobalRunStatuses
<1> QED BY <1>1, IInvHolds, PTL

\* A Global Run that has succeeded owes it to its required Project Runs, and the result row that was
\* projected before a crash says what the Global Run then became.
THEOREM SuccessEarned == Spec => []SuccessIsEarned
<1>1. ASSUME IInv PROVE SuccessIsEarned
  BY <1>1 DEF IInv, Good, SuccessIsEarned
<1> QED BY <1>1, IInvHolds, PTL

\* Only a claim starts a Task.
LEMMA OnlyClaimStarts ==
  ASSUME IInv, Next, NEW p \in Project, rows.task[p] # "running", rows'.task[p] = "running"
  PROVE  Claim(p)
<1>1. Good(rows, up) /\ rows \in Rows /\ ~StartsNothing(rows, rows') /\ (up => Good(rows, TRUE))
  BY FrameFacts, GoodFacts DEF StartsNothing
<1>2. rows.task \in [Project -> TaskState]
  BY <1>1, RowFacts DEF TaskField
<1>3. CASE Prepare \/ PrepareTorn
  <2>1. Good(rows, TRUE) /\ rows.status \in {"none", "accepted"} /\ ~Over(rows) /\ ~rows.revision
    BY <1>1, <1>3 DEF Prepare, PrepareTorn, Good, Over, TerminalGlobalRunStatuses
  <2>2. \A q \in Project : rows.task[q] # "running"
    BY <2>1, NotMaterialized
  <2>3. Prepared(Materialized(rows))
    BY <2>1, MaterializedIsPrepared
  <2>4. \A R \in SUBSET Project, q \in Project : RootsReleased(Materialized(rows), R).task[q] # "running"
    BY <2>3, RootsReleasedIsPrepared DEF Prepared
  <2>5. \A q \in Project : Started(Materialized(rows)).task[q] # "running"
    BY <2>3, StartedIsGood
  <2>6. \/ \E s : rows' = [rows EXCEPT !.status = s]
        \/ rows' = Started(Materialized(rows))
        \/ \E R \in SUBSET Project : rows' = RootsReleased(Materialized(rows), R)
    BY <1>3 DEF Prepare, PrepareTorn
  <2>7. ASSUME NEW s, rows' = [rows EXCEPT !.status = s] PROVE rows'.task = rows.task
    BY <1>1, <2>7 DEF Rows
  <2> QED BY <2>2, <2>4, <2>5, <2>6, <2>7
<1>4. CASE Refresh
  <2>1. Good(rows, TRUE) /\ rows.revision
    BY <1>1, <1>4 DEF Refresh
  <2>2. PICK o \in Refreshed(rows) : rows' = o.rows
    BY <1>4 DEF Refresh
  <2>3. StartsNothing(rows, o.rows)
    BY <2>1, RefreshSurvived DEF StartsNothing
  <2> QED BY <1>1, <2>2, <2>3
<1>5. CASE RequestCancel \/ CancelEnds \/ Crash \/ \E e \in graph : Tamper(e)
  <2>1. rows'.task = rows.task
    BY <1>1, <1>5 DEF RequestCancel, CancelEnds, Crash, Tamper, Rows
  <2> QED BY <1>1, <2>1 DEF StartsNothing
<1>6. CASE Restart
  BY <1>1, <1>6, RestartKeeps
<1>7. ASSUME NEW q \in Project, Claim(q) PROVE q = p
  <2> DEFINE ES == IF rows.status \in {"running", "waiting"} /\ ~rows.requested /\ Authorized(q) THEN Inbound(q) ELSE {}
             g == HandedOver(rows, ES)
  <2>1. Good(rows, TRUE) /\ Sound(rows) /\ rows.task[q] = "queued" /\ rows.revision
    BY <1>1, <1>7, GoodFacts, NotMaterialized DEF Claim, Good, Fits
  <2>2. ES \in SUBSET graph
    BY DEF Inbound
  <2>3. Sound(g) /\ SameHead(rows, g) /\ SameRuns(rows, g)
    BY <2>1, <2>2, HandedOverFacts
  <2>4. Good(g, TRUE)
    BY <2>1, <2>3, GoodMoves
  <2>5. IF Gate(g, q)
        THEN rows' = [g EXCEPT !.task[q] = "running"] /\ UNCHANGED <<up, call>>
        ELSE \E o \in RunRefreshed([g EXCEPT !.task[q] = "failed"], q) : Meets(o)
    BY <1>7 DEF Claim
  <2> HIDE DEF g, ES
  <2>6. CASE Gate(g, q)
    <3>1. rows' = [g EXCEPT !.task[q] = "running"] /\ g \in Rows /\ "running" \in TaskState
      BY <2>3, <2>5, <2>6 DEF Sound, TaskState
    <3>2. rows'.task = [g.task EXCEPT ![q] = "running"]
      BY <3>1, WithTaskFacts
    <3> QED BY <1>2, <2>3, <3>2 DEF SameRuns
  <2>7. CASE ~Gate(g, q)
    <3>1. PICK o \in RunRefreshed([g EXCEPT !.task[q] = "failed"], q) : Meets(o)
      BY <2>5, <2>7
    <3>2. g.task[q] \in {"queued", "running"}
      BY <2>1, <2>3 DEF SameRuns
    <3>3. StartsNothing(g, o.rows)
      BY <2>4, <3>1, <3>2, RunMet DEF StartsNothing
    <3> QED BY <1>1, <2>3, <3>1, <3>3 DEF Meets, SameRuns, StartsNothing
  <2> QED BY <2>6, <2>7
<1>8. ASSUME NEW q \in Project, TaskEnds(q) PROVE FALSE
  <2>1. PICK t \in {"completed", "failed", "recovery_attention"} :
          \E o \in RunRefreshed([rows EXCEPT !.task[q] = t], q) : Meets(o)
    BY <1>8 DEF TaskEnds
  <2>2. PICK o \in RunRefreshed([rows EXCEPT !.task[q] = t], q) : Meets(o)
    BY <2>1
  <2>3. Good(rows, TRUE) /\ rows.task[q] = "running" /\ ~Over(rows)
    BY <1>1, <1>8 DEF TaskEnds, Good, Over, Live, TerminalGlobalRunStatuses
  <2>4. StartsNothing(rows, o.rows)
    BY <2>2, <2>3, RunMet DEF StartsNothing
  <2> QED BY <1>1, <2>2, <2>4 DEF Meets
<1>9. ASSUME NEW q \in Project, TaskEndsTorn(q) PROVE FALSE
  BY <1>1, <1>9, TaskEndsTornKeeps
<1>10. ASSUME NEW q \in Project, Repair(q) PROVE FALSE
  <2>1. rows'.task = [rows.task EXCEPT ![q] = "queued"]
    BY <1>1, <1>10 DEF Repair, Rows
  <2> QED BY <1>1, <1>2, <2>1 DEF StartsNothing
<1>11. ASSUME NEW q \in Project, CancelAlone(q) \/ CancelChild(q) \/ CancelGoesOn(q) PROVE FALSE
  <2>1. Good(rows, TRUE) /\ Fits(rows, q)
    BY <1>1, <1>11, GoodFacts DEF CancelAlone, CancelChild, CancelGoesOn, Child
  <2>2. rows' = rows \/ (rows' = Cancelled(rows, q) /\ ~Ended(rows, q))
    BY <1>11 DEF CancelAlone, CancelChild, CancelGoesOn, Child
  <2>3. rows.run[q] # "none"
    <3>1. CASE CancelAlone(q)
      BY <3>1 DEF CancelAlone
    <3>2. CASE CancelChild(q) \/ CancelGoesOn(q)
      <4>1. rows.revision
        BY <3>2, FrameFacts DEF CancelChild, CancelGoesOn, Child, CallIsAhead
      <4> QED BY <2>1, <4>1 DEF Fits
    <3> QED BY <1>11, <3>1, <3>2
  <2>4. ASSUME rows' = Cancelled(rows, q), ~Ended(rows, q) PROVE StartsNothing(rows, rows')
    <3>1. LET h == Cancelled(rows, q)
          IN  h.task[q] = "canceled" /\ \A x \in Project : x # q => h.task[x] = rows.task[x]
      BY <2>1, <2>3, <2>4, CancelledIsGood
    <3> QED BY <2>4, <3>1 DEF StartsNothing
  <2> QED BY <1>1, <2>2, <2>4 DEF StartsNothing
<1> QED BY <1>3, <1>4, <1>5, <1>6, <1>7, <1>8, <1>9, <1>10, <1>11 DEF Next

\* Only a claim starts a Task, and the gate lets it through with what its producers have really handed
\* over: an ending that the dependency asks for, which no repair of the producer takes back.
THEOREM StartsJustified == Spec => StartsAreJustified
<1> DEFINE Earned(p) ==
             /\ p \notin exceeds
             /\ \A e \in Inbound(p) :
                  /\ rows.intact[e]
                  /\ CASE contract[e].condition = "all_success" -> "completed" \in rows.endings[e[1]]
                       [] contract[e].condition = "on_failure" -> rows.endings[e[1]] \cap {"failed", "cancelled"} # {}
                       [] OTHER -> rows.endings[e[1]] # {}
           Starts == \A p \in Project : rows.task[p] # "running" /\ rows'.task[p] = "running" => Earned(p)
<1>1. ASSUME IInv, NEW p \in Project, Claim(p), rows'.task[p] = "running" PROVE Earned(p)
  <2> DEFINE ES == IF rows.status \in {"running", "waiting"} /\ ~rows.requested /\ Authorized(p) THEN Inbound(p) ELSE {}
             g == HandedOver(rows, ES)
  <2>1. Good(rows, TRUE) /\ Sound(rows) /\ rows.task[p] = "queued" /\ rows.revision
    BY <1>1, FrameFacts, GoodFacts, NotMaterialized DEF Claim, Good, Fits
  <2>2. ES \in SUBSET graph
    BY DEF Inbound
  <2>3. /\ Sound(g) /\ SameHead(rows, g) /\ SameRuns(rows, g) /\ g.intact = rows.intact
        /\ \A e \in ES : g.dep[e] = "satisfied" => g.handoff[e] = "received" /\ g.intact[e]
    BY <2>1, <2>2, HandedOverFacts
  <2>4. Good(g, TRUE)
    BY <2>1, <2>3, GoodMoves
  <2>5. ~Gate(g, p) => \E o \in RunRefreshed([g EXCEPT !.task[p] = "failed"], p) : Meets(o)
    BY <1>1 DEF Claim
  <2>6. Gate(g, p) => ES = Inbound(p) /\ p \notin exceeds
    BY <2>3 DEF Gate, SameHead, Authorized
  <2> HIDE DEF g, ES
  <2>7. Gate(g, p)
    <3>1. SUFFICES ASSUME ~Gate(g, p) PROVE FALSE
      OBVIOUS
    <3>2. PICK o \in RunRefreshed([g EXCEPT !.task[p] = "failed"], p) : Meets(o)
      BY <2>5, <3>1
    <3>3. g.task[p] = "queued"
      BY <2>1, <2>3 DEF SameRuns
    <3>4. StartsNothing(g, o.rows)
      BY <2>4, <3>2, <3>3, RunMet DEF StartsNothing
    <3> QED BY <1>1, <3>2, <3>3, <3>4 DEF Meets, StartsNothing
  <2>8. ASSUME NEW e \in Inbound(p)
        PROVE  rows.intact[e] /\ Justified(rows, e)
    <3>1. e \in graph /\ e \in ES /\ g.dep[e] = "satisfied"
      BY <2>6, <2>7 DEF Gate, Inbound
    <3>2. Justified(g, e) /\ g.intact[e]
      BY <2>3, <3>1 DEF Sound, Honest
    <3> QED BY <2>3, <3>2 DEF Justified, SameRuns
  <2> QED BY <2>6, <2>7, <2>8 DEF Justified
<1>2. ASSUME IInv, Next, NEW p \in Project, rows.task[p] # "running", rows'.task[p] = "running" PROVE Earned(p)
  <2>1. Claim(p)
    BY <1>2, OnlyClaimStarts
  <2> QED BY <1>1, <1>2, <2>1
<1>3. ASSUME IInv, [Next]_vars PROVE [Starts]_vars
  <2>1. CASE UNCHANGED vars
    BY <2>1
  <2>2. CASE Next
    <3> HIDE DEF Earned
    <3> QED BY <1>2, <1>3, <2>2
  <2> QED BY <1>3, <2>1, <2>2
<1>4. IInv /\ [Next]_vars => [Starts]_vars
  BY <1>3
<1> QED BY <1>4, IInvHolds, PTL DEF Spec, StartsAreJustified

=============================================================================
