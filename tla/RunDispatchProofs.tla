------------------------- MODULE RunDispatchProofs --------------------------
(***************************************************************************)
(* Theorems about RunDispatch for every value of its constants.            *)
(***************************************************************************)
EXTENDS RunDispatch, TLAPS

RunRow == [status : RunStatuses \cup {"none"}, path : {"none", "direct", "orchestrated"},
           thread : BOOLEAN, report : {"none", "notifying", "completed", "failed"},
           finalized : BOOLEAN, endings : Nat]
FlightRow == [pc : {"none", "queued", "indexing", "planner", "planning", "inspecting", "starting", "opening"},
              try : 1..2]
FinalRow == [pc : {"none", "queued", "synthesizing", "reporting"}, status : {"none"} \cup TerminalRunStatuses]
TurnRow == [planning : Turn, kickoff : Turn]
PlanStatuses == {"none", "planning", "planned", "failed", "synthesizing", "synthesized", "synthesis_failed"}
Starts == {"none", "spawning", "acquiring", "kickoff", "releasing"}
Graphs == {"none"} \cup LiveGraph \cup EndedGraph
Notes == {"completed", "failed", "attention_required"}

\* TypeOK, but for the bound on endings, which is a fact about the behaviours.
Shape ==
  /\ kind \in [planned : BOOLEAN, keyed : BOOLEAN, worktree : BOOLEAN]
  /\ run \in RunRow
  /\ plan \in PlanStatuses
  /\ turn \in TurnRow
  /\ graph \in Graphs
  /\ result \in {"none"} \cup TerminalRunStatuses
  /\ notes \in SUBSET Notes
  /\ flight \in FlightRow
  /\ start \in Starts
  /\ final \in FinalRow
  /\ cancel \in BOOLEAN
  /\ phase \in {"reconcile", "recover", "up"}
  /\ boot \in 1..MaxBoots /\ repairs \in 0..MaxRepairs

\* Where a dispatch has not stored the Tasks yet, and where a finalization has read the status.
Early == {"planner", "planning", "inspecting"}
Late == {"synthesizing", "reporting"}

Stored == IF graph = "none" THEN 0 ELSE 1

\* The Tasks are stored once.
GraphIsStoredOnce ==
  /\ graph # "none" => run.status \in {"preparing", "running"} \cup TerminalRunStatuses
  /\ flight.pc \in Early => graph = "none"

\* A Run ends again only after a repair, or after its Tasks were stored over its cancellation.
EndingsAreCounted ==
  /\ run.endings <= repairs + (IF Over(run) THEN 1 ELSE 0) + Stored
  /\ Over(run) \/ run.finalized \/ final.pc \in Late => run.endings >= 1

\* What #finalizeRun has read is still the status of the Run, if the Run has ended only once.
StatusIsCurrent ==
  final.pc \in Late /\ Over(run) /\ run.endings = 1 => result = run.status /\ final.status = run.status

IInv ==
  /\ Shape /\ GraphIsStoredOnce /\ EndingsAreCounted
  /\ CancelledRunIsOver /\ StatusIsCurrent /\ FirstEndingIsReported

Started == {"preparing", "running"} \cup TerminalRunStatuses

-----------------------------------------------------------------------------
\* Rows and tables

LEMMA StatusFacts ==
  /\ TerminalRunStatuses = {"completed", "failed", "cancelled"}
  /\ TerminalRunStatuses \subseteq RunStatuses
  /\ {"accepted", "planning", "preparing", "running"} \subseteq RunStatuses \ TerminalRunStatuses
  /\ "none" \notin RunStatuses
BY DEF TerminalRunStatuses, RunStatuses

\* A terminal status has no legal successor; planning and preparing have few predecessors.
LEMMA TableFacts ==
  ASSUME NEW s, NEW t, MayBecome(s, t)
  PROVE  /\ s \in TerminalRunStatuses => s = t
         /\ t = "planning" => s \in {"draft", "accepted", "planning"}
         /\ t = "preparing" => s \in {"draft", "planning", "awaiting_user_start", "preparing"}
         /\ t \in TerminalRunStatuses => s # "none"
BY DEF MayBecome, LegalRun, RunTransitions, TerminalRunStatuses

LEMMA ToFacts ==
  ASSUME NEW r \in RunRow, NEW s \in RunStatuses
  PROVE  /\ To(r, s) \in RunRow
         /\ To(r, s).status = s
         /\ To(r, s).endings = IF Over(To(r, s)) /\ ~Over(r) THEN r.endings + 1 ELSE r.endings
         /\ To(r, s).finalized = r.finalized
<1> DEFINE n == IF s \in TerminalRunStatuses /\ ~Over(r) THEN r.endings + 1 ELSE r.endings
<1>1. n \in Nat
  BY DEF RunRow
<1>2. [r EXCEPT !.status = s] \in RunRow
  BY DEF RunRow
<1>3. To(r, s) = [[r EXCEPT !.status = s] EXCEPT !.endings = n]
  BY DEF To, RunRow
<1>4. To(r, s) \in RunRow /\ To(r, s).status = s /\ To(r, s).endings = n /\ To(r, s).finalized = r.finalized
  BY <1>1, <1>2, <1>3 DEF RunRow
<1> QED BY <1>4 DEF Over

LEMMA PathFacts ==
  ASSUME NEW r \in RunRow, NEW p \in {"direct", "orchestrated"}
  PROVE  /\ [r EXCEPT !.path = p] \in RunRow
         /\ [r EXCEPT !.path = p].status = r.status
         /\ [r EXCEPT !.path = p].endings = r.endings
         /\ [r EXCEPT !.path = p].finalized = r.finalized
BY DEF RunRow

LEMMA ThreadFacts ==
  ASSUME NEW r \in RunRow
  PROVE  /\ [r EXCEPT !.thread = TRUE] \in RunRow
         /\ [r EXCEPT !.thread = TRUE].status = r.status
         /\ [r EXCEPT !.thread = TRUE].endings = r.endings
         /\ [r EXCEPT !.thread = TRUE].finalized = r.finalized
BY DEF RunRow

LEMMA FlightFacts ==
  /\ NoFlight \in FlightRow /\ NoFlight.pc = "none"
  /\ \A f \in FlightRow : \A pc \in {"queued", "indexing", "planning", "inspecting", "starting", "opening"} :
       [f EXCEPT !.pc = pc] \in FlightRow /\ [f EXCEPT !.pc = pc].pc = pc
  /\ \A pc \in {"planner", "planning"}, n \in 1..2 : [pc |-> pc, try |-> n] \in FlightRow
BY DEF NoFlight, FlightRow

LEMMA QueuedFacts ==
  ASSUME NEW f \in FinalRow
  PROVE  Queued(f) \in FinalRow /\ (Queued(f) = f \/ Queued(f).pc = "queued")
BY DEF Queued, FinalRow

LEMMA TurnFacts ==
  \A t \in TurnRow : \A x \in {"unsent", "open", "completed", "failed"} :
    [t EXCEPT !.planning = x] \in TurnRow /\ [t EXCEPT !.kickoff = x] \in TurnRow
BY DEF TurnRow, Turn

LEMMA FirstWaitType == ASSUME NEW r PROVE FirstWait(r) \in Starts
BY DEF FirstWait, Starts

-----------------------------------------------------------------------------
\* What a step may do to the Run and its Tasks

RunStep ==
  /\ run' \in RunRow /\ graph' \in Graphs
  /\ run'.endings = IF Over(run') /\ ~Over(run) THEN run.endings + 1 ELSE run.endings
  /\ Over(run) /\ run'.status # run.status =>
       /\ ~Over(run')
       /\ repairs' = repairs + 1 \/ (flight.pc = "inspecting" /\ graph = "none" /\ graph' # "none")
  /\ graph # "none" => graph' # "none"
  /\ graph' # "none" => run'.status \in Started
  /\ run'.status = "cancelled" => graph' \notin LiveGraph

\* What the rest of a synchronous stretch does, besides.
StretchStep ==
  /\ RunStep
  /\ run'.finalized = run.finalized
  /\ flight' \in FlightRow /\ start' \in Starts
  /\ final' \in FinalRow /\ (final' = final \/ final'.pc \notin Late)
  /\ flight'.pc \in Early => graph' = "none"

\* The row a stretch has made of run before it is stored.
Follows(r) ==
  /\ r \in RunRow /\ r.endings = run.endings /\ r.finalized = run.finalized
  /\ IF Over(run) THEN r.status = run.status ELSE r.status \notin TerminalRunStatuses
  /\ graph # "none" => r.status \in Started

LEMMA RunFollows == IInv => Follows(run)
BY DEF IInv, Shape, GraphIsStoredOnce, Follows, Started, Over

LEMMA UnchangedRun ==
  ASSUME IInv, UNCHANGED <<run, graph, repairs>>
  PROVE  RunStep /\ run'.finalized = run.finalized
BY DEF IInv, Shape, GraphIsStoredOnce, CancelledRunIsOver, RunStep, Started, Over

LEMMA FailingStep ==
  ASSUME IInv, NEW r, Follows(r), Failing(r), repairs' = repairs
  PROVE  StretchStep
<1>1. CASE Over(r)
  <2>1. r.status = run.status /\ Over(run) /\ run' = r /\ UNCHANGED graph
    BY <1>1 DEF Follows, Over, Failing
  <2>2. RunStep /\ run'.finalized = run.finalized
    BY <2>1 DEF IInv, Shape, Follows, Over, RunStep, CancelledRunIsOver
  <2> QED BY <2>2, FlightFacts, QueuedFacts DEF Failing, StretchStep, Early, Late, IInv, Shape
<1>2. CASE ~Over(r)
  <2>1. run' = To(r, "failed") /\ UNCHANGED graph /\ ~Over(run)
    BY <1>2 DEF Failing, Over, Follows
  <2>2. /\ run' \in RunRow /\ run'.status = "failed" /\ run'.endings = run.endings + 1
        /\ run'.finalized = run.finalized
    <3>1. r \in RunRow /\ "failed" \in RunStatuses /\ "failed" \in TerminalRunStatuses
      BY StatusFacts DEF Follows
    <3>2. /\ run' \in RunRow /\ run'.status = "failed" /\ run'.finalized = r.finalized
          /\ run'.endings = IF Over(run') /\ ~Over(r) THEN r.endings + 1 ELSE r.endings
      BY <2>1, <3>1, ToFacts
    <3> QED BY <1>2, <3>1, <3>2 DEF Follows, Over
  <2>3. RunStep
    BY <2>1, <2>2, StatusFacts DEF IInv, Shape, Over, RunStep, Started
  <2> QED BY <2>2, <2>3, FlightFacts, QueuedFacts DEF Failing, StretchStep, Early, Late, IInv, Shape
<1> QED BY <1>1, <1>2

LEMMA MaterializedStep ==
  ASSUME IInv, NEW r, Follows(r), Materialized(r), repairs' = repairs,
         graph = "none", Over(run) => flight.pc = "inspecting"
  PROVE  StretchStep
<1>1. /\ run' \in RunRow /\ run'.status = "preparing" /\ run'.endings = run.endings
      /\ run'.finalized = run.finalized
  BY ToFacts, StatusFacts DEF Materialized, Follows, Over
<1>2. graph' = "staged"
  BY DEF Materialized
<1>3. RunStep
  BY <1>1, <1>2, StatusFacts DEF RunStep, Over, Started, Graphs, LiveGraph
<1>4. flight' \in FlightRow /\ flight'.pc = "starting" /\ start' \in Starts /\ UNCHANGED final
  BY FlightFacts, FirstWaitType DEF Materialized, IInv, Shape
<1> QED BY <1>1, <1>3, <1>4 DEF StretchStep, Early, IInv, Shape

LEMMA PreparingStep ==
  ASSUME IInv, NEW r, Follows(r), Preparing(r), repairs' = repairs, graph = "none"
  PROVE  StretchStep
<1>1. CASE Failing(r)
  BY <1>1, FailingStep
<1>2. ASSUME MayBecome(r.status, "preparing"),
             NEW p \in {"direct", "orchestrated"},
             LET q == [To(r, "preparing") EXCEPT !.path = p]
             IN  \/ Failing(q)
                 \/ kind.worktree /\ run' = q /\ flight' = [flight EXCEPT !.pc = "inspecting"]
                    /\ UNCHANGED <<graph, start, final>>
                 \/ ~kind.worktree /\ Materialized(q)
      PROVE  StretchStep
  <2> DEFINE q == [To(r, "preparing") EXCEPT !.path = p]
  <2>1. r.status \notin TerminalRunStatuses /\ ~Over(run)
    BY <1>2, TableFacts, StatusFacts DEF Follows, Over
  <2>2. /\ To(r, "preparing") \in RunRow /\ To(r, "preparing").status = "preparing"
        /\ To(r, "preparing").endings = run.endings /\ To(r, "preparing").finalized = run.finalized
    BY ToFacts, StatusFacts DEF Follows, Over
  <2>3. q \in RunRow /\ q.status = "preparing" /\ q.endings = run.endings /\ q.finalized = run.finalized
    BY <2>2, PathFacts
  <2>4. Follows(q)
    BY <2>1, <2>3, StatusFacts DEF Follows, Over
  <2>5. CASE Failing(q)
    BY <2>4, <2>5, FailingStep
  <2>6. CASE run' = q /\ flight' = [flight EXCEPT !.pc = "inspecting"] /\ UNCHANGED <<graph, start, final>>
    <3>1. RunStep
      BY <2>1, <2>3, <2>6, StatusFacts DEF RunStep, Over, IInv, Shape
    <3>2. flight' \in FlightRow
      BY <2>6, FlightFacts DEF IInv, Shape
    <3> QED BY <2>3, <2>6, <3>1, <3>2 DEF StretchStep, IInv, Shape
  <2>7. CASE Materialized(q)
    BY <2>1, <2>4, <2>7, MaterializedStep
  <2> QED BY <1>2, <2>5, <2>6, <2>7
<1> QED BY <1>1, <1>2 DEF Preparing

\* Planning also decides the plan and the planner's turn.
LEMMA PlanningStep ==
  ASSUME IInv, Planning, repairs' = repairs
  PROVE  /\ StretchStep
         /\ plan' \in PlanStatuses /\ turn' \in TurnRow
<1> DEFINE r == To(run, "planning")
<1>0. plan \in PlanStatuses /\ turn \in TurnRow /\ run \in RunRow
  BY DEF IInv, Shape
<1>1. plan' \in PlanStatuses /\ turn' \in TurnRow
  <2>1. plan' \in {plan, "planning", "failed"} /\ turn' \in {turn, [turn EXCEPT !.planning = "unsent"]}
    BY DEF Planning, Unplanned
  <2> QED BY <1>0, <2>1, TurnFacts DEF PlanStatuses
<1>2. CASE Failing(run)
  BY <1>1, <1>2, RunFollows, FailingStep
<1>3. CASE MayBecome(run.status, "planning")
  <2>1. run.status \in {"draft", "accepted", "planning"}
    BY <1>3, TableFacts
  <2>2. graph = "none" /\ ~Over(run)
    BY <2>1, StatusFacts DEF IInv, GraphIsStoredOnce, Over
  <2>3. r \in RunRow /\ r.status = "planning" /\ r.endings = run.endings /\ r.finalized = run.finalized
    BY <1>0, ToFacts, StatusFacts DEF Over
  <2>4. Follows(r)
    BY <2>2, <2>3, StatusFacts DEF Follows
  <2>5. CASE Preparing(r) \/ Failing(r)
    BY <1>1, <2>2, <2>4, <2>5, PreparingStep, FailingStep
  <2>6. CASE /\ run' = r /\ UNCHANGED <<graph, start, final>>
             /\ flight' = [pc |-> "planner", try |-> 1] \/ flight' = [pc |-> "planning", try |-> 1]
    <3>1. RunStep
      BY <2>2, <2>3, <2>6, StatusFacts DEF RunStep, Over, IInv, Shape
    <3>2. flight' \in FlightRow
      BY <2>6, FlightFacts
    <3> QED BY <1>1, <2>2, <2>3, <2>6, <3>1, <3>2 DEF StretchStep, IInv, Shape
  <2> QED BY <1>2, <1>3, <2>5, <2>6 DEF Planning
<1> QED BY <1>2, <1>3 DEF Planning


\* A step whose report, if any, is neither begun nor finished by it.
Settled ==
  /\ Shape' /\ StretchStep
  /\ repairs' \in {repairs, repairs + 1}
  /\ notes \subseteq notes'
  /\ Over(run) => UNCHANGED result

\* What the catch of #startRun, refreshRun and cancelRun write.
Written ==
  /\ result' \in {"none"} \cup TerminalRunStatuses
  /\ notes' \in SUBSET Notes /\ notes \subseteq notes'
  /\ Over(run) => UNCHANGED result

LEMMA StartThrowsStep ==
  ASSUME IInv, StartThrows, repairs' = repairs
  PROVE  StretchStep /\ Written
<1>1. Written
  BY DEF Written, StartThrows, IInv, Shape
<1>2. CASE flight.pc = "starting"
  <2>1. run' = (IF Over(run) THEN run ELSE To(run, "failed")) /\ flight' = NoFlight /\ final' = Queued(final) /\ UNCHANGED graph
    BY <1>2 DEF StartThrows
  <2>2. start' \in Starts
    BY DEF StartThrows, Starts
  <2>3. flight' \in FlightRow /\ flight'.pc \notin Early
    BY <2>1, FlightFacts DEF Early
  <2>4. final' \in FinalRow /\ (final' = final \/ final'.pc \notin Late)
    BY <2>1, QueuedFacts DEF IInv, Shape, Late
  <2>5. CASE Over(run)
    <3>1. UNCHANGED <<run, graph, repairs>>
      BY <2>1, <2>5
    <3> QED BY <1>1, <2>2, <2>3, <2>4, <3>1, UnchangedRun DEF StretchStep
  <2>6. CASE ~Over(run)
    <3>1. run \in RunRow /\ "failed" \in RunStatuses /\ "failed" \in TerminalRunStatuses
      BY StatusFacts DEF IInv, Shape
    <3>2. /\ run' \in RunRow /\ run'.status = "failed" /\ run'.finalized = run.finalized
          /\ run'.endings = IF Over(run') /\ ~Over(run) THEN run.endings + 1 ELSE run.endings
      BY <2>1, <2>6, <3>1, ToFacts
    <3>3. RunStep
      BY <2>1, <2>6, <3>1, <3>2 DEF RunStep, Started, IInv, Shape
    <3> QED BY <1>1, <2>2, <2>3, <2>4, <3>2, <3>3 DEF StretchStep
  <2> QED BY <2>5, <2>6
<1>3. CASE flight.pc # "starting"
  <2>1. UNCHANGED <<flight, final, run, graph>> /\ start' = "none"
    BY <1>3 DEF StartThrows
  <2>2. RunStep /\ run'.finalized = run.finalized
    BY <2>1, UnchangedRun
  <2> QED BY <1>1, <2>1, <2>2 DEF StretchStep, IInv, Shape, Starts, GraphIsStoredOnce
<1> QED BY <1>2, <1>3

LEMMA StartReturnsStep ==
  ASSUME IInv, StartReturns
  PROVE  /\ flight' \in FlightRow /\ start' \in Starts /\ UNCHANGED final /\ final' \in FinalRow
         /\ flight'.pc \in Early => flight' = flight
BY FlightFacts DEF StartReturns, IInv, Shape, Starts, Early

LEMMA PreparationFailsStep ==
  ASSUME IInv, PreparationFails, repairs' = repairs, run.status = "preparing"
  PROVE  StretchStep /\ Written
<1>1. CASE graph = "working"
  BY <1>1, StartThrowsStep DEF PreparationFails
<1>2. CASE graph # "working"
  <2>1. /\ run' = To(run, "failed") /\ result' = "failed" /\ notes' = notes \cup {"failed"}
        /\ graph' = IF graph \in LiveGraph THEN "failed" ELSE graph
        /\ StartReturns
    BY <1>2 DEF PreparationFails
  <2>2. run \in RunRow /\ "failed" \in RunStatuses /\ "failed" \in TerminalRunStatuses /\ ~Over(run)
    BY StatusFacts DEF IInv, Shape, Over
  <2>3. /\ run' \in RunRow /\ run'.status = "failed" /\ run'.finalized = run.finalized
        /\ run'.endings = IF Over(run') /\ ~Over(run) THEN run.endings + 1 ELSE run.endings
    BY <2>1, <2>2, ToFacts
  <2>4. graph' \in Graphs /\ (graph = "none" <=> graph' = "none")
    BY <2>1 DEF IInv, Shape, Graphs, LiveGraph, EndedGraph
  <2>5. RunStep
    BY <2>2, <2>3, <2>4 DEF RunStep, Started
  <2>6. Written
    BY <2>1, <2>2 DEF Written, IInv, Shape, Notes
  <2> QED BY <2>1, <2>3, <2>4, <2>5, <2>6, StartReturnsStep DEF StretchStep, IInv, GraphIsStoredOnce
<1> QED BY <1>1, <1>2

LEMMA AbortsStep ==
  ASSUME IInv, Aborts, repairs' = repairs
  PROVE  StretchStep /\ Written
BY PreparationFailsStep, StartThrowsStep DEF Aborts

LEMMA RefreshedStep ==
  ASSUME IInv, NEW g \in EndedGraph, graph' = g, Refreshed(g), repairs' = repairs, graph # "none",
         graph \in EndedGraph \/ run.status # "cancelled"
  PROVE  RunStep /\ run'.finalized = run.finalized /\ Written
<1> DEFINE s == CASE g = "completed" -> "completed" [] g = "canceled" -> "cancelled" [] OTHER -> "failed"
<1>1. s \in TerminalRunStatuses /\ s \in RunStatuses
  BY StatusFacts
<1>2. run \in RunRow /\ g \in Graphs /\ g \notin LiveGraph /\ g # "none"
  BY DEF IInv, Shape, Graphs, EndedGraph, LiveGraph
<1>3. CASE Over(run) \/ ~MayBecome(run.status, s)
  <2>1. UNCHANGED <<run, result, notes>>
    BY <1>3 DEF Refreshed
  <2>2. RunStep
    BY <1>2, <2>1 DEF RunStep, IInv, GraphIsStoredOnce, Started
  <2> QED BY <2>1, <2>2 DEF Written, IInv, Shape
<1>4. CASE ~(Over(run) \/ ~MayBecome(run.status, s))
  <2>1. run' = To(run, s) /\ result' = s /\ notes' = notes \cup KindOf(s, g)
    BY <1>4 DEF Refreshed
  <2>2. /\ run' \in RunRow /\ run'.status = s /\ run'.finalized = run.finalized
        /\ run'.endings = IF Over(run') /\ ~Over(run) THEN run.endings + 1 ELSE run.endings
    BY <1>1, <1>2, <2>1, ToFacts
  <2>3. RunStep
    BY <1>1, <1>2, <1>4, <2>2 DEF RunStep, Started
  <2>4. KindOf(s, g) \subseteq Notes
    BY DEF KindOf, Notes
  <2> QED BY <1>1, <1>4, <2>1, <2>2, <2>3, <2>4 DEF Written, IInv, Shape
<1> QED BY <1>3, <1>4

LEMMA CancelRunStep ==
  ASSUME IInv, CancelRun, repairs' = repairs
  PROVE  RunStep /\ run'.finalized = run.finalized /\ (graph = "none" => graph' = "none")
<1>1. /\ graph' \in Graphs /\ graph' \notin LiveGraph /\ (graph = "none" <=> graph' = "none")
  BY DEF CancelRun, TasksCancelled, IInv, Shape, Graphs, LiveGraph, EndedGraph
<1>2. run \in RunRow /\ "cancelled" \in RunStatuses /\ "cancelled" \in TerminalRunStatuses
  BY StatusFacts DEF IInv, Shape
<1>3. CASE ~MayBecome(run.status, "cancelled")
  BY <1>1, <1>2, <1>3 DEF CancelRun, RunStep, IInv, GraphIsStoredOnce, Started
<1>4. CASE MayBecome(run.status, "cancelled")
  <2>1. Over(run) => run.status = "cancelled"
    BY <1>4, TableFacts DEF Over
  <2>2. /\ run' \in RunRow /\ run'.status = "cancelled" /\ run'.finalized = run.finalized
        /\ run'.endings = IF Over(run') /\ ~Over(run) THEN run.endings + 1 ELSE run.endings
    BY <1>2, <1>4, ToFacts DEF CancelRun
  <2> QED BY <1>1, <1>2, <2>1, <2>2 DEF RunStep, Started
<1> QED BY <1>3, <1>4


-----------------------------------------------------------------------------
\* Steps of the dispatch

LEMMA UnchangedParts ==
  ASSUME IInv
  PROVE  /\ UNCHANGED <<kind, cancel, phase, boot, repairs>> =>
              /\ kind' \in [planned : BOOLEAN, keyed : BOOLEAN, worktree : BOOLEAN]
              /\ cancel' \in BOOLEAN /\ phase' \in {"reconcile", "recover", "up"}
              /\ boot' \in 1..MaxBoots /\ repairs' \in 0..MaxRepairs
         /\ UNCHANGED <<result, notes>> => Written
BY DEF IInv, Shape, Written

\* A stretch with the rest of the state typed is a settled step.
LEMMA StretchSettles ==
  ASSUME IInv, StretchStep, Written, UNCHANGED <<kind, cancel, phase, boot, repairs>>,
         plan' \in PlanStatuses, turn' \in TurnRow
  PROVE  Settled
BY UnchangedParts DEF Settled, Shape, StretchStep, RunStep, Written

\* Only the flight, the start, the plan or the turns move.
LEMMA Elsewhere ==
  ASSUME IInv, UNCHANGED <<run, graph, repairs>>,
         flight' \in FlightRow, flight'.pc \in Early => graph = "none",
         start' \in Starts, final' \in FinalRow, final' = final \/ final'.pc \notin Late
  PROVE  StretchStep
BY UnchangedRun DEF StretchStep

LEMMA EnqueueSettles == ASSUME IInv, Enqueue PROVE Settled
<1>1. run.status = "none" /\ run' = To(run, "accepted") /\ flight' = [NoFlight EXCEPT !.pc = "queued"]
  BY DEF Enqueue
<1>2. graph = "none" /\ UNCHANGED graph /\ run \in RunRow /\ ~Over(run)
  BY <1>1, StatusFacts DEF Enqueue, IInv, GraphIsStoredOnce, Shape, Over
<1>3. /\ run' \in RunRow /\ run'.status = "accepted" /\ run'.finalized = run.finalized
      /\ run'.endings = IF Over(run') /\ ~Over(run) THEN run.endings + 1 ELSE run.endings
  BY <1>1, <1>2, ToFacts, StatusFacts
<1>4. RunStep
  BY <1>2, <1>3 DEF RunStep, Graphs
<1>5. flight' \in FlightRow /\ flight'.pc = "queued"
  BY <1>1, FlightFacts
<1>6. StretchStep
  BY <1>3, <1>4, <1>5 DEF StretchStep, Early, Enqueue, IInv, Shape
<1> QED BY <1>6, StretchSettles, UnchangedParts DEF Enqueue, IInv, Shape

LEMMA BeginSettles == ASSUME IInv, Begin PROVE Settled
<1>1. UNCHANGED <<kind, result, notes, cancel, phase, boot, repairs>>
  BY DEF Begin
<1>2. CASE Planning
  BY <1>1, <1>2, PlanningStep, StretchSettles, UnchangedParts
<1>3. CASE /\ flight' = NoFlight \/ flight' = [flight EXCEPT !.pc = "indexing"]
           /\ UNCHANGED <<run, plan, turn, graph, start, final>>
  <2>1. flight \in FlightRow
    BY DEF IInv, Shape
  <2>2. flight' \in FlightRow /\ flight'.pc \in {"none", "indexing"}
    <3>1. CASE flight' = NoFlight
      BY <3>1, FlightFacts
    <3>2. CASE flight' = [flight EXCEPT !.pc = "indexing"]
      BY <2>1, <3>2, FlightFacts
    <3> QED BY <1>3, <3>1, <3>2
  <2>3. flight'.pc \notin Early
    BY <2>2 DEF Early
  <2>4. StretchStep
    BY <1>1, <1>3, <2>2, <2>3, Elsewhere DEF IInv, Shape
  <2> QED BY <1>1, <1>3, <2>4, StretchSettles, UnchangedParts DEF IInv, Shape
<1> QED BY <1>2, <1>3 DEF Begin

LEMMA IndexedSettles == ASSUME IInv, Indexed PROVE Settled
BY PlanningStep, StretchSettles, UnchangedParts DEF Indexed

LEMMA PlanFailsStep ==
  ASSUME IInv, PlanFails, repairs' = repairs
  PROVE  StretchStep /\ plan' \in PlanStatuses /\ turn' \in TurnRow
<1>1. StretchStep
  BY RunFollows, FailingStep DEF PlanFails
<1>2. plan' \in PlanStatuses /\ turn' \in TurnRow
  BY TurnFacts DEF PlanFails, PlanStatuses, IInv, Shape
<1> QED BY <1>1, <1>2

LEMMA PlannerReadySettles == ASSUME IInv, PlannerReady PROVE Settled
<1>1. UNCHANGED <<kind, result, notes, cancel, phase, boot, repairs>>
  BY DEF PlannerReady
<1>2. CASE PlanFails
  BY <1>1, <1>2, PlanFailsStep, StretchSettles, UnchangedParts
<1>3. CASE /\ turn' = [turn EXCEPT !.planning = "open"]
           /\ flight' = [flight EXCEPT !.pc = "planning"]
           /\ UNCHANGED <<run, plan, graph, start, final>>
  <2>1. flight' \in FlightRow /\ graph = "none"
    BY <1>3, FlightFacts DEF PlannerReady, IInv, Shape, GraphIsStoredOnce, Early
  <2>2. StretchStep
    BY <1>1, <1>3, <2>1, Elsewhere DEF IInv, Shape
  <2>3. turn' \in TurnRow
    BY <1>3, TurnFacts DEF IInv, Shape
  <2> QED BY <1>1, <1>3, <2>2, <2>3, StretchSettles, UnchangedParts DEF IInv, Shape
<1> QED BY <1>2, <1>3 DEF PlannerReady

LEMMA PlannedSettles == ASSUME IInv, Planned PROVE Settled
<1>1. UNCHANGED <<kind, result, notes, cancel, phase, boot, repairs>> /\ graph = "none"
  BY DEF Planned, IInv, GraphIsStoredOnce, Early
<1>2. CASE PlanFails
  BY <1>1, <1>2, PlanFailsStep, StretchSettles, UnchangedParts
<1>3. CASE plan' = "planned" /\ turn' = [turn EXCEPT !.planning = "completed"] /\ Preparing(run)
  <2>1. StretchStep
    BY <1>1, <1>3, RunFollows, PreparingStep
  <2>2. turn' \in TurnRow
    BY <1>3, TurnFacts DEF IInv, Shape
  <2>3. plan' \in PlanStatuses
    BY <1>3 DEF PlanStatuses
  <2> QED BY <1>1, <2>1, <2>2, <2>3, StretchSettles, UnchangedParts
<1>4. CASE /\ turn' = [turn EXCEPT !.planning = "unsent"]
           /\ flight' = [pc |-> "planner", try |-> 2]
           /\ UNCHANGED <<run, plan, graph, start, final>>
  <2>1. flight' \in FlightRow
    BY <1>4, FlightFacts
  <2>2. StretchStep
    BY <1>1, <1>4, <2>1, Elsewhere DEF IInv, Shape
  <2>3. turn' \in TurnRow
    BY <1>4, TurnFacts DEF IInv, Shape
  <2> QED BY <1>1, <1>4, <2>2, <2>3, StretchSettles, UnchangedParts DEF IInv, Shape
<1> QED BY <1>2, <1>3, <1>4 DEF Planned

LEMMA InspectedSettles == ASSUME IInv, Inspected PROVE Settled
<1>1. UNCHANGED <<kind, plan, turn, result, notes, cancel, phase, boot, repairs>> /\ flight.pc = "inspecting" /\ graph = "none"
  BY DEF Inspected, IInv, GraphIsStoredOnce, Early
<1>2. StretchStep
  BY <1>1, RunFollows, MaterializedStep, FailingStep DEF Inspected
<1> QED BY <1>1, <1>2, StretchSettles, UnchangedParts DEF IInv, Shape

LEMMA DashboardOpenedSettles == ASSUME IInv, DashboardOpened PROVE Settled
<1>1. UNCHANGED <<kind, plan, turn, result, notes, cancel, phase, boot, repairs>>
  BY DEF DashboardOpened
<1>2. CASE Failing(run)
  BY <1>1, <1>2, RunFollows, FailingStep, StretchSettles, UnchangedParts DEF IInv, Shape
<1>3. CASE flight' = NoFlight /\ UNCHANGED <<run, graph, start, final>>
  <2>1. flight' \in FlightRow /\ flight'.pc \notin Early
    BY <1>3, FlightFacts DEF Early
  <2>2. StretchStep
    BY <1>1, <1>3, <2>1, Elsewhere DEF IInv, Shape
  <2> QED BY <1>1, <2>2, StretchSettles, UnchangedParts DEF IInv, Shape
<1> QED BY <1>2, <1>3 DEF DashboardOpened

-----------------------------------------------------------------------------
\* Steps of the start

LEMMA AbortsSettles ==
  ASSUME IInv, Aborts, UNCHANGED <<kind, plan, cancel, phase, boot, repairs>>,
         turn' \in TurnRow
  PROVE  Settled
BY AbortsStep, StretchSettles DEF IInv, Shape

\* The start goes from one of its waits to the next.
LEMMA StartMoves ==
  ASSUME IInv, UNCHANGED <<kind, plan, cancel, phase, boot, repairs>>, UNCHANGED <<run, graph, flight, final, result, notes>>,
         start' \in Starts, turn' \in TurnRow
  PROVE  Settled
<1>1. StretchStep
  BY Elsewhere DEF IInv, Shape, GraphIsStoredOnce
<1> QED BY <1>1, StretchSettles, UnchangedParts DEF IInv, Shape

LEMMA ReleaseSettles == ASSUME IInv, Release PROVE Settled
<1>1. UNCHANGED <<kind, plan, turn, cancel, phase, boot, repairs>> /\ turn' \in TurnRow
      /\ plan' \in PlanStatuses
  BY DEF Release, IInv, Shape
<1>2. CASE Aborts
  BY <1>1, <1>2, AbortsSettles
<1>3. CASE UNCHANGED <<run, graph, result, notes>> /\ StartReturns
  <2>1. StretchStep
    BY <1>1, <1>3, StartReturnsStep, Elsewhere DEF IInv, GraphIsStoredOnce
  <2> QED BY <1>1, <1>3, <2>1, StretchSettles, UnchangedParts
<1>4. CASE /\ run.status = "preparing" /\ graph # "none"
           /\ graph' = (IF graph = "staged" THEN "released" ELSE graph)
           /\ run' = To(run, "running")
           /\ StartReturns /\ UNCHANGED <<result, notes>>
  <2>1. /\ run' \in RunRow /\ run'.status = "running" /\ run'.finalized = run.finalized
        /\ run'.endings = IF Over(run') /\ ~Over(run) THEN run.endings + 1 ELSE run.endings
    <3>1. run \in RunRow /\ "running" \in RunStatuses
      BY StatusFacts DEF IInv, Shape
    <3> QED BY <1>4, <3>1, ToFacts
  <2>2. graph' \in Graphs /\ graph' # "none" /\ ~Over(run)
    BY <1>4, StatusFacts DEF Graphs, LiveGraph, Over, IInv, Shape
  <2>3. RunStep
    BY <2>1, <2>2 DEF RunStep, Started
  <2>4. StretchStep
    BY <1>4, <2>1, <2>3, StartReturnsStep DEF StretchStep, IInv, GraphIsStoredOnce
  <2> QED BY <1>1, <1>4, <2>4, StretchSettles, UnchangedParts
<1> QED BY <1>2, <1>3, <1>4 DEF Release

LEMMA SpawnedSettles == ASSUME IInv, Spawned PROVE Settled
<1>1. UNCHANGED <<kind, plan, cancel, phase, boot, repairs>> /\ plan' \in PlanStatuses
  BY DEF Spawned, IInv, Shape
<1>2. CASE Aborts /\ UNCHANGED turn
  BY <1>1, <1>2, AbortsSettles DEF IInv, Shape
<1>3. CASE /\ run' = [run EXCEPT !.thread = TRUE] /\ turn' = [turn EXCEPT !.kickoff = "unsent"]
           /\ start' = "acquiring" /\ UNCHANGED <<graph, flight, final, result, notes>>
  <2>1. run' \in RunRow /\ run'.status = run.status /\ run'.endings = run.endings /\ run'.finalized = run.finalized
    BY <1>3, ThreadFacts DEF IInv, Shape
  <2>2. RunStep
    BY <1>3, <2>1 DEF RunStep, Over, IInv, Shape, GraphIsStoredOnce, CancelledRunIsOver, Started
  <2>3. StretchStep
    BY <1>3, <2>1, <2>2 DEF StretchStep, Starts, IInv, Shape, GraphIsStoredOnce
  <2>4. turn' \in TurnRow
    BY <1>3, TurnFacts DEF IInv, Shape
  <2> QED BY <1>1, <1>3, <2>3, <2>4, StretchSettles, UnchangedParts
<1> QED BY <1>2, <1>3 DEF Spawned

LEMMA KickedOffSettles == ASSUME IInv, KickedOff PROVE Settled
<1>1. UNCHANGED <<kind, plan, cancel, phase, boot, repairs>>
  BY DEF KickedOff
<1>2. turn' \in TurnRow
  BY TurnFacts DEF KickedOff, IInv, Shape
<1> QED BY <1>1, <1>2, AbortsSettles, StartMoves DEF KickedOff, Starts

LEMMA KickoffEndsSettles == ASSUME IInv, KickoffEnds PROVE Settled
<1>1. UNCHANGED <<kind, plan, cancel, phase, boot, repairs>>
  BY DEF KickoffEnds
<1>2. turn' \in TurnRow
  BY TurnFacts DEF KickoffEnds, IInv, Shape
<1> QED BY <1>1, <1>2, AbortsSettles, StartMoves DEF KickoffEnds, Starts

LEMMA RecoverSettles == ASSUME IInv, Recover PROVE Settled
<1>1. UNCHANGED <<kind, plan, turn, cancel, phase, boot, repairs>> /\ turn' \in TurnRow
      /\ run.status = "preparing" /\ plan' \in PlanStatuses
  BY DEF Recover, Recoverable, IInv, Shape
<1>2. CASE PreparationFails
  BY <1>1, <1>2, PreparationFailsStep, StretchSettles
<1>3. CASE start' = FirstWait(run) /\ UNCHANGED <<run, graph, flight, final, result, notes>>
  BY <1>1, <1>3, FirstWaitType, StartMoves
<1> QED BY <1>2, <1>3 DEF Recover


-----------------------------------------------------------------------------
\* Steps of the Tasks, the user, the finalization and the daemon

\* The flight and the start are left alone, and no report is begun or finished.
LEMMA RunMoves ==
  ASSUME IInv, RunStep, run'.finalized = run.finalized, graph # "none" \/ graph' = "none",
         UNCHANGED <<flight, start>>, final' = final \/ final' = Queued(final)
  PROVE  StretchStep
BY QueuedFacts DEF StretchStep, IInv, Shape, GraphIsStoredOnce, Late

LEMMA ClaimedSettles == ASSUME IInv, Claimed PROVE Settled
<1>1. graph = "released" /\ graph' \in {"failed", "working"} /\ (Over(run) => graph' = "failed")
  BY DEF Claimed
<1>2. RunStep
  BY <1>1, StatusFacts DEF Claimed, RunStep, Over, IInv, Shape, GraphIsStoredOnce, Started, Graphs, LiveGraph, EndedGraph
<1>3. StretchStep
  BY <1>1, <1>2, RunMoves DEF Claimed
<1> QED BY <1>3, StretchSettles, UnchangedParts DEF Claimed, IInv, Shape

LEMMA TasksEndSettles == ASSUME IInv, TasksEnd PROVE Settled
<1>1. graph = "working" /\ run.status # "cancelled"
  BY DEF TasksEnd, IInv, CancelledRunIsOver, LiveGraph
<1>2. PICK g \in EndedGraph : graph' = g /\ Refreshed(g)
  BY DEF TasksEnd
<1>3. RunStep /\ run'.finalized = run.finalized /\ Written
  BY <1>1, <1>2, RefreshedStep DEF TasksEnd
<1>4. StretchStep
  BY <1>1, <1>3, RunMoves DEF TasksEnd
<1> QED BY <1>3, <1>4, StretchSettles DEF TasksEnd, IInv, Shape

LEMMA ViewedSettles == ASSUME IInv, Viewed PROVE Settled
<1>1. graph \in EndedGraph /\ graph # "none"
  BY DEF Viewed, EndedGraph
<1>2. RunStep /\ run'.finalized = run.finalized /\ Written
  BY <1>1, RefreshedStep DEF Viewed
<1>3. StretchStep
  BY <1>1, <1>2, RunMoves DEF Viewed
<1> QED BY <1>2, <1>3, StretchSettles DEF Viewed, IInv, Shape

\* A settled step that also sets the cancel flag or the turns.
LEMMA CancelSettles == ASSUME IInv, Cancel PROVE Settled
<1> USE DEF Cancel
<1>1. turn' \in TurnRow
  <2>1. turn \in TurnRow /\ DOMAIN turn = {"planning", "kickoff"}
    BY DEF TurnRow, IInv, Shape
  <2>2. \A p \in {"planning", "kickoff"} : turn'[p] \in Turn
    BY <2>1 DEF TurnRow, Turn
  <2>3. turn' = [planning |-> turn'.planning, kickoff |-> turn'.kickoff]
    BY <2>1
  <2> QED BY <2>2, <2>3 DEF TurnRow
<1>2. cancel' \in BOOLEAN
  BY DEF IInv, Shape
<1>3. RunStep /\ run'.finalized = run.finalized /\ (graph # "none" \/ graph' = "none")
  BY UnchangedRun, CancelRunStep
<1>4. StretchStep
  BY <1>3, RunMoves
<1> QED BY <1>1, <1>2, <1>3, <1>4 DEF Settled, Shape, StretchStep, RunStep, IInv

LEMMA InterruptedSettles == ASSUME IInv, Interrupted PROVE Settled
<1> USE DEF Interrupted
<1>1. RunStep /\ run'.finalized = run.finalized /\ (graph # "none" \/ graph' = "none")
  BY CancelRunStep
<1>2. StretchStep
  BY <1>1, RunMoves
<1> QED BY <1>1, <1>2 DEF Settled, Shape, StretchStep, RunStep, IInv

LEMMA RepairSettles == ASSUME IInv, Repair PROVE Settled
<1> USE DEF Repair
<1>1. run \in RunRow /\ "running" \in RunStatuses /\ "running" \notin TerminalRunStatuses /\ "running" # "cancelled"
  BY StatusFacts DEF IInv, Shape
<1>2. /\ run' \in RunRow /\ run'.status = "running" /\ run'.finalized = run.finalized
      /\ run'.endings = IF Over(run') /\ ~Over(run) THEN run.endings + 1 ELSE run.endings
  BY <1>1, ToFacts
<1>3. graph # "none" /\ graph' = "released" /\ repairs' = repairs + 1 /\ ~Over(run')
  BY <1>1, <1>2 DEF EndedGraph, Over
<1>4. RunStep
  BY <1>1, <1>2, <1>3 DEF RunStep, Started, Graphs, LiveGraph
<1>5. StretchStep
  BY <1>2, <1>3, <1>4, RunMoves
<1>6. repairs' \in 0..MaxRepairs
  BY RunDispatchAssumption DEF IInv, Shape
<1> QED BY <1>3, <1>4, <1>5, <1>6 DEF Settled, Shape, StretchStep, RunStep, IInv

LEMMA PollFinalizationSettles == ASSUME IInv, PollFinalization PROVE Settled
<1> USE DEF PollFinalization
<1>1. StretchStep
  BY UnchangedRun, RunMoves DEF IInv, Shape
<1> QED BY <1>1, StretchSettles, UnchangedParts DEF IInv, Shape

LEMMA CrashSettles == ASSUME IInv, Crash PROVE Settled
<1> USE DEF Crash
<1>1. RunStep /\ run'.finalized = run.finalized /\ (graph # "none" \/ graph' = "none")
  <2>1. CASE UNCHANGED <<run, graph>>
    BY <2>1, UnchangedRun
  <2>2. CASE start = "releasing" /\ run.status = "preparing" /\ graph = "staged" /\ graph' = "released" /\ UNCHANGED run
    BY <2>2, StatusFacts DEF RunStep, Over, IInv, Shape, Started, Graphs, LiveGraph
  <2>3. CASE graph = "working" /\ graph' \in EndedGraph /\ UNCHANGED run
    BY <2>3 DEF RunStep, Over, IInv, Shape, GraphIsStoredOnce, Started, Graphs, LiveGraph, EndedGraph
  <2>4. ASSUME graph = "working", run.status = "running",
               NEW s \in {"completed", "failed"}, graph' = s, run' = To(run, s)
        PROVE  RunStep /\ run'.finalized = run.finalized /\ (graph # "none" \/ graph' = "none")
    <3>1. run \in RunRow /\ s \in RunStatuses /\ s \in TerminalRunStatuses /\ ~Over(run)
      BY <2>4, StatusFacts DEF IInv, Shape, Over
    <3>2. /\ run' \in RunRow /\ run'.status = s /\ run'.finalized = run.finalized
          /\ run'.endings = IF Over(run') /\ ~Over(run) THEN run.endings + 1 ELSE run.endings
      BY <2>4, <3>1, ToFacts
    <3> QED BY <2>4, <3>1, <3>2 DEF RunStep, Started, Graphs, EndedGraph
  <2> QED BY <2>1, <2>2, <2>3, <2>4 DEF Torn
<1>2. flight' \in FlightRow /\ flight'.pc \notin Early
  BY FlightFacts DEF Early
<1>3. final' \in FinalRow /\ final'.pc \notin Late
  BY DEF NoFinal, FinalRow, Late
<1>4. StretchStep
  BY <1>1, <1>2, <1>3 DEF StretchStep, Starts
<1>5. boot' \in 1..MaxBoots
  BY RunDispatchAssumption DEF IInv, Shape
<1> QED BY <1>1, <1>4, <1>5 DEF Settled, Shape, StretchStep, RunStep, IInv

LEMMA ReconcileSettles == ASSUME IInv, Reconcile PROVE Settled
<1> USE DEF Reconcile
<1>1. turn.planning \in Turn /\ turn.kickoff \in Turn
  BY DEF IInv, Shape, TurnRow
<1>2. \A t \in Turn : AfterReading(t) \subseteq Turn
  BY DEF AfterReading, Turn
<1>3. turn' \in TurnRow
  BY <1>1, <1>2 DEF TurnRow
<1>4. StretchStep
  BY UnchangedRun, RunMoves
<1> QED BY <1>3, <1>4 DEF Settled, Shape, StretchStep, RunStep, IInv

LEMMA ResumeSettles == ASSUME IInv, Resume PROVE Settled
<1> USE DEF Resume
<1>1. flight' = flight \/ flight' = [NoFlight EXCEPT !.pc = "queued"]
  OBVIOUS
<1>2. flight' \in FlightRow /\ (flight'.pc \in Early => graph = "none")
  BY <1>1, FlightFacts DEF Early, IInv, Shape, GraphIsStoredOnce
<1>3. StretchStep
  BY <1>2, Elsewhere DEF IInv, Shape
<1> QED BY <1>3 DEF Settled, Shape, StretchStep, RunStep, IInv

LEMMA StutterSettles == ASSUME IInv, UNCHANGED vars PROVE Settled
<1>1. StretchStep
  BY UnchangedRun, RunMoves DEF vars
<1> QED BY <1>1, StretchSettles, UnchangedParts DEF vars, IInv, Shape


-----------------------------------------------------------------------------
\* The inductive invariant

\* Every settled step keeps the count of the endings.
LEMMA EndingsKept ==
  ASSUME IInv, Shape', RunStep, repairs' \in {repairs, repairs + 1}
  PROVE  run'.endings <= repairs' + (IF Over(run') THEN 1 ELSE 0) + Stored'
<1>1. run.endings \in Nat /\ run'.endings \in Nat /\ repairs \in Nat /\ repairs' \in Nat
  BY RunDispatchAssumption DEF IInv, Shape, RunRow
<1>2. Stored \in {0, 1} /\ Stored' \in {0, 1} /\ Stored <= Stored' /\ (graph = "none" /\ graph' # "none" => Stored' = Stored + 1)
  BY DEF Stored, RunStep
<1>3. run.endings <= repairs + (IF Over(run) THEN 1 ELSE 0) + Stored
  BY DEF IInv, EndingsAreCounted
<1>4. CASE ~Over(run)
  BY <1>1, <1>2, <1>3, <1>4 DEF RunStep
<1>5. CASE Over(run) /\ Over(run')
  BY <1>1, <1>2, <1>3, <1>5 DEF RunStep
<1>6. CASE Over(run) /\ ~Over(run')
  <2>1. run'.status # run.status
    BY <1>6 DEF Over
  <2>2. repairs' = repairs + 1 \/ Stored' = Stored + 1
    BY <1>2, <1>6, <2>1 DEF RunStep
  <2> QED BY <1>1, <1>2, <1>3, <1>6, <2>2 DEF RunStep
<1> QED BY <1>4, <1>5, <1>6

LEMMA SettledKeeps == ASSUME IInv, Settled PROVE IInv'
<1>1. GraphIsStoredOnce' /\ CancelledRunIsOver'
  BY DEF Settled, StretchStep, RunStep, GraphIsStoredOnce, CancelledRunIsOver, Started
<1>2. run.endings \in Nat
  BY DEF IInv, Shape, RunRow
<1>3. final'.pc \in Late => final' = final
  BY DEF Settled, StretchStep
<1>4. EndingsAreCounted'
  <2>1. run'.endings <= repairs' + (IF Over(run') THEN 1 ELSE 0) + Stored'
    BY EndingsKept DEF Settled, StretchStep
  <2>2. Over(run') \/ run'.finalized \/ final'.pc \in Late => run'.endings >= 1
    BY <1>2, <1>3 DEF Settled, StretchStep, RunStep, IInv, EndingsAreCounted
  <2> QED BY <2>1, <2>2 DEF EndingsAreCounted
\* An ending that is reported, or that is being reported, is there already.
<1>5. ASSUME Over(run'), run'.endings = 1, run.finalized \/ final.pc \in Late
      PROVE  Over(run) /\ run.endings = 1 /\ run'.status = run.status /\ result' = result
  <2>1. run.endings >= 1
    BY <1>5 DEF IInv, EndingsAreCounted
  <2>2. Over(run) /\ run.endings = 1
    BY <1>2, <1>5, <2>1 DEF Settled, StretchStep, RunStep
  <2>3. result' = result
    BY <2>2 DEF Settled
  <2>4. run'.status = run.status
    BY <1>5, <2>2 DEF Settled, StretchStep, RunStep
  <2> QED BY <2>2, <2>3, <2>4
<1>6. StatusIsCurrent'
  BY <1>3, <1>5 DEF StatusIsCurrent, IInv
<1>7. FirstEndingIsReported'
  <2>1. run'.finalized = run.finalized /\ notes \subseteq notes'
    BY DEF Settled, StretchStep
  <2> QED BY <1>5, <2>1 DEF FirstEndingIsReported, IInv
<1> QED BY <1>1, <1>4, <1>6, <1>7 DEF IInv, Settled


\* A step of #finalizeRun that has read status, begins or finishes a report, or synthesizes first.
LEMMA ReportKeeps ==
  ASSUME IInv, UNCHANGED <<kind, turn, graph, flight, start, cancel, phase, boot, repairs>>,
         plan' \in PlanStatuses, result' \in {"none"} \cup TerminalRunStatuses,
         run' \in RunRow, run'.status = run.status, run'.endings = run.endings, run.endings >= 1,
         final' \in FinalRow, notes' \in SUBSET Notes, notes \subseteq notes',
         NEW status, Over(run) /\ run.endings = 1 => result' = run.status /\ status = run.status,
         final'.pc \in Late => final'.status = status,
         run'.finalized => run.finalized \/ KindOf(status, graph) \subseteq notes'
  PROVE  IInv'
<1>1. Shape'
  BY DEF IInv, Shape
<1>2. GraphIsStoredOnce' /\ EndingsAreCounted' /\ CancelledRunIsOver'
  BY DEF IInv, GraphIsStoredOnce, EndingsAreCounted, CancelledRunIsOver, Over, Stored
<1>3. StatusIsCurrent'
  BY DEF StatusIsCurrent, Over
<1>4. FirstEndingIsReported'
  <2>1. KindOf("completed", graph) = {"completed"}
    BY DEF KindOf
  <2>2. KindOf("failed", graph) \in {{"failed"}, {"attention_required"}}
    BY DEF KindOf
  <2>3. CASE run.finalized
    BY <2>3 DEF FirstEndingIsReported, IInv, Over
  <2>4. CASE ~run.finalized
    BY <2>1, <2>2, <2>4 DEF FirstEndingIsReported, Over
  <2> QED BY <2>3, <2>4
<1> QED BY <1>1, <1>2, <1>3, <1>4 DEF IInv

LEMMA KindOfType == ASSUME NEW s, NEW g PROVE KindOf(s, g) \subseteq Notes
BY DEF KindOf, Notes

LEMMA ReportRowFacts ==
  ASSUME NEW r \in RunRow, NEW o \in {"notifying", "completed", "failed"}
  PROVE  /\ [r EXCEPT !.report = o] \in RunRow
         /\ [r EXCEPT !.report = o].status = r.status
         /\ [r EXCEPT !.report = o].endings = r.endings
         /\ [r EXCEPT !.report = o].finalized = r.finalized
         /\ [r EXCEPT !.finalized = TRUE] \in RunRow
         /\ [r EXCEPT !.finalized = TRUE].status = r.status
         /\ [r EXCEPT !.finalized = TRUE].endings = r.endings
BY DEF RunRow

LEMMA FinishedKeeps ==
  ASSUME IInv, UNCHANGED <<kind, turn, graph, flight, start, cancel, phase, boot, repairs>>,
         plan' \in PlanStatuses, result' \in {"none"} \cup TerminalRunStatuses, run.endings >= 1,
         NEW status, Over(run) /\ run.endings = 1 => result' = run.status /\ status = run.status,
         NEW r \in RunRow, r.status = run.status, r.endings = run.endings,
         Finished(r, status)
  PROVE  IInv'
<1>1. run' \in RunRow /\ run'.status = run.status /\ run'.endings = run.endings
  BY ReportRowFacts DEF Finished
<1>2. final' \in FinalRow /\ final'.pc \notin Late
  BY DEF Finished, NoFinal, FinalRow, Late
<1>3. notes' \in SUBSET Notes /\ notes \subseteq notes' /\ KindOf(status, graph) \subseteq notes'
  BY KindOfType DEF Finished, IInv, Shape
<1> QED BY <1>1, <1>2, <1>3, ReportKeeps

LEMMA ReportingKeeps ==
  ASSUME IInv, UNCHANGED <<kind, turn, graph, flight, start, cancel, phase, boot, repairs>>,
         plan' \in PlanStatuses, result' \in {"none"} \cup TerminalRunStatuses, run.endings >= 1,
         NEW status \in {"none"} \cup TerminalRunStatuses,
         Over(run) /\ run.endings = 1 => result' = run.status /\ status = run.status,
         Reporting(status)
  PROVE  IInv'
<1>1. run \in RunRow
  BY DEF IInv, Shape
<1>2. CASE Finished(run, status)
  BY <1>1, <1>2, FinishedKeeps
<1>3. CASE /\ run' = [run EXCEPT !.report = "notifying"]
           /\ final' = [pc |-> "reporting", status |-> status]
           /\ UNCHANGED notes
  <2>1. /\ run' \in RunRow /\ run'.status = run.status /\ run'.endings = run.endings
        /\ run'.finalized = run.finalized
    BY <1>1, <1>3, ReportRowFacts
  <2>2. final' \in FinalRow /\ final'.status = status /\ notes' \in SUBSET Notes /\ notes \subseteq notes'
    BY <1>3 DEF FinalRow, IInv, Shape
  <2> QED BY <2>1, <2>2, ReportKeeps
<1> QED BY <1>2, <1>3 DEF Reporting

LEMMA FinalizeKeeps == ASSUME IInv, Finalize PROVE IInv'
<1> USE DEF Finalize
<1>1. CASE ~Over(run) /\ final' = NoFinal /\ UNCHANGED <<run, plan, result, notes>>
  <2>1. final' \in FinalRow /\ final'.pc \notin Late
    BY <1>1 DEF NoFinal, FinalRow, Late
  <2>2. StretchStep
    BY <1>1, <2>1, Elsewhere DEF IInv, Shape, GraphIsStoredOnce
  <2>3. Settled
    BY <1>1, <2>2, StretchSettles, UnchangedParts DEF IInv, Shape
  <2> QED BY <2>3, SettledKeeps
<1>2. CASE Over(run)
  <2>1. result' = run.status /\ run.status \in TerminalRunStatuses
    BY <1>2 DEF Projected, Over
  <2>2. run.endings >= 1
    BY <1>2 DEF IInv, EndingsAreCounted
  <2>3. CASE Reporting(run.status) /\ UNCHANGED plan
    BY <2>1, <2>2, <2>3, ReportingKeeps DEF IInv, Shape
  <2>4. CASE /\ plan' = "synthesizing"
             /\ final' = [pc |-> "synthesizing", status |-> run.status]
             /\ UNCHANGED <<run, notes>>
    <3>1. final' \in FinalRow /\ final'.status = run.status /\ plan' \in PlanStatuses
      BY <2>1, <2>4 DEF FinalRow, PlanStatuses
    <3> QED BY <2>1, <2>2, <2>4, <3>1, ReportKeeps DEF IInv, Shape
  <2> QED BY <1>2, <2>3, <2>4
<1> QED BY <1>1, <1>2

LEMMA SynthesizedKeeps == ASSUME IInv, Synthesized PROVE IInv'
<1> USE DEF Synthesized
<1>1. final.pc \in Late /\ final.status \in {"none"} \cup TerminalRunStatuses
  BY DEF Late, IInv, Shape, FinalRow
<1>2. run.endings >= 1 /\ (Over(run) /\ run.endings = 1 => result' = run.status /\ final.status = run.status)
  BY <1>1 DEF IInv, EndingsAreCounted, StatusIsCurrent
<1>3. plan' \in PlanStatuses /\ result' \in {"none"} \cup TerminalRunStatuses
  BY DEF PlanStatuses, IInv, Shape
<1> QED BY <1>1, <1>2, <1>3, ReportingKeeps

LEMMA ReportedKeeps == ASSUME IInv, Reported PROVE IInv'
<1> USE DEF Reported
<1>1. final.pc \in Late /\ run \in RunRow
  BY DEF Late, IInv, Shape
<1>2. run.endings >= 1 /\ (Over(run) /\ run.endings = 1 => result' = run.status /\ final.status = run.status)
  BY <1>1 DEF IInv, EndingsAreCounted, StatusIsCurrent
<1>3. plan' \in PlanStatuses /\ result' \in {"none"} \cup TerminalRunStatuses
  BY DEF IInv, Shape
<1>4. PICK o \in {"completed", "failed"} : Finished([run EXCEPT !.report = o], final.status)
  OBVIOUS
<1>5. /\ [run EXCEPT !.report = o] \in RunRow /\ [run EXCEPT !.report = o].status = run.status
      /\ [run EXCEPT !.report = o].endings = run.endings
  BY <1>1, ReportRowFacts
<1> QED BY <1>2, <1>3, <1>4, <1>5, FinishedKeeps

Reports == Finalize \/ Synthesized \/ Reported

LEMMA NextSettles == ASSUME IInv, [Next]_vars PROVE Settled \/ Reports
BY EnqueueSettles, BeginSettles, IndexedSettles, PlannerReadySettles, PlannedSettles, InspectedSettles,
   DashboardOpenedSettles, ReleaseSettles, SpawnedSettles, KickedOffSettles, KickoffEndsSettles,
   RecoverSettles, ClaimedSettles, TasksEndSettles, ViewedSettles, CancelSettles, InterruptedSettles,
   RepairSettles, PollFinalizationSettles, CrashSettles, ReconcileSettles, ResumeSettles, StutterSettles
DEF Next, Reports

LEMMA InitInv == Init => IInv
<1> SUFFICES ASSUME Init PROVE IInv
  OBVIOUS
<1>1. run.status = "none" /\ run.endings = 0 /\ ~run.finalized /\ graph = "none" /\ flight.pc = "none" /\ final.pc = "none"
  BY DEF Init, NoFlight, NoFinal
<1>2. Shape
  <2>1. run \in RunRow /\ final \in FinalRow /\ flight \in FlightRow
    BY FlightFacts DEF Init, RunRow, FinalRow, NoFinal
  <2>2. turn \in TurnRow /\ plan \in PlanStatuses /\ graph \in Graphs /\ start \in Starts
    BY DEF Init, TurnRow, Turn, PlanStatuses, Graphs, Starts
  <2>3. boot \in 1..MaxBoots /\ repairs \in 0..MaxRepairs
    BY RunDispatchAssumption DEF Init
  <2>4. kind \in [planned : BOOLEAN, keyed : BOOLEAN, worktree : BOOLEAN] /\ phase = "up" /\ result = "none" /\ notes = {}
        /\ cancel = FALSE
    BY DEF Init
  <2> QED BY <2>1, <2>2, <2>3, <2>4 DEF Shape
<1>3. ~Over(run)
  BY <1>1, StatusFacts DEF Over
<1> QED BY <1>1, <1>2, <1>3, RunDispatchAssumption
  DEF Init, IInv, GraphIsStoredOnce, EndingsAreCounted, Stored, CancelledRunIsOver, StatusIsCurrent, FirstEndingIsReported, Early, Late

\* The inductive invariant: the Tasks of a Run are stored once, its endings are counted by its repairs,
\* and what a finalization has read is current as long as the Run has ended only once.
LEMMA IInvHolds == Spec => []IInv
<1>1. IInv /\ [Next]_vars => IInv'
  BY NextSettles, SettledKeeps, FinalizeKeeps, SynthesizedKeeps, ReportedKeeps DEF Reports
<1> QED BY <1>1, InitInv, PTL DEF Spec

-----------------------------------------------------------------------------
\* Type correctness; the bound on the endings is the one fact that needs the invariant.
THEOREM TypeCorrect == Spec => []TypeOK
<1>1. IInv => TypeOK
  <2> SUFFICES ASSUME IInv PROVE TypeOK
    OBVIOUS
  <2>1. Shape
    BY DEF IInv
  <2>2. run.endings \in 0..MaxRepairs + 2
    <3>1. run.endings \in Nat /\ repairs \in 0..MaxRepairs
      BY <2>1 DEF Shape, RunRow
    <3>2. run.endings <= repairs + (IF Over(run) THEN 1 ELSE 0) + Stored
      BY DEF IInv, EndingsAreCounted
    <3> QED BY <3>1, <3>2, RunDispatchAssumption DEF Stored
  <2>3. run \in [status : RunStatuses \cup {"none"}, path : {"none", "direct", "orchestrated"},
                 thread : BOOLEAN, report : {"none", "notifying", "completed", "failed"},
                 finalized : BOOLEAN, endings : 0..MaxRepairs + 2]
    BY <2>1, <2>2 DEF Shape, RunRow
  <2> QED BY <2>1, <2>3 DEF Shape, TypeOK, Graphs, PlanStatuses, TurnRow, Starts, Notes, FlightRow, FinalRow
<1> QED BY <1>1, IInvHolds, PTL

\* A Run that was cancelled has no Task that could still run, whatever dispatch, start, repair or crash
\* came before or after the cancellation (run-controller.js:179).
THEOREM CancelledRunsAreOver == Spec => []CancelledRunIsOver
<1>1. IInv => CancelledRunIsOver
  BY DEF IInv
<1> QED BY <1>1, IInvHolds, PTL

\* What a finalized Run says about its first ending is true, although #finalizeRun reads the status
\* before its awaits and a crash may come between them (registry.js:2536, mcp-server.js:3374).
THEOREM FirstEndingsAreReported == Spec => []FirstEndingIsReported
<1>1. IInv => FirstEndingIsReported
  BY DEF IInv
<1> QED BY <1>1, IInvHolds, PTL

\* A terminal status is left only by a repair, or by the dispatch that stores the Tasks over a
\* cancellation it has not seen.
THEOREM OnlyRepairReopens == Spec => ReopenedOnlyByRepair
<1>1. IInv /\ [Next]_vars =>
        [Over(run) /\ run'.status # run.status => repairs' # repairs \/ flight.pc = "inspecting"]_vars
  <2> SUFFICES ASSUME IInv, [Next]_vars, Over(run), run'.status # run.status
               PROVE  repairs' # repairs \/ flight.pc = "inspecting"
    OBVIOUS
  <2>1. CASE Settled
    BY <2>1, RunDispatchAssumption DEF Settled, StretchStep, RunStep, IInv, Shape
  <2>2. CASE Reports
    <3>1. run \in RunRow
      BY DEF IInv, Shape
    <3>2. PICK r \in {run, [run EXCEPT !.report = "notifying"], [run EXCEPT !.report = "completed"], [run EXCEPT !.report = "failed"]} :
            run' = r \/ run' = [r EXCEPT !.finalized = TRUE]
      BY <2>2 DEF Reports, Finalize, Synthesized, Reported, Reporting, Finished
    <3>3. r \in RunRow /\ r.status = run.status
      BY <3>1, ReportRowFacts
    <3> QED BY <3>2, <3>3, ReportRowFacts
  <2> QED BY <2>1, <2>2, NextSettles
<1>2. QED
  BY <1>1, IInvHolds, PTL DEF Spec, ReopenedOnlyByRepair
=============================================================================
