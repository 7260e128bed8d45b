------------------------- MODULE IntegrationProofs --------------------------
(***************************************************************************)
(* Theorems about Completion and Integration for every value of their      *)
(* constants: any Tasks, contracts, outcomes of turns and opinions of      *)
(* reviewers, any number of attempts and of crashes, cancellations,        *)
(* repairs, edits and calls of the user.                                   *)
(***************************************************************************)
EXTENDS Integration, TLAPS

Strategies == {"none", "patch"} \cup {k.strategy : k \in Contracts}
Artifacts == [kind : {"none", "unchanged", "changed"}, n : Nat, edits : SUBSET Attempt]
RowSet == [status : RowStatus, artifact : Artifacts, strategy : Strategies, journal : Nat]
Statuses == Claimable \cup ActiveStatus \cup Success \cup Repairable
TaskSet == [status : Statuses, attempt : 0..MaxAttempts, claim : {"none", "live", "gone"},
            result : Result \cup {NoResult}, review : Opinions \cup {NoResult}, heard : SUBSET Opinions]
Tree == [exists : BOOLEAN, edits : SUBSET Attempt]
Patch == [n : Nat, edits : SUBSET Attempt]
JournalSet == [task : Task, strategy : Strategies, artifact : Artifacts,
               status : {"prepared", "applying", "applied", "recorded"}]
WorkPc == {"idle", "turn", "validating", "finalizing", "integrating", "verifying",
           "blocked", "failing", "looking", "removing"}
WorkSet == [pc : WorkPc, by : {"worker", "stale"}, row : RowSet]
ToolSet == [pc : {"idle", "looking", "removing", "integrating"}, task : Task \cup {"none"}, row : RowSet]
CallSet == [by : {"work", "tool", "boot"}, task : Task, strategy : Strategies]
OpSet == [pc : {"none", "prepared", "detecting", "applying", "marking", "applied", "recording"},
          row : RowSet, artifact : Artifacts, strategy : Strategies, journal : Nat]
BootSet == [pc : {"up", "listing", "replaying", "waiting"}, replay : SUBSET Nat, settle : SUBSET Nat]
DestSet == [edits : [Task -> SUBSET Attempt], touched : [Task -> {"no", "yes", "undone"}], dirty : BOOLEAN]

Shape ==
  /\ contract \in [Task -> Contracts] /\ task \in [Task -> TaskSet] /\ row \in [Task -> RowSet]
  /\ disk \in [Task -> Tree] /\ patch \in [Task -> Patch] /\ journal \in Seq(JournalSet)
  /\ dest \in DestSet /\ work \in [Task -> WorkSet] /\ tool \in ToolSet /\ queue \in Seq(CallSet)
  /\ op \in OpSet /\ boot \in BootSet /\ faults \in 0..MaxFaults

\* A row of managed_worktrees, stored or read before an await: n is how many journals there are, p what is
\* in the patch file of its Task.
Backed(r, n, p) == r.journal <= n /\ (r.artifact.kind = "changed" => p # {})

\* What the row of a Task, the worker of it, its directory and its patch file have to do with each other.
\* The edits of the attempt that goes on are in the directory, as long as there is one, and once they
\* are to be integrated they are in the patch file.
Coherent(k, w, d, p, tree) ==
  /\ k.claim # "none" <=> k.status \in ActiveStatus
  /\ k.status \in ActiveStatus => k.attempt # 0
  /\ k.status \in {"validating", "integration_pending"} => k.result # NoResult
  /\ k.status = "running" => w.pc \in {"idle", "turn"}
  /\ w.by = "worker" /\ w.pc # "idle" => k.claim # "gone"
  /\ d.exists \/ d.edits = {}
  /\ (k.status \in ActiveStatus /\ tree /\ k.result # NoResult /\ k.result.edits) =>
       /\ d.exists => k.attempt \in d.edits
       /\ w.pc \in {"integrating", "verifying"} => k.attempt \in p

TaskIsCoherent(t) ==
  /\ Coherent(task[t], work[t], disk[t], patch[t].edits, HasTree(t))
  /\ Backed(row[t], Len(journal), patch[t].edits) /\ Backed(work[t].row, Len(journal), patch[t].edits)
  /\ row[t].status = "none" => ~HasTree(t) \/ task[t].attempt = 0

\* The user's tool has read the row of a Task.
ToolIsBacked ==
  tool.pc \in {"looking", "removing"} =>
    tool.task \in Task /\ Backed(tool.row, Len(journal), patch[tool.task].edits)

\* The integration in progress applies a patch that is there.
OpIsBacked ==
  op.pc # "none" =>
    /\ queue # <<>> /\ op.journal \in 1..Len(journal) /\ op.artifact.kind = "changed"
    /\ patch[Head(queue).task].edits # {} /\ Backed(op.row, Len(journal), patch[Head(queue).task].edits)

\* A worker has one call in the queue, and waits for it.
CallsAreAwaited ==
  \A i \in 1..Len(queue) : queue[i].by = "work" =>
    /\ work[queue[i].task].pc = "integrating"
    /\ \A j \in 1..Len(queue) : queue[j].by = "work" /\ queue[j].task = queue[i].task => i = j

BootIsBacked == boot.replay \subseteq 1..Len(journal) /\ boot.settle \subseteq 1..Len(journal)

IInv ==
  /\ Shape /\ \A t \in Task : TaskIsCoherent(t)
  /\ ToolIsBacked /\ OpIsBacked /\ CallsAreAwaited /\ BootIsBacked

-----------------------------------------------------------------------------
\* What the verdicts say

\* A verdict that accepts an execution: the turn had completed, and no test that failed is left without
\* a later success - an acceptance review can excuse no test.
LEMMA AcceptedIsClean ==
  ASSUME NEW e, e.result \in Result, ExecutionVerdict(e).decision = "accept"
  PROVE  e.result.turn = "completed" /\ LastTestPassed(e.result.commands)
<1> DEFINE r == e.result
           c == e.result.commands
           reviews == NeedsReview(e.contract)
<1>1. Assess(r, reviews) = NoFailure
  BY DEF ExecutionVerdict, Rejection
<1>2. \A type : Failure(type) = NoFailure => type = "none"
  BY DEF Failure, NoFailure
<1>3. r.error \in FailureType \cup {"none"} /\ c \in Seq(Command)
  BY DEF Result
<1>4. ~(r.turn # "completed" \/ r.error # "none")
  <2> SUFFICES ASSUME r.turn # "completed" \/ r.error # "none" PROVE FALSE
    OBVIOUS
  <2>1. TurnFailure(r) = NoFailure
    BY <1>1 DEF Assess
  <2> QED BY <2>1, <1>2 DEF TurnFailure
<1>5. Failing(c) \ ToReview(r, reviews) = {}
  <2> DEFINE bad == Failing(c) \ ToReview(r, reviews)
             first == CHOOSE i \in bad : \A j \in bad : i <= j
  <2> SUFFICES ASSUME bad # {} PROVE FALSE
    OBVIOUS
  <2>1. CommandFailure(c[first]) = NoFailure
    BY <1>1, <1>4 DEF Assess
  <2> QED BY <2>1, <1>2 DEF CommandFailure
<1>6. ASSUME NEW i \in 1..Len(c), c[i].kind = "test"
      PROVE  \E j \in i..Len(c) : c[j].kind = "test" /\ Succeeds(c[j])
  <2>1. CASE Succeeds(c[i])
    BY <2>1, <1>3, <1>6
  <2>2. CASE Superseded(c, i)
    BY <2>2, <1>3, <1>6 DEF Superseded
  <2>3. CASE ~Succeeds(c[i]) /\ ~Superseded(c, i)
    <3>1. i \in Failing(c)
      BY <2>3, <1>6 DEF Failing, EmptySearch
    <3>2. i \in ToReview(r, reviews)
      BY <3>1, <1>5
    <3>3. Reviewable(c[i])
      BY <3>2 DEF ToReview
    <3> QED BY <3>3, <1>6 DEF Reviewable, CommandFailure, Failure
  <2> QED BY <2>1, <2>2, <2>3
<1> HIDE DEF r, c, reviews
<1>7. LastTestPassed(c)
  BY <1>6 DEF LastTestPassed
<1> QED BY <1>4, <1>7 DEF r, c

\* A verdict that accepts a Task: its execution is accepted, its criteria were reviewed, and a worktree's
\* changes are in the destination where one looked.
LEMMA AcceptedIsComplete ==
  ASSUME NEW e, Verdict(e).decision \in Accepting
  PROVE  /\ ExecutionVerdict(e).decision = "accept"
         /\ e.contract.criteria => e.validation # "none"
         /\ e.contract.strategy # "none" /\ e.integrated => e.artifact = "changed"
         /\ e.postcondition # "failed"
<1>1. ExecutionVerdict(e).decision = "accept"
  <2> SUFFICES ASSUME ExecutionVerdict(e).decision # "accept" PROVE FALSE
    OBVIOUS
  <2>1. ExecutionVerdict(e).decision \in Accepting
    BY DEF Verdict
  <2> QED BY <2>1 DEF ExecutionVerdict, Rejection, Attention, Accepting
<1>2. ~Missing(e) /\ ~Conflicting(e)
  BY <1>1 DEF Verdict, Rework, Rejection, Attention, Accepting
<1> QED BY <1>1, <1>2 DEF Missing, Conflicting, MissingIntegration

-----------------------------------------------------------------------------
\* Rows

LEMMA EndedRow ==
  ASSUME NEW k \in TaskSet, NEW s \in Statuses \ ActiveStatus
  PROVE  /\ Ended(k, s) \in TaskSet /\ Ended(k, s).status = s /\ Ended(k, s).claim = "none"
         /\ Ended(k, s).attempt = k.attempt /\ Ended(k, s).result = k.result /\ Ended(k, s).review = k.review
BY DEF Ended, TaskSet

LEMMA FailedRowEnds ==
  ASSUME NEW k \in TaskSet, NEW f, NEW s \in Repairable, NEW feedback \in SUBSET Opinions
  PROVE  LET r == FailedRow(k, f, s, feedback) IN
         /\ r \in TaskSet /\ r.status \in {"retry_waiting", s} /\ r.claim = "none"
         /\ r.attempt = k.attempt /\ r.result = k.result
<1> DEFINE new == feedback = {} \/ ~(feedback \subseteq k.heard)
           t == IF Retries(f, MaxAttempts - k.attempt, feedback # {}, new) THEN "retry_waiting" ELSE s
<1>1. t \in {"retry_waiting", s}
  OBVIOUS
<1>2. FailedRow(k, f, s, feedback) = [Ended(k, t) EXCEPT !.heard = @ \cup feedback]
  BY DEF FailedRow
<1> HIDE DEF t
<1>3. t \in Statuses \ ActiveStatus
  BY <1>1 DEF Statuses, ActiveStatus, Repairable, Claimable
<1>4. Ended(k, t).heard \in SUBSET Opinions
  BY <1>3, EndedRow DEF TaskSet
<1> QED BY <1>1, <1>2, <1>3, <1>4, EndedRow DEF TaskSet

\* A Task that is nobody's says nothing about its worktree.
LEMMA OverIsCoherent ==
  ASSUME NEW k \in TaskSet, NEW w, NEW d, NEW p, NEW tree,
         k.claim = "none", k.status \notin ActiveStatus, d.exists \/ d.edits = {}
  PROVE  Coherent(k, w, d, p, tree)
BY DEF Coherent, ActiveStatus

LEMMA NoRowBacked == ASSUME NEW n \in Nat, NEW p PROVE NoRow \in RowSet /\ Backed(NoRow, n, p)
BY DEF NoRow, NoArtifact, RowSet, RowStatus, Artifacts, Strategies, Backed

LEMMA IdleBacked ==
  ASSUME NEW n \in Nat, NEW p
  PROVE  Idle \in WorkSet /\ Backed(Idle.row, n, p) /\ Idle.pc = "idle" /\ Idle.by = "worker"
BY NoRowBacked DEF Idle, WorkSet, WorkPc

LEMMA NoOps == NoTool \in ToolSet /\ NoOp \in OpSet /\ NoBoot \in BootSet
<1>1. NoRow \in RowSet BY NoRowBacked
<1>2. NoArtifact \in Artifacts BY DEF NoArtifact, Artifacts
<1> QED BY <1>1, <1>2 DEF NoTool, NoOp, NoBoot, ToolSet, OpSet, BootSet, Strategies

\* A row stays backed: journals are added and patch files are not emptied.
LEMMA StaysBacked ==
  ASSUME NEW r \in RowSet, NEW n \in Nat, NEW m \in Nat, NEW p, NEW q, Backed(r, n, p), n <= m, p # {} => q # {}
  PROVE  Backed(r, m, q)
BY DEF Backed, RowSet

\* What journals, patch files and the queue may do in any step.
Grows ==
  /\ Len(journal) \in Nat /\ Len(journal') \in Nat /\ Len(journal) <= Len(journal')
  /\ \A t \in Task : patch[t].edits # {} => patch'[t].edits # {}

LEMMA SameGrows == ASSUME IInv, UNCHANGED <<journal, patch>> PROVE Grows
BY DEF IInv, Shape, Grows

\* A Task nobody touches stays coherent.
LEMMA StaysCoherent ==
  ASSUME Shape, Grows, NEW u \in Task, TaskIsCoherent(u),
         contract' = contract, task'[u] = task[u], work'[u] = work[u], disk'[u] = disk[u],
         patch'[u] = patch[u], row'[u] = row[u]
  PROVE  TaskIsCoherent(u)'
<1>1. row[u] \in RowSet /\ work[u].row \in RowSet
  BY DEF Shape, WorkSet
<1>2. Backed(row[u], Len(journal'), patch[u].edits) /\ Backed(work[u].row, Len(journal'), patch[u].edits)
  BY <1>1, StaysBacked DEF TaskIsCoherent, Grows
<1> QED BY <1>2 DEF TaskIsCoherent, HasTree

LEMMA StaysTool ==
  ASSUME Shape, ToolIsBacked, Grows, UNCHANGED tool
  PROVE  ToolIsBacked'
<1>1. tool.row \in RowSet
  BY DEF Shape, ToolSet
<1> SUFFICES ASSUME tool.pc \in {"looking", "removing"}
             PROVE  tool.task \in Task /\ Backed(tool.row, Len(journal'), patch'[tool.task].edits)
  BY DEF ToolIsBacked
<1>2. tool.task \in Task /\ Backed(tool.row, Len(journal), patch[tool.task].edits)
  BY DEF ToolIsBacked
<1> QED BY <1>1, <1>2, StaysBacked DEF Grows

\* The integration goes on, or calls are added behind it.
LEMMA StaysOp ==
  ASSUME Shape, OpIsBacked, Grows, UNCHANGED op, queue # <<>> => Head(queue') = Head(queue) /\ queue' # <<>>
  PROVE  OpIsBacked'
<1>1. op.row \in RowSet /\ op.journal \in Nat
  BY DEF Shape, OpSet
<1> SUFFICES ASSUME op.pc # "none"
             PROVE  /\ queue' # <<>> /\ op.journal \in 1..Len(journal') /\ op.artifact.kind = "changed"
                    /\ patch'[Head(queue').task].edits # {}
                    /\ Backed(op.row, Len(journal'), patch'[Head(queue').task].edits)
  BY DEF OpIsBacked
<1>2. queue # <<>> /\ Head(queue).task \in Task
  <2>1. queue # <<>> /\ queue \in Seq(CallSet)
    BY DEF OpIsBacked, Shape
  <2>2. Head(queue) \in CallSet
    BY <2>1
  <2> QED BY <2>1, <2>2 DEF CallSet
<1>3. /\ op.journal \in 1..Len(journal) /\ op.artifact.kind = "changed" /\ patch[Head(queue).task].edits # {}
      /\ Backed(op.row, Len(journal), patch[Head(queue).task].edits)
  BY DEF OpIsBacked
<1>4. Backed(op.row, Len(journal'), patch'[Head(queue).task].edits)
  BY <1>1, <1>2, <1>3, StaysBacked DEF Grows
<1> QED BY <1>1, <1>2, <1>3, <1>4 DEF Grows

LEMMA StaysBoot ==
  ASSUME Shape, BootIsBacked, Grows, UNCHANGED boot
  PROVE  BootIsBacked'
BY DEF BootIsBacked, Grows

\* No call of a worker is added, and no worker with a call moves.
LEMMA StaysAwaited ==
  ASSUME Shape, CallsAreAwaited, UNCHANGED queue,
         \A u \in Task : work[u].pc = "integrating" => work'[u].pc = "integrating"
  PROVE  CallsAreAwaited'
<1>1. \A i \in 1..Len(queue) : queue[i].task \in Task
  <2>1. queue \in Seq(CallSet)
    BY DEF Shape
  <2>2. \A i \in 1..Len(queue) : queue[i] \in CallSet
    BY <2>1
  <2> QED BY <2>2 DEF CallSet
<1> QED BY <1>1 DEF CallsAreAwaited

-----------------------------------------------------------------------------
\* Steps of a worker or of the stale-Task reconciliation: one Task's row and worker change.
LEMMA WorkerKeeps ==
  ASSUME IInv, NEW t \in Task, NEW k \in TaskSet, NEW w \in WorkSet,
         task' = [task EXCEPT ![t] = k], work' = [work EXCEPT ![t] = w],
         WorktreeSame, UNCHANGED contract, faults' \in 0..MaxFaults,
         k.attempt = task[t].attempt,
         Coherent(k, w, disk[t], patch[t].edits, HasTree(t)),
         Backed(w.row, Len(journal), patch[t].edits),
         work[t].pc # "integrating"
  PROVE  IInv'
<1> USE DEF WorktreeSame
<1>1. Shape' BY DEF IInv, Shape
<1>2. Grows BY SameGrows
<1>3. Shape BY DEF IInv
<1>4. \A u \in Task : task'[u] = IF u = t THEN k ELSE task[u]
  BY <1>3 DEF Shape
<1>5. \A u \in Task : work'[u] = IF u = t THEN w ELSE work[u]
  BY <1>3 DEF Shape
<1>6. ASSUME NEW u \in Task PROVE TaskIsCoherent(u)'
  <2>1. CASE u = t
    BY <2>1, <1>4, <1>5 DEF IInv, TaskIsCoherent, HasTree
  <2>2. CASE u # t
    BY <2>2, <1>2, <1>3, <1>4, <1>5, StaysCoherent DEF IInv
  <2> QED BY <2>1, <2>2
<1>7. ToolIsBacked' /\ OpIsBacked' /\ BootIsBacked'
  BY <1>2, <1>3, StaysTool, StaysOp, StaysBoot DEF IInv
<1>8. CallsAreAwaited'
  BY <1>3, <1>5, StaysAwaited DEF IInv
<1> QED BY <1>1, <1>6, <1>7, <1>8 DEF IInv

\* Only a Task's row changes, and start-up may go on.
LEMMA TaskKeeps ==
  ASSUME IInv, NEW t \in Task, NEW k \in TaskSet, task' = [task EXCEPT ![t] = k],
         UNCHANGED <<contract, work, row, disk, patch, journal, dest, tool, queue, op>>, faults' \in 0..MaxFaults,
         boot' \in BootSet, boot'.replay \subseteq boot.replay, boot'.settle \subseteq boot.settle,
         k.attempt = task[t].attempt,
         Coherent(k, work[t], disk[t], patch[t].edits, HasTree(t))
  PROVE  IInv'
<1>1. Shape' BY DEF IInv, Shape
<1>2. Grows BY SameGrows
<1>3. Shape BY DEF IInv
<1>4. \A u \in Task : task'[u] = IF u = t THEN k ELSE task[u]
  BY <1>3 DEF Shape
<1>6. ASSUME NEW u \in Task PROVE TaskIsCoherent(u)'
  <2>1. CASE u = t
    BY <2>1, <1>4 DEF IInv, TaskIsCoherent, HasTree
  <2>2. CASE u # t
    BY <2>2, <1>2, <1>3, <1>4, StaysCoherent DEF IInv
  <2> QED BY <2>1, <2>2
<1>7. ToolIsBacked' /\ OpIsBacked' /\ BootIsBacked'
  BY <1>2, <1>3, StaysTool, StaysOp DEF IInv, BootIsBacked
<1>8. CallsAreAwaited'
  BY <1>3, StaysAwaited DEF IInv
<1> QED BY <1>1, <1>6, <1>7, <1>8 DEF IInv

LEMMA InitKeeps == Init => IInv
<1> SUFFICES ASSUME Init PROVE IInv
  OBVIOUS
<1> USE DEF Init
<1>1. NoRow \in RowSet /\ Idle \in WorkSet /\ NoTool \in ToolSet /\ NoOp \in OpSet /\ NoBoot \in BootSet
  BY NoRowBacked, IdleBacked, NoOps
<1>2. [status |-> "queued", attempt |-> 0, claim |-> "none", result |-> NoResult,
       review |-> NoResult, heard |-> {}] \in TaskSet
  BY IntegrationAssumption DEF TaskSet, Statuses, Claimable
<1>3. [exists |-> FALSE, edits |-> {}] \in Tree /\ [n |-> 0, edits |-> {}] \in Patch
  BY DEF Tree, Patch
<1>4. dest \in DestSet
  BY DEF DestSet
<1>5. Shape
  BY <1>1, <1>2, <1>3, <1>4, IntegrationAssumption DEF Shape
<1>6. Len(journal) = 0 /\ Len(queue) = 0
  OBVIOUS
<1>7. \A t \in Task : TaskIsCoherent(t)
  BY <1>6, NoRowBacked, IdleBacked DEF TaskIsCoherent, Coherent, ActiveStatus
<1>8. ToolIsBacked /\ OpIsBacked /\ CallsAreAwaited /\ BootIsBacked
  BY <1>6 DEF ToolIsBacked, OpIsBacked, CallsAreAwaited, BootIsBacked, NoTool, NoOp, NoBoot
<1> QED BY <1>5, <1>7, <1>8 DEF IInv

-----------------------------------------------------------------------------
(***************************************************************************)
(* integrate: rows, patch files and journals change, and the caller is     *)
(* answered.                                                               *)
(***************************************************************************)
LEMMA ToolGoesOn ==
  ASSUME Shape, ToolIsBacked, Grows, tool' = tool \/ tool' = NoTool
  PROVE  ToolIsBacked'
<1>1. CASE tool' = tool
  BY <1>1, StaysTool
<1>2. CASE tool' = NoTool
  BY <1>2 DEF ToolIsBacked, NoTool
<1> QED BY <1>1, <1>2

LEMMA BootGoesOn ==
  ASSUME Shape, BootIsBacked, Grows, boot'.replay \subseteq boot.replay, boot'.settle \subseteq boot.settle
  PROVE  BootIsBacked'
BY DEF BootIsBacked, Grows

\* What an answer does to a worker.
Moves(w, v) ==
  /\ v.by = w.by /\ v.row = w.row
  /\ v.pc = w.pc \/ (w.pc = "integrating" /\ v.pc \in {"verifying", "blocked"})

LEMMA MovesCoherently ==
  ASSUME NEW k \in TaskSet, NEW w \in WorkSet, NEW v \in WorkSet, NEW d, NEW p, NEW q, NEW tree,
         Coherent(k, w, d, p, tree), Moves(w, v), q = p \/ (d.exists /\ q = d.edits)
  PROVE  Coherent(k, v, d, q, tree)
<1>1. v.pc \in {"integrating", "verifying"} => w.pc \in {"integrating", "verifying"}
  BY DEF Moves
<1>2. v.pc = "idle" <=> w.pc = "idle"
  BY DEF Moves
<1>3. w.pc \in {"idle", "turn"} => v.pc = w.pc
  BY DEF Moves
<1> QED BY <1>1, <1>2, <1>3 DEF Coherent, Moves

\* Tasks stay coherent while an integration changes rows, patch files and journals.
LEMMA IntegrateCoherently ==
  ASSUME IInv, Shape', Grows, UNCHANGED <<contract, task, disk>>,
         \A u \in Task : Backed(row'[u], Len(journal'), patch'[u].edits),
         \A u \in Task : row'[u].status = "none" => row[u].status = "none",
         \A u \in Task : Moves(work[u], work'[u]),
         \A u \in Task : patch'[u].edits = patch[u].edits \/ (disk[u].exists /\ patch'[u].edits = disk[u].edits)
  PROVE  \A u \in Task : TaskIsCoherent(u)'
<1> SUFFICES ASSUME NEW u \in Task PROVE TaskIsCoherent(u)'
  OBVIOUS
<1>1. Shape /\ TaskIsCoherent(u)
  BY DEF IInv
<1>2. task[u] \in TaskSet /\ work[u] \in WorkSet /\ work'[u] \in WorkSet /\ work[u].row \in RowSet
  BY <1>1 DEF Shape, WorkSet
<1>3. Coherent(task[u], work[u], disk[u], patch[u].edits, HasTree(u))
  BY <1>1 DEF TaskIsCoherent
<1>4. Coherent(task[u], work'[u], disk[u], patch'[u].edits, HasTree(u))
  BY <1>2, <1>3, MovesCoherently
<1>5. Backed(work[u].row, Len(journal'), patch'[u].edits)
  BY <1>1, <1>2, StaysBacked DEF TaskIsCoherent, Grows
<1>6. work'[u].row = work[u].row
  BY DEF Moves
<1> QED BY <1>1, <1>4, <1>5, <1>6 DEF TaskIsCoherent, HasTree

LEMMA WaitingMoves == ASSUME UNCHANGED work PROVE \A u \in Task : Moves(work[u], work'[u])
BY DEF Moves

\* An answer: the call leaves the queue and its caller goes on.
LEMMA Answers ==
  ASSUME Shape, CallsAreAwaited, queue # <<>>, NEW ok \in BOOLEAN, Answer(ok)
  PROVE  /\ queue' \in Seq(CallSet) /\ op' = NoOp
         /\ work' \in [Task -> WorkSet] /\ tool' \in ToolSet /\ boot' \in BootSet
         /\ \A u \in Task : Moves(work[u], work'[u])
         /\ tool' = tool \/ tool' = NoTool
         /\ boot'.replay = boot.replay /\ boot'.settle = boot.settle
         /\ CallsAreAwaited' /\ OpIsBacked'
<1> DEFINE c == Head(queue)
<1>1. queue \in Seq(CallSet) /\ c \in CallSet /\ c = queue[1] /\ Len(queue) \in Nat /\ Len(queue) >= 1
  BY DEF Shape
<1>2. c.task \in Task /\ c.by \in {"work", "tool", "boot"}
  BY <1>1 DEF CallSet
<1>3. queue' = Tail(queue) /\ op' = NoOp
  BY DEF Answer
<1>4. queue' \in Seq(CallSet) /\ Len(queue') = Len(queue) - 1
      /\ \A i \in 1..Len(queue') : queue'[i] = queue[i + 1] /\ i + 1 \in 1..Len(queue)
  BY <1>1, <1>3
<1>5. CASE c.by = "work"
  <2> DEFINE pc == IF ok THEN "verifying" ELSE "blocked"
  <2>1. work' = [work EXCEPT ![c.task] = [work[c.task] EXCEPT !.pc = pc]] /\ UNCHANGED <<tool, boot>>
    BY <1>5 DEF Answer
  <2>2. pc \in {"verifying", "blocked"} /\ pc \in WorkPc
    BY DEF WorkPc
  <2> HIDE DEF pc
  <2>3. work[c.task].pc = "integrating"
    BY <1>1, <1>5 DEF CallsAreAwaited
  <2>4. work[c.task] \in WorkSet
    BY <1>2 DEF Shape
  <2>5. [work[c.task] EXCEPT !.pc = pc] \in WorkSet /\ Moves(work[c.task], [work[c.task] EXCEPT !.pc = pc])
    BY <2>2, <2>3, <2>4 DEF WorkSet, Moves
  <2>6. work' \in [Task -> WorkSet]
    BY <2>1, <2>5 DEF Shape
  <2>7. \A u \in Task : work'[u] = IF u = c.task THEN [work[c.task] EXCEPT !.pc = pc] ELSE work[u]
    BY <2>1 DEF Shape
  <2>8. \A u \in Task : Moves(work[u], work'[u])
    BY <2>5, <2>7 DEF Moves
  <2>9. ASSUME NEW i \in 1..Len(queue'), queue'[i].by = "work"
        PROVE  /\ work'[queue'[i].task].pc = "integrating"
               /\ \A j \in 1..Len(queue') : queue'[j].by = "work" /\ queue'[j].task = queue'[i].task => i = j
    <3>1. queue'[i] = queue[i + 1] /\ i + 1 \in 1..Len(queue) /\ queue'[i] \in CallSet /\ i \in Nat
      BY <1>4
    <3>2. work[queue[i + 1].task].pc = "integrating"
          /\ \A j \in 1..Len(queue) : queue[j].by = "work" /\ queue[j].task = queue[i + 1].task => i + 1 = j
      BY <3>1, <2>9 DEF CallsAreAwaited
    <3>3. queue[i + 1].task # c.task
      BY <3>1, <3>2, <1>1, <1>5
    <3>4. queue'[i].task \in Task
      BY <3>1 DEF CallSet
    <3>5. work'[queue'[i].task].pc = "integrating"
      BY <3>1, <3>2, <3>3, <3>4, <2>7
    <3>6. ASSUME NEW j \in 1..Len(queue'), queue'[j].by = "work", queue'[j].task = queue'[i].task PROVE i = j
      <4>1. queue'[j] = queue[j + 1] /\ j + 1 \in 1..Len(queue) /\ j \in Nat
        BY <1>4
      <4>2. i + 1 = j + 1
        BY <3>1, <3>2, <3>6, <4>1
      <4> QED BY <3>1, <4>1, <4>2
    <3> QED BY <3>5, <3>6
  <2> QED BY <2>1, <2>6, <2>8, <2>9, <1>3, <1>4 DEF CallsAreAwaited, OpIsBacked, NoOp, Shape
<1>6. CASE c.by # "work"
  <2>1. UNCHANGED work /\ tool' \in ToolSet /\ boot' \in BootSet /\ (tool' = tool \/ tool' = NoTool)
        /\ boot'.replay = boot.replay /\ boot'.settle = boot.settle
    <3>1. CASE c.by = "tool"
      BY <3>1, NoOps DEF Answer, Shape
    <3>2. CASE c.by = "boot"
      BY <3>2 DEF Answer, Shape, BootSet
    <3> QED BY <1>2, <1>6, <3>1, <3>2
  <2>2. \A u \in Task : Moves(work[u], work'[u])
    BY <2>1 DEF Moves
  <2>3. ASSUME NEW i \in 1..Len(queue'), queue'[i].by = "work"
        PROVE  /\ work'[queue'[i].task].pc = "integrating"
               /\ \A j \in 1..Len(queue') : queue'[j].by = "work" /\ queue'[j].task = queue'[i].task => i = j
    <3>1. queue'[i] = queue[i + 1] /\ i + 1 \in 1..Len(queue) /\ i \in Nat
      BY <1>4
    <3>2. work[queue[i + 1].task].pc = "integrating"
          /\ \A j \in 1..Len(queue) : queue[j].by = "work" /\ queue[j].task = queue[i + 1].task => i + 1 = j
      BY <3>1, <2>3 DEF CallsAreAwaited
    <3>3. ASSUME NEW j \in 1..Len(queue'), queue'[j].by = "work", queue'[j].task = queue'[i].task PROVE i = j
      <4>1. queue'[j] = queue[j + 1] /\ j + 1 \in 1..Len(queue) /\ j \in Nat
        BY <1>4
      <4>2. i + 1 = j + 1
        BY <3>1, <3>2, <3>3, <4>1
      <4> QED BY <3>1, <4>1, <4>2
    <3> QED BY <3>1, <3>2, <3>3, <2>1
  <2>4. CallsAreAwaited'
    BY <2>3 DEF CallsAreAwaited
  <2> QED BY <2>1, <2>2, <2>4, <1>3, <1>4 DEF OpIsBacked, NoOp, Shape
<1> QED BY <1>5, <1>6

LEMMA ArtifactOfTyped == ASSUME Shape, NEW t \in Task PROVE ArtifactOf(t) \in Artifacts
<1>1. patch[t] \in Patch /\ disk[t] \in Tree
  BY DEF Shape
<1>2. patch[t].n \in Nat /\ disk[t].edits \in SUBSET Attempt
  BY <1>1 DEF Patch, Tree
<1> QED BY <1>2 DEF ArtifactOf, Artifacts

\* The artifact of finalize, in a directory that is there.
LEMMA Finalizes ==
  ASSUME Shape, NEW t \in Task, Finalize(t), disk[t].exists,
         Backed(row[t], Len(journal), patch[t].edits)
  PROVE  /\ row' \in [Task -> RowSet] /\ patch' \in [Task -> Patch]
         /\ \A u \in Task : u # t => row'[u] = row[u] /\ patch'[u] = patch[u]
         /\ row'[t] = FinalizedRow(t) /\ row'[t].artifact = ArtifactOf(t) /\ ArtifactOf(t) \in Artifacts
         /\ ArtifactOf(t).kind = "changed" => patch'[t].edits # {}
         /\ row'[t].status = "none" => row[t].status = "none"
         /\ Backed(row'[t], Len(journal), patch'[t].edits)
         /\ patch'[t].edits = patch[t].edits \/ patch'[t].edits = disk[t].edits
         /\ disk[t].edits # {} => patch'[t].edits = disk[t].edits
         /\ \A u \in Task : patch[u].edits # {} => patch'[u].edits # {}
<1>1. row[t] \in RowSet /\ patch[t] \in Patch /\ disk[t] \in Tree
  BY DEF Shape
<1>2. patch[t].n \in Nat /\ patch[t].edits \in SUBSET Attempt /\ disk[t].edits \in SUBSET Attempt
  BY <1>1 DEF Patch, Tree
<1>3. ArtifactOf(t) \in Artifacts
  BY ArtifactOfTyped
<1> DEFINE s == IF Changed(t) THEN "artifact_ready" ELSE row[t].status
<1>4. FinalizedRow(t) = [[row[t] EXCEPT !.artifact = ArtifactOf(t)] EXCEPT !.status = s] /\ s \in RowStatus
      /\ (s = "none" => row[t].status = "none")
  BY <1>1 DEF FinalizedRow, RowSet, RowStatus
<1> HIDE DEF s
<1>5. /\ FinalizedRow(t) \in RowSet /\ FinalizedRow(t).artifact = ArtifactOf(t)
      /\ FinalizedRow(t).status = s /\ FinalizedRow(t).journal = row[t].journal
  BY <1>1, <1>3, <1>4 DEF RowSet
<1>6. row' = [row EXCEPT ![t] = FinalizedRow(t)]
  BY DEF Finalize
<1> DEFINE p == IF Changed(t) THEN [n |-> patch[t].n + 1, edits |-> disk[t].edits] ELSE patch[t]
<1>7. patch' = [patch EXCEPT ![t] = p] /\ p \in Patch
  BY <1>1, <1>2 DEF Finalize, Patch
<1>8. p.edits = IF Changed(t) THEN disk[t].edits ELSE patch[t].edits
  OBVIOUS
<1> HIDE DEF p
<1>9. row' \in [Task -> RowSet] /\ row'[t] = FinalizedRow(t) /\ (\A u \in Task : u # t => row'[u] = row[u])
  BY <1>5, <1>6 DEF Shape
<1>10. patch' \in [Task -> Patch] /\ patch'[t] = p /\ (\A u \in Task : u # t => patch'[u] = patch[u])
  BY <1>7 DEF Shape
<1>11. ArtifactOf(t).kind = "changed" => patch'[t].edits # {}
  BY <1>8, <1>10 DEF ArtifactOf, Changed
<1>12. Backed(row'[t], Len(journal), patch'[t].edits)
  BY <1>5, <1>9, <1>11 DEF Backed
<1>13. \A u \in Task : patch[u].edits # {} => patch'[u].edits # {}
  BY <1>8, <1>10 DEF Changed
<1> QED BY <1>3, <1>4, <1>5, <1>8, <1>9, <1>10, <1>11, <1>12, <1>13 DEF Changed

\* The journal of a call is found or added at the end.
LEMMA Journals ==
  ASSUME Shape, NEW c \in CallSet, NEW a \in Artifacts
  PROVE  Journalled(c, a) \in Seq(JournalSet) /\ Len(journal) \in Nat
         /\ Len(Journalled(c, a)) \in Nat /\ Len(journal) <= Len(Journalled(c, a))
<1> DEFINE j == [task |-> c.task, strategy |-> c.strategy, artifact |-> a, status |-> "prepared"]
<1>1. j \in JournalSet /\ journal \in Seq(JournalSet)
  BY DEF JournalSet, CallSet, Shape
<1>2. Journalled(c, a) = journal \/ Journalled(c, a) = Append(journal, j)
  BY DEF Journalled
<1> HIDE DEF j
<1> QED BY <1>1, <1>2

LEMMA HeadOfQueue ==
  ASSUME Shape, queue # <<>>
  PROVE  Head(queue) \in CallSet /\ Head(queue).task \in Task
<1>1. queue \in Seq(CallSet)
  BY DEF Shape
<1>2. Head(queue) \in CallSet
  BY <1>1
<1> QED BY <1>2 DEF CallSet

\* The call at the head of the queue has been answered.
LEMMA AnswerKeeps ==
  ASSUME IInv, queue # <<>>, NEW ok \in BOOLEAN, Answer(ok), UNCHANGED <<contract, task, disk, dest, faults>>,
         row' \in [Task -> RowSet], patch' \in [Task -> Patch], journal' \in Seq(JournalSet), Grows,
         \A u \in Task : Backed(row'[u], Len(journal'), patch'[u].edits),
         \A u \in Task : row'[u].status = "none" => row[u].status = "none",
         \A u \in Task : patch'[u].edits = patch[u].edits \/ (disk[u].exists /\ patch'[u].edits = disk[u].edits)
  PROVE  IInv'
<1>1. Shape /\ CallsAreAwaited /\ ToolIsBacked /\ BootIsBacked
  BY DEF IInv
<1>2. /\ queue' \in Seq(CallSet) /\ op' = NoOp
      /\ work' \in [Task -> WorkSet] /\ tool' \in ToolSet /\ boot' \in BootSet
      /\ \A u \in Task : Moves(work[u], work'[u])
      /\ tool' = tool \/ tool' = NoTool
      /\ boot'.replay = boot.replay /\ boot'.settle = boot.settle
      /\ CallsAreAwaited' /\ OpIsBacked'
  BY <1>1, Answers
<1>3. Shape'
  BY <1>1, <1>2, NoOps DEF Shape
<1>4. ToolIsBacked' /\ BootIsBacked'
  BY <1>1, <1>2, ToolGoesOn, BootGoesOn
<1>5. \A u \in Task : TaskIsCoherent(u)'
  BY <1>2, <1>3, IntegrateCoherently
<1> QED BY <1>2, <1>3, <1>4, <1>5 DEF IInv

\* Rows and patch files that nobody has touched.
LEMMA RowsBacked ==
  ASSUME IInv, UNCHANGED <<row, patch>>, Grows
  PROVE  /\ \A u \in Task : Backed(row'[u], Len(journal'), patch'[u].edits)
         /\ row' \in [Task -> RowSet] /\ patch' \in [Task -> Patch]
<1>1. \A u \in Task : row[u] \in RowSet /\ Backed(row[u], Len(journal), patch[u].edits)
  BY DEF IInv, Shape, TaskIsCoherent
<1> QED BY <1>1, StaysBacked DEF Grows, IInv, Shape

LEMMA BeginKeeps == ASSUME IInv, Begin PROVE IInv'
<1> DEFINE c == Head(queue)
           t == c.task
           early == row[t].artifact = NoArtifact
           artifact == IF early THEN ArtifactOf(t) ELSE row[t].artifact
<1> USE DEF Begin
<1>1. Shape /\ queue # <<>> /\ c \in CallSet /\ t \in Task
  BY HeadOfQueue DEF IInv
<1>2. Backed(row[t], Len(journal), patch[t].edits) /\ row[t] \in RowSet /\ disk[t] \in Tree
  BY <1>1 DEF IInv, TaskIsCoherent, Shape
<1>s. UNCHANGED <<contract, task, disk, dest, faults>>
  OBVIOUS
<1>3. CASE early /\ ~disk[t].exists /\ Answer(FALSE) /\ UNCHANGED <<row, patch, journal>>
  <2>1. Grows BY <1>3, SameGrows
  <2>2. journal' \in Seq(JournalSet) BY <1>1, <1>3 DEF Shape
  <2> HIDE DEF Begin, c
  <2>3. \A u \in Task : row'[u].status = "none" => row[u].status = "none" BY <1>3
  <2>4. \A u \in Task : patch'[u].edits = patch[u].edits BY <1>3
  <2> QED BY <1>1, <1>3, <1>s, <2>1, <2>2, <2>3, <2>4, RowsBacked, AnswerKeeps
<1>4. CASE /\ early => disk[t].exists
           /\ artifact.kind = "unchanged"
           /\ row' = [row EXCEPT ![t] = [@ EXCEPT !.status = "integrated", !.artifact = artifact]]
           /\ Answer(TRUE) /\ UNCHANGED <<patch, journal>>
  <2>1. Grows BY <1>4, SameGrows
  <2>2. artifact \in Artifacts
    <3>1. row[t].artifact \in Artifacts
      BY <1>2 DEF RowSet
    <3> QED BY <1>1, <3>1, ArtifactOfTyped
  <2> HIDE DEF Begin, c, artifact
  <2>3. [row[t] EXCEPT !.status = "integrated", !.artifact = artifact] \in RowSet
        /\ Backed([row[t] EXCEPT !.status = "integrated", !.artifact = artifact], Len(journal), patch[t].edits)
    BY <1>2, <1>4, <2>2 DEF RowSet, RowStatus, Backed
  <2>4. row' \in [Task -> RowSet] /\ patch' \in [Task -> Patch] /\ journal' \in Seq(JournalSet)
    BY <1>1, <1>4, <2>3 DEF Shape
  <2>5. \A u \in Task : row'[u] = IF u = t THEN [row[t] EXCEPT !.status = "integrated", !.artifact = artifact] ELSE row[u]
    BY <1>1, <1>4 DEF Shape
  <2>6. ASSUME NEW u \in Task
        PROVE  Backed(row'[u], Len(journal'), patch'[u].edits) /\ (row'[u].status = "none" => row[u].status = "none")
    <3>1. CASE u = t
      <4> DEFINE r == [row[t] EXCEPT !.status = "integrated", !.artifact = artifact]
      <4>1. r.status = "integrated"
        BY <1>2 DEF RowSet
      <4>2. row'[u] = r /\ Backed(r, Len(journal), patch[t].edits)
        BY <2>3, <2>5, <3>1
      <4> HIDE DEF r
      <4> QED BY <1>4, <3>1, <4>1, <4>2
    <3>2. CASE u # t
      BY <1>4, <2>5, <3>2 DEF IInv, TaskIsCoherent
    <3> QED BY <3>1, <3>2
  <2>7. \A u \in Task : patch'[u].edits = patch[u].edits BY <1>4
  <2> QED BY <1>1, <1>4, <1>s, <2>1, <2>4, <2>6, <2>7, AnswerKeeps
<1>5. CASE /\ early => disk[t].exists
           /\ artifact.kind = "changed"
           /\ IF early THEN Finalize(t) ELSE UNCHANGED <<row, patch>>
           /\ journal' = Journalled(c, artifact)
           /\ \E j \in 1..Len(journal') :
                /\ KeyOf(journal'[j], journal'[j].artifact) = KeyOf(c, artifact)
                /\ IF journal'[j].status = "recorded" THEN Answer(TRUE)
                   ELSE /\ op' = [pc |-> CASE journal'[j].status = "prepared" -> "prepared"
                                            [] journal'[j].status = "applying" -> "detecting"
                                            [] OTHER -> "applied",
                                  row |-> row[t], artifact |-> artifact, strategy |-> c.strategy, journal |-> j]
                        /\ UNCHANGED <<work, tool, boot, queue>>
  <2>1. /\ row' \in [Task -> RowSet] /\ patch' \in [Task -> Patch] /\ artifact \in Artifacts
        /\ \A u \in Task : row'[u].status = "none" => row[u].status = "none"
        /\ \A u \in Task : Backed(row'[u], Len(journal), patch'[u].edits)
        /\ \A u \in Task : patch'[u].edits = patch[u].edits \/ (disk[u].exists /\ patch'[u].edits = disk[u].edits)
        /\ \A u \in Task : patch[u].edits # {} => patch'[u].edits # {}
        /\ patch'[t].edits # {}
    <3>1. \A u \in Task : Backed(row[u], Len(journal), patch[u].edits)
      BY DEF IInv, TaskIsCoherent
    <3>2. CASE early
      <4>1. Finalize(t) /\ disk[t].exists /\ artifact = ArtifactOf(t)
        BY <1>5, <3>2
      <4> HIDE DEF Begin, c, artifact, early
      <4> QED BY <1>1, <1>5, <3>1, <4>1, Finalizes
    <3>3. CASE ~early
      <4>1. UNCHANGED <<row, patch>> /\ artifact = row[t].artifact
        BY <1>5, <3>3
      <4> HIDE DEF Begin, c, artifact, early
      <4> QED BY <1>1, <1>2, <1>5, <3>1, <4>1 DEF Shape, RowSet, Backed
    <3> QED BY <3>2, <3>3
  <2>2. journal' \in Seq(JournalSet) /\ Grows
    <3> HIDE DEF Begin, c, artifact, early
    <3>1. Journalled(c, artifact) \in Seq(JournalSet) /\ Len(journal) \in Nat
          /\ Len(Journalled(c, artifact)) \in Nat /\ Len(journal) <= Len(Journalled(c, artifact))
      BY <1>1, <2>1, Journals
    <3> QED BY <1>5, <2>1, <3>1 DEF Grows
  <2>3. \A u \in Task : Backed(row'[u], Len(journal'), patch'[u].edits)
    <3>1. \A u \in Task : row'[u] \in RowSet
      BY <2>1
    <3> QED BY <2>1, <2>2, <3>1, StaysBacked DEF Grows
  <2>4. PICK j \in 1..Len(journal') :
          IF journal'[j].status = "recorded" THEN Answer(TRUE)
          ELSE /\ op' = [pc |-> CASE journal'[j].status = "prepared" -> "prepared"
                                   [] journal'[j].status = "applying" -> "detecting"
                                   [] OTHER -> "applied",
                         row |-> row[t], artifact |-> artifact, strategy |-> c.strategy, journal |-> j]
               /\ UNCHANGED <<work, tool, boot, queue>>
    BY <1>5
  <2>a. artifact.kind = "changed"
    BY <1>5
  <2> HIDE DEF Begin, artifact, early
  <2>5. CASE journal'[j].status = "recorded"
    <3>1. Answer(TRUE)
      BY <2>4, <2>5
    <3> QED BY <1>1, <1>s, <2>1, <2>2, <2>3, <3>1, AnswerKeeps
  <2>6. CASE journal'[j].status # "recorded"
    <3> DEFINE pc == CASE journal'[j].status = "prepared" -> "prepared"
                       [] journal'[j].status = "applying" -> "detecting"
                       [] OTHER -> "applied"
    <3>1. op' = [pc |-> pc, row |-> row[t], artifact |-> artifact, strategy |-> c.strategy, journal |-> j]
          /\ UNCHANGED <<work, tool, boot, queue>>
      BY <2>4, <2>6
    <3>2. pc \in {"prepared", "detecting", "applied"}
      OBVIOUS
    <3> HIDE DEF pc
    <3>3. op' \in OpSet
      BY <1>1, <1>2, <2>1, <2>2, <3>1, <3>2 DEF OpSet, CallSet, Grows
    <3>4. Shape'
      BY <1>1, <1>s, <2>1, <2>2, <3>1, <3>3 DEF Shape
    <3>5. \A u \in Task : TaskIsCoherent(u)'
      BY <1>s, <2>1, <2>2, <2>3, <3>1, <3>4, WaitingMoves, IntegrateCoherently
    <3>6. Backed(row[t], Len(journal'), patch'[t].edits)
      BY <1>1, <1>2, <2>1, <2>2, StaysBacked DEF Grows
    <3>7. OpIsBacked'
      <4>1. queue' = queue /\ Head(queue').task = t /\ op'.row = row[t] /\ op'.journal = j /\ op'.artifact = artifact
        BY <3>1
      <4> QED BY <1>1, <2>1, <2>a, <3>6, <4>1 DEF OpIsBacked
    <3>8. ToolIsBacked' /\ BootIsBacked' /\ CallsAreAwaited'
      <4>1. ToolIsBacked /\ BootIsBacked /\ CallsAreAwaited
        BY DEF IInv
      <4> QED BY <1>1, <2>2, <3>1, <4>1, StaysTool, StaysBoot, StaysAwaited
    <3> QED BY <3>4, <3>5, <3>7, <3>8 DEF IInv
  <2> QED BY <2>5, <2>6
<1> QED BY <1>3, <1>4, <1>5

-----------------------------------------------------------------------------
\* Steps of #integrate between two calls of git: the journal and the destination change, or the row.
LEMMA SetJournalKeeps ==
  ASSUME Shape, op.journal \in 1..Len(journal), NEW s \in {"prepared", "applying", "applied", "recorded"},
         SetJournal(s)
  PROVE  journal' \in Seq(JournalSet) /\ Len(journal') = Len(journal)
<1>1. journal \in Seq(JournalSet)
  BY DEF Shape
<1>2. journal[op.journal] \in JournalSet
  BY <1>1
<1>3. [journal[op.journal] EXCEPT !.status = s] \in JournalSet
  BY <1>2 DEF JournalSet
<1>4. journal' = [journal EXCEPT ![op.journal] = [journal[op.journal] EXCEPT !.status = s]]
  BY DEF SetJournal
<1> QED BY <1>1, <1>3, <1>4

LEMMA QuietKeeps ==
  ASSUME IInv, Quiet, op.pc # "none", journal' \in Seq(JournalSet), Len(journal') = Len(journal), dest' \in DestSet,
         row' \in [Task -> RowSet],
         \A u \in Task : Backed(row'[u], Len(journal), patch[u].edits),
         \A u \in Task : row'[u].status = "none" => row[u].status = "none",
         NEW pc \in {"prepared", "detecting", "applying", "marking", "applied", "recording"},
         op' = [op EXCEPT !.pc = pc]
  PROVE  IInv'
<1> USE DEF Quiet
<1>1. Shape /\ op \in OpSet /\ OpIsBacked
  BY DEF IInv, Shape
<1>2. /\ op' \in OpSet /\ op'.row = op.row /\ op'.artifact = op.artifact /\ op'.journal = op.journal
  BY <1>1 DEF OpSet
<1>3. Shape'
  BY <1>1, <1>2 DEF Shape
<1>4. Grows
  BY DEF Grows, IInv, Shape
<1>5. \A u \in Task : TaskIsCoherent(u)'
  <2>1. \A u \in Task : patch'[u].edits = patch[u].edits
    OBVIOUS
  <2>2. \A u \in Task : Backed(row'[u], Len(journal'), patch'[u].edits)
    OBVIOUS
  <2>3. UNCHANGED <<contract, task, disk>> /\ UNCHANGED work
    OBVIOUS
  <2> QED BY <1>3, <1>4, <2>1, <2>2, <2>3, WaitingMoves, IntegrateCoherently
<1>6. OpIsBacked'
  BY <1>1, <1>2 DEF OpIsBacked
<1>7. ToolIsBacked' /\ BootIsBacked' /\ CallsAreAwaited'
  BY <1>1, <1>4, StaysTool, StaysBoot, StaysAwaited DEF IInv
<1> QED BY <1>3, <1>5, <1>6, <1>7 DEF IInv

LEMMA Stored ==
  ASSUME IInv
  PROVE  /\ row \in [Task -> RowSet] /\ dest \in DestSet /\ journal \in Seq(JournalSet)
         /\ \A u \in Task : Backed(row[u], Len(journal), patch[u].edits)
BY DEF IInv, Shape, TaskIsCoherent

LEMMA DetectKeeps == ASSUME IInv, Detect PROVE IInv'
<1> DEFINE found == IsApplied(Head(queue).task, op.artifact)
           s == IF found THEN "applied" ELSE "prepared"
<1>1. op.pc = "detecting" /\ SetJournal(s) /\ op' = [op EXCEPT !.pc = s] /\ Quiet /\ UNCHANGED <<row, dest>>
  BY DEF Detect
<1>2. s \in {"applied", "prepared"}
  OBVIOUS
<1> HIDE DEF s
<1>3. Shape /\ op.journal \in 1..Len(journal)
  BY <1>1 DEF IInv, OpIsBacked
<1>4. journal' \in Seq(JournalSet) /\ Len(journal') = Len(journal)
  BY <1>1, <1>2, <1>3, SetJournalKeeps
<1> QED BY <1>1, <1>2, <1>4, Stored, QuietKeeps

LEMMA MarkApplyingKeeps == ASSUME IInv, MarkApplying PROVE IInv'
<1>1. op.pc = "prepared" /\ SetJournal("applying") /\ op' = [op EXCEPT !.pc = "applying"] /\ Quiet
      /\ UNCHANGED <<row, dest>>
  BY DEF MarkApplying
<1>2. Shape /\ op.journal \in 1..Len(journal)
  BY <1>1 DEF IInv, OpIsBacked
<1>3. journal' \in Seq(JournalSet) /\ Len(journal') = Len(journal)
  BY <1>1, <1>2, SetJournalKeeps
<1> QED BY <1>1, <1>3, Stored, QuietKeeps

LEMMA MarkAppliedKeeps == ASSUME IInv, MarkApplied PROVE IInv'
<1>1. op.pc = "marking" /\ SetJournal("applied") /\ op' = [op EXCEPT !.pc = "applied"] /\ Quiet
      /\ UNCHANGED <<row, dest>>
  BY DEF MarkApplied
<1>2. Shape /\ op.journal \in 1..Len(journal)
  BY <1>1 DEF IInv, OpIsBacked
<1>3. journal' \in Seq(JournalSet) /\ Len(journal') = Len(journal)
  BY <1>1, <1>2, SetJournalKeeps
<1> QED BY <1>1, <1>3, Stored, QuietKeeps

LEMMA ApplyKeeps == ASSUME IInv, Apply PROVE IInv'
<1> DEFINE t == Head(queue).task
           edits == IF op.strategy = "patch" THEN patch[t].edits ELSE op.artifact.edits
<1>1. /\ op.pc = "applying" /\ op' = [op EXCEPT !.pc = "marking"] /\ Quiet /\ UNCHANGED <<row, journal>>
      /\ dest' = [dest EXCEPT !.edits[t] = @ \cup edits, !.dirty = @ \/ op.strategy = "patch"]
  BY DEF Apply
<1>2. Shape /\ queue # <<>>
  BY <1>1 DEF IInv, OpIsBacked
<1>3. t \in Task
  BY <1>2, HeadOfQueue
<1>4. edits \in SUBSET Attempt
  <2>1. patch[t] \in Patch /\ op.artifact \in Artifacts
    BY <1>2, <1>3 DEF Shape, OpSet
  <2> QED BY <2>1 DEF Patch, Artifacts
<1> HIDE DEF edits
<1>5. dest' \in DestSet
  <2>1. dest \in DestSet /\ dest.edits \in [Task -> SUBSET Attempt] /\ dest.dirty \in BOOLEAN
    BY <1>2 DEF Shape, DestSet
  <2> DEFINE f == [dest.edits EXCEPT ![t] = dest.edits[t] \cup edits]
             b == dest.dirty \/ op.strategy = "patch"
  <2>2. f \in [Task -> SUBSET Attempt] /\ b \in BOOLEAN
    BY <1>3, <1>4, <2>1
  <2>3. dest' = [[dest EXCEPT !.edits = f] EXCEPT !.dirty = b]
    BY <1>1, <2>1 DEF DestSet
  <2> HIDE DEF f, b
  <2> QED BY <2>1, <2>2, <2>3 DEF DestSet
<1> QED BY <1>1, <1>5, Stored, QuietKeeps

\* The row that #integrate writes at its end: the one it has read, with a new status and the artifact.
LEMMA WrittenRow ==
  ASSUME IInv, op.pc # "none", NEW r \in RowSet,
         r.status # "none", r.journal <= Len(journal), r.artifact = op.artifact,
         row' = [row EXCEPT ![Head(queue).task] = r]
  PROVE  /\ row' \in [Task -> RowSet]
         /\ \A u \in Task : Backed(row'[u], Len(journal), patch[u].edits)
         /\ \A u \in Task : row'[u].status = "none" => row[u].status = "none"
<1>1. Shape /\ queue # <<>> /\ op.artifact.kind = "changed" /\ patch[Head(queue).task].edits # {}
  BY DEF IInv, OpIsBacked
<1>2. Head(queue).task \in Task
  BY <1>1, HeadOfQueue
<1>3. Backed(r, Len(journal), patch[Head(queue).task].edits)
  BY <1>1 DEF Backed
<1>4. \A u \in Task : row'[u] = IF u = Head(queue).task THEN r ELSE row[u]
  BY <1>2, Stored
<1> QED BY <1>2, <1>3, <1>4, Stored

LEMMA RecordKeeps == ASSUME IInv, Record PROVE IInv'
<1> DEFINE r == [op.row EXCEPT !.status = "integrated", !.artifact = op.artifact,
                               !.strategy = op.strategy, !.journal = op.journal]
<1>1. op.pc = "applied" /\ row' = [row EXCEPT ![Head(queue).task] = r] /\ op' = [op EXCEPT !.pc = "recording"]
      /\ Quiet /\ UNCHANGED <<journal, dest>>
  BY DEF Record
<1>2. op \in OpSet /\ op.journal \in 1..Len(journal)
  BY <1>1 DEF IInv, Shape, OpIsBacked
<1>3. op.row \in RowSet /\ op.artifact \in Artifacts /\ op.strategy \in Strategies /\ op.journal \in Nat
  BY <1>2 DEF OpSet
<1>4. r \in RowSet /\ r.status = "integrated" /\ r.journal = op.journal /\ r.artifact = op.artifact
  BY <1>3 DEF RowSet, RowStatus
<1> HIDE DEF r
<1>5. r.journal <= Len(journal)
  BY <1>2, <1>4
<1>6. /\ row' \in [Task -> RowSet]
      /\ \A u \in Task : Backed(row'[u], Len(journal), patch[u].edits)
      /\ \A u \in Task : row'[u].status = "none" => row[u].status = "none"
  BY <1>1, <1>4, <1>5, WrittenRow
<1> QED BY <1>1, <1>6, Stored, QuietKeeps

LEMMA BlockKeeps == ASSUME IInv, Block PROVE IInv'
<1> DEFINE r == [op.row EXCEPT !.status = "integration_blocked", !.artifact = op.artifact]
<1>1. op.pc = "applying" /\ row' = [row EXCEPT ![Head(queue).task] = r] /\ Answer(FALSE)
      /\ UNCHANGED <<contract, task, disk, patch, journal, dest, faults>>
  BY DEF Block
<1>2. op \in OpSet /\ Shape /\ queue # <<>> /\ Backed(op.row, Len(journal), patch[Head(queue).task].edits)
  BY <1>1 DEF IInv, Shape, OpIsBacked
<1>3. op.row \in RowSet /\ op.artifact \in Artifacts
  BY <1>2 DEF OpSet
<1>4. r \in RowSet /\ r.status = "integration_blocked" /\ r.journal = op.row.journal /\ r.artifact = op.artifact
  BY <1>3 DEF RowSet, RowStatus
<1> HIDE DEF r
<1>5. r.journal <= Len(journal)
  BY <1>2, <1>4 DEF Backed
<1>6. /\ row' \in [Task -> RowSet]
      /\ \A u \in Task : Backed(row'[u], Len(journal), patch[u].edits)
      /\ \A u \in Task : row'[u].status = "none" => row[u].status = "none"
  BY <1>1, <1>4, <1>5, WrittenRow
<1>7. Grows /\ patch' \in [Task -> Patch]
  BY <1>1, <1>2, SameGrows DEF Shape
<1>8. \A u \in Task : patch'[u].edits = patch[u].edits
  BY <1>1
<1>9. \A u \in Task : Backed(row'[u], Len(journal'), patch'[u].edits)
  BY <1>1, <1>6
<1> QED BY <1>1, <1>2, <1>6, <1>7, <1>8, <1>9, Stored, AnswerKeeps

LEMMA RecordedKeeps == ASSUME IInv, Recorded PROVE IInv'
<1>1. op.pc = "recording" /\ SetJournal("recorded") /\ Answer(TRUE)
      /\ UNCHANGED <<contract, task, row, disk, patch, dest, faults>>
  BY DEF Recorded
<1>2. Shape /\ op.journal \in 1..Len(journal) /\ queue # <<>>
  BY <1>1 DEF IInv, OpIsBacked
<1>3. journal' \in Seq(JournalSet) /\ Len(journal') = Len(journal)
  BY <1>1, <1>2, SetJournalKeeps
<1>4. Grows
  BY <1>1, <1>2, <1>3 DEF Grows, Shape
<1>5. \A u \in Task : patch'[u].edits = patch[u].edits /\ row'[u] = row[u]
  BY <1>1
<1> QED BY <1>1, <1>2, <1>3, <1>4, <1>5, RowsBacked, AnswerKeeps

LEMMA IntegrateKeeps == ASSUME IInv, Integrate PROVE IInv'
BY BeginKeeps, DetectKeeps, MarkApplyingKeeps, ApplyKeeps, BlockKeeps, MarkAppliedKeeps, RecordKeeps, RecordedKeeps
   DEF Integrate

-----------------------------------------------------------------------------
(***************************************************************************)
(* The worker and the stale-Task reconciliation.                           *)
(***************************************************************************)
LEMMA TaskFacts ==
  ASSUME IInv, NEW t \in Task
  PROVE  /\ Shape /\ task[t] \in TaskSet /\ work[t] \in WorkSet /\ row[t] \in RowSet /\ disk[t] \in Tree
         /\ Coherent(task[t], work[t], disk[t], patch[t].edits, HasTree(t))
         /\ Backed(row[t], Len(journal), patch[t].edits) /\ Backed(work[t].row, Len(journal), patch[t].edits)
         /\ Len(journal) \in Nat /\ work[t].row \in RowSet
BY DEF IInv, Shape, TaskIsCoherent, WorkSet

\* The Task is over for its worker, whatever the worker still does.
LEMMA OverKeeps ==
  ASSUME IInv, NEW t \in Task, NEW k \in TaskSet, NEW w \in WorkSet,
         task' = [task EXCEPT ![t] = k], work' = [work EXCEPT ![t] = w],
         WorktreeSame, UNCHANGED contract, faults' \in 0..MaxFaults,
         k.attempt = task[t].attempt, k.claim = "none", k.status \notin ActiveStatus,
         Backed(w.row, Len(journal), patch[t].edits), work[t].pc # "integrating"
  PROVE  IInv'
<1>1. disk[t].exists \/ disk[t].edits = {}
  BY TaskFacts DEF Coherent
<1>2. Coherent(k, w, disk[t], patch[t].edits, HasTree(t))
  BY <1>1, OverIsCoherent
<1> QED BY <1>2, WorkerKeeps

LEMMA CleaningGoesOn ==
  ASSUME IInv, NEW t \in Task
  PROVE  \E w \in WorkSet : /\ Cleaning(t) = [work EXCEPT ![t] = w]
                            /\ Backed(w.row, Len(journal), patch[t].edits) /\ w.pc \in {"idle", "looking"}
<1>1. CASE work[t].by = "worker" /\ HasTree(t)
  <2> DEFINE w == [work[t] EXCEPT !.pc = "looking", !.row = row[t]]
  <2>1. w \in WorkSet /\ w.row = row[t] /\ w.pc = "looking"
    BY TaskFacts DEF WorkSet, WorkPc
  <2>2. Cleaning(t) = [work EXCEPT ![t] = w]
    BY <1>1 DEF Cleaning
  <2>3. Backed(w.row, Len(journal), patch[t].edits)
    BY <2>1, TaskFacts
  <2> HIDE DEF w
  <2> QED BY <2>1, <2>2, <2>3
<1>2. CASE ~(work[t].by = "worker" /\ HasTree(t))
  <2>1. Cleaning(t) = [work EXCEPT ![t] = Idle]
    BY <1>2 DEF Cleaning
  <2> QED BY <2>1, TaskFacts, IdleBacked
<1> QED BY <1>1, <1>2

LEMMA ToGoesOn ==
  ASSUME IInv, NEW t \in Task, NEW pc \in WorkPc
  PROVE  LET w == [work[t] EXCEPT !.pc = pc] IN
         /\ w \in WorkSet /\ w.pc = pc /\ w.by = work[t].by /\ w.row = work[t].row
         /\ To(t, pc) = [work EXCEPT ![t] = w]
BY TaskFacts DEF To, WorkSet

LEMMA OwnedIsActive ==
  ASSUME IInv, NEW t \in Task, Owned(t)
  PROVE  task[t].claim # "none" /\ task[t].status \in ActiveStatus
<1>1. task[t].claim # "none"
  BY DEF Owned
<1> QED BY <1>1, TaskFacts DEF Coherent

LEMMA TerminalIsRepairable == ASSUME NEW v PROVE TerminalOf(v) \in Repairable
BY DEF TerminalOf, Repairable

LEMMA Vocabulary ==
  /\ Repairable \subseteq Statuses \ ActiveStatus /\ Success \subseteq Statuses \ ActiveStatus
  /\ "retry_waiting" \in Statuses \ ActiveStatus /\ Success \cap (Repairable \cup Claimable) = {}
  /\ "queued" \in Statuses \ ActiveStatus
BY DEF Statuses, Claimable, ActiveStatus, Success, Repairable

\* What a verdict makes of a row whose claim it ends; good is the status of an accepted Task.
Verdicts(k, verdict, good, warned) ==
  CASE verdict.decision = "accept" -> Ended(k, good)
    [] verdict.decision = "accept_with_warnings" -> Ended(k, warned)
    [] OTHER -> FailedRow(k, verdict.failure, TerminalOf(verdict), {})

LEMMA VerdictRow ==
  ASSUME NEW k \in TaskSet, NEW verdict, NEW good \in Success, NEW warned \in Success
  PROVE  LET r == Verdicts(k, verdict, good, warned) IN
         /\ r \in TaskSet /\ r.claim = "none" /\ r.status \notin ActiveStatus /\ r.attempt = k.attempt
         /\ r.result = k.result
         /\ r.status \in Success => verdict.decision \in Accepting /\ r.review = k.review
<1> DEFINE r == Verdicts(k, verdict, good, warned)
<1>1. CASE verdict.decision = "accept"
  <2>1. r = Ended(k, good) /\ good \in Statuses \ ActiveStatus
    BY <1>1, Vocabulary DEF Verdicts
  <2> QED BY <1>1, <2>1, EndedRow DEF Accepting
<1>2. CASE verdict.decision = "accept_with_warnings"
  <2>1. r = Ended(k, warned) /\ warned \in Statuses \ ActiveStatus
    BY <1>2, Vocabulary DEF Verdicts
  <2> QED BY <1>2, <2>1, EndedRow DEF Accepting
<1>3. CASE verdict.decision \notin Accepting
  <2>1. r = FailedRow(k, verdict.failure, TerminalOf(verdict), {})
    BY <1>3 DEF Accepting, Verdicts
  <2>2. {} \in SUBSET Opinions
    OBVIOUS
  <2>3. /\ r \in TaskSet /\ r.status \in {"retry_waiting", TerminalOf(verdict)} /\ r.claim = "none"
        /\ r.attempt = k.attempt /\ r.result = k.result
    BY <2>1, <2>2, TerminalIsRepairable, FailedRowEnds
  <2>4. r.status \notin ActiveStatus /\ r.status \notin Success
    BY <2>3, TerminalIsRepairable, Vocabulary DEF Claimable
  <2> QED BY <2>3, <2>4
<1> QED BY <1>1, <1>2, <1>3 DEF Accepting

\* After an accepted execution.
LEMMA OnwardKeeps ==
  ASSUME IInv, NEW t \in Task, NEW r \in TaskSet, Owned(t), work[t].pc \in {"turn", "validating"},
         r.status \in ActiveStatus, r.claim = task[t].claim, r.attempt = task[t].attempt,
         r.result = task[t].result, r.result # NoResult,
         Onward(t, r), WorktreeSame, UNCHANGED <<contract, faults>>
  PROVE  IInv'
<1>1. faults' \in 0..MaxFaults /\ task[t].claim # "none" /\ task[t].status \in ActiveStatus
  BY OwnedIsActive DEF IInv, Shape
<1>2. CASE HasTree(t)
  <2> DEFINE k == [r EXCEPT !.status = "integration_pending"]
             w == [work[t] EXCEPT !.pc = "finalizing"]
  <2>1. task' = [task EXCEPT ![t] = k] /\ work' = To(t, "finalizing")
    BY <1>2 DEF Onward
  <2>2. w \in WorkSet /\ w.pc = "finalizing" /\ w.by = work[t].by /\ w.row = work[t].row
        /\ work' = [work EXCEPT ![t] = w]
    BY <2>1, ToGoesOn DEF WorkPc
  <2>3. k \in TaskSet /\ k.status = "integration_pending" /\ k.claim = task[t].claim
        /\ k.attempt = task[t].attempt /\ k.result = task[t].result
    BY DEF TaskSet, Statuses, ActiveStatus
  <2> HIDE DEF k, w
  <2>4. Coherent(k, w, disk[t], patch[t].edits, HasTree(t))
    BY <1>1, <2>2, <2>3, TaskFacts DEF Coherent, ActiveStatus
  <2> QED BY <1>1, <2>1, <2>2, <2>3, <2>4, TaskFacts, WorkerKeeps
<1>3. CASE ~HasTree(t)
  <2>1. PICK verdict :
          /\ task' = [task EXCEPT ![t] =
               CASE verdict.decision = "accept" -> Ended(r, "completed")
                 [] verdict.decision = "accept_with_warnings" ->
                      Ended(r, IF contract[t].criteria THEN "completed_with_warnings" ELSE "completed")
                 [] OTHER -> FailedRow(r, verdict.failure, TerminalOf(verdict), {})]
          /\ work' = [work EXCEPT ![t] = Idle]
    BY <1>3 DEF Onward
  <2> DEFINE warned == IF contract[t].criteria THEN "completed_with_warnings" ELSE "completed"
             k == Verdicts(r, verdict, "completed", warned)
  <2>2. task' = [task EXCEPT ![t] = k] /\ work' = [work EXCEPT ![t] = Idle]
    BY <2>1 DEF Verdicts
  <2>3. warned \in Success /\ "completed" \in Success
    BY DEF Success
  <2> HIDE DEF warned
  <2>4. k \in TaskSet /\ k.claim = "none" /\ k.status \notin ActiveStatus /\ k.attempt = r.attempt
    <3>1. r \in TaskSet
      OBVIOUS
    <3>2. \A g \in Success, h \in Success :
            LET x == Verdicts(r, verdict, g, h) IN
            x \in TaskSet /\ x.claim = "none" /\ x.status \notin ActiveStatus /\ x.attempt = r.attempt
      BY ONLY <3>1, VerdictRow
    <3> QED BY <2>3, <3>2
  <2> HIDE DEF k
  <2> QED BY <1>1, <2>2, <2>4, TaskFacts, IdleBacked, OverKeeps
<1> QED BY <1>2, <1>3

LEMMA JudgeKeeps == ASSUME IInv, NEW t \in Task, Judge(t) PROVE IInv'
<1> DEFINE verdict == ExecutionVerdict(Evidence(t))
           s == IF verdict.decision # "attention" /\ task[t].result.turn = "interrupted"
                THEN "interrupted" ELSE TerminalOf(verdict)
           r == FailedRow(task[t], verdict.failure, s, {})
<1>1. work[t].pc = "turn" /\ Owned(t) /\ task[t].result # NoResult /\ WorktreeSame /\ UNCHANGED <<contract, faults>>
  BY DEF Judge, At
<1>2. faults' \in 0..MaxFaults /\ task[t].claim # "none" /\ task[t].status \in ActiveStatus
  BY <1>1, OwnedIsActive DEF IInv, Shape
<1>3. CASE verdict.decision # "accept"
  <2>1. task' = [task EXCEPT ![t] = r]
        /\ work' = IF r.status \in {"retry_waiting", "recovery_attention"}
                   THEN [work EXCEPT ![t] = Idle] ELSE Cleaning(t)
    BY <1>3 DEF Judge
  <2>2. s \in Repairable /\ {} \in SUBSET Opinions
    BY TerminalIsRepairable DEF Repairable
  <2> HIDE DEF s
  <2>3. /\ r \in TaskSet /\ r.status \in {"retry_waiting", s} /\ r.claim = "none" /\ r.attempt = task[t].attempt
    BY <2>2, FailedRowEnds, TaskFacts
  <2>4. r.status \notin ActiveStatus
    BY <2>2, <2>3, Vocabulary
  <2> HIDE DEF r
  <2>5. \E w \in WorkSet : work' = [work EXCEPT ![t] = w] /\ Backed(w.row, Len(journal), patch[t].edits)
    BY <2>1, TaskFacts, IdleBacked, CleaningGoesOn
  <2> QED BY <1>1, <1>2, <2>1, <2>3, <2>4, <2>5, OverKeeps
<1>4. CASE verdict.decision = "accept" /\ contract[t].criteria
  <2> DEFINE k == [task[t] EXCEPT !.status = "validating"]
             w == [work[t] EXCEPT !.pc = "validating"]
  <2>1. task' = [task EXCEPT ![t] = k] /\ work' = To(t, "validating")
    BY <1>4 DEF Judge
  <2>2. w \in WorkSet /\ w.pc = "validating" /\ w.by = work[t].by /\ w.row = work[t].row
        /\ work' = [work EXCEPT ![t] = w]
    BY <2>1, ToGoesOn DEF WorkPc
  <2>3. k \in TaskSet /\ k.status = "validating" /\ k.claim = task[t].claim
        /\ k.attempt = task[t].attempt /\ k.result = task[t].result
    BY TaskFacts DEF TaskSet, Statuses, ActiveStatus
  <2> HIDE DEF k, w
  <2>4. Coherent(k, w, disk[t], patch[t].edits, HasTree(t))
    BY <1>1, <1>2, <2>2, <2>3, TaskFacts DEF Coherent, ActiveStatus
  <2> QED BY <1>1, <1>2, <2>1, <2>2, <2>3, <2>4, TaskFacts, WorkerKeeps
<1>5. CASE verdict.decision = "accept" /\ ~contract[t].criteria
  <2>1. Onward(t, task[t])
    BY <1>5 DEF Judge
  <2> QED BY <1>1, <1>2, <2>1, TaskFacts, OnwardKeeps
<1> QED BY <1>3, <1>4, <1>5

LEMMA ValidateKeeps == ASSUME IInv, NEW t \in Task, Validate(t) PROVE IInv'
<1>1. work[t].pc = "validating" /\ Owned(t) /\ WorktreeSame /\ UNCHANGED <<contract, faults>>
  BY DEF Validate, At
<1>2. faults' \in 0..MaxFaults /\ task[t].claim # "none" /\ task[t].status \in ActiveStatus
  BY <1>1, OwnedIsActive DEF IInv, Shape
<1>3. task[t].result # NoResult
  BY <1>1, <1>2, TaskFacts DEF Coherent, ActiveStatus
<1>4. PICK v \in Opinions :
        IF v.decision \in Accepting THEN Onward(t, [task[t] EXCEPT !.review = v])
        ELSE LET r == RefusedRow(task[t], v) IN
             /\ task' = [task EXCEPT ![t] = r]
             /\ work' = IF r.status = "retry_waiting" THEN [work EXCEPT ![t] = Idle] ELSE Cleaning(t)
  BY DEF Validate
<1>5. CASE v.decision \in Accepting
  <2> DEFINE k == [task[t] EXCEPT !.review = v]
  <2>1. k \in TaskSet /\ k.status = task[t].status /\ k.claim = task[t].claim /\ k.attempt = task[t].attempt
        /\ k.result = task[t].result
    BY TaskFacts DEF TaskSet
  <2>2. Onward(t, k)
    BY <1>4, <1>5
  <2> HIDE DEF k
  <2> QED BY <1>1, <1>2, <1>3, <2>1, <2>2, OnwardKeeps
<1>6. CASE v.decision \notin Accepting
  <2> DEFINE f == ValidationFailure(v)
             s == CASE f.type = "policy" -> "blocked_by_policy"
                    [] f.type = "validation" -> "rejected"
                    [] OTHER -> "validation_failed"
             feedback == IF f.type = "validation" THEN {v} ELSE {}
             r == FailedRow(task[t], f, s, feedback)
  <2>1. task' = [task EXCEPT ![t] = r]
        /\ work' = IF r.status = "retry_waiting" THEN [work EXCEPT ![t] = Idle] ELSE Cleaning(t)
    BY <1>4, <1>6 DEF RefusedRow
  <2>2. s \in Repairable /\ feedback \in SUBSET Opinions
    BY DEF Repairable
  <2> HIDE DEF s, feedback, f
  <2>3. /\ r \in TaskSet /\ r.status \in {"retry_waiting", s} /\ r.claim = "none" /\ r.attempt = task[t].attempt
    BY <2>2, FailedRowEnds, TaskFacts
  <2>4. r.status \notin ActiveStatus
    BY <2>2, <2>3, Vocabulary
  <2> HIDE DEF r
  <2>5. \E w \in WorkSet : work' = [work EXCEPT ![t] = w] /\ Backed(w.row, Len(journal), patch[t].edits)
    BY <2>1, TaskFacts, IdleBacked, CleaningGoesOn
  <2> QED BY <1>1, <1>2, <2>1, <2>3, <2>4, <2>5, OverKeeps
<1> QED BY <1>5, <1>6

LEMMA FinalizeThrowsKeeps == ASSUME IInv, NEW t \in Task, FinalizeThrows(t) PROVE IInv'
<1> DEFINE w == [work[t] EXCEPT !.pc = "failing"]
<1>1. work[t].pc = "finalizing" /\ work' = To(t, "failing") /\ WorktreeSame /\ UNCHANGED <<contract, task, faults>>
  BY DEF FinalizeThrows, At
<1>2. w \in WorkSet /\ w.pc = "failing" /\ w.by = work[t].by /\ w.row = work[t].row /\ work' = [work EXCEPT ![t] = w]
  BY <1>1, ToGoesOn DEF WorkPc
<1> HIDE DEF w
<1>3. Coherent(task[t], w, disk[t], patch[t].edits, HasTree(t))
  BY <1>1, <1>2, TaskFacts DEF Coherent
<1>4. task' = [task EXCEPT ![t] = task[t]] /\ faults' \in 0..MaxFaults
  BY <1>1 DEF IInv, Shape
<1> QED BY <1>1, <1>2, <1>3, <1>4, TaskFacts, WorkerKeeps

LEMMA FinishKeeps == ASSUME IInv, NEW t \in Task, Finish(t) PROVE IInv'
<1> DEFINE verdict == Verdict(Integrated(t, Evidence(t)))
           r == Verdicts(task[t], verdict, "completed", "completed_with_warnings")
<1>1. work[t].pc = "verifying" /\ WorktreeSame /\ UNCHANGED <<contract, faults>>
  BY DEF Finish, At
<1>2. task' = [task EXCEPT ![t] = r]
      /\ work' = IF r.status = "retry_waiting" THEN [work EXCEPT ![t] = Idle] ELSE Cleaning(t)
  BY DEF Finish, Verdicts
<1>3. faults' \in 0..MaxFaults
  BY <1>1 DEF IInv, Shape
<1>4. r \in TaskSet /\ r.claim = "none" /\ r.status \notin ActiveStatus /\ r.attempt = task[t].attempt
  <2>1. task[t] \in TaskSet /\ "completed" \in Success /\ "completed_with_warnings" \in Success
    BY TaskFacts DEF Success
  <2>2. \A k \in TaskSet, g \in Success, h \in Success :
          LET x == Verdicts(k, verdict, g, h) IN
          x \in TaskSet /\ x.claim = "none" /\ x.status \notin ActiveStatus /\ x.attempt = k.attempt
    BY ONLY VerdictRow
  <2> QED BY <2>1, <2>2
<1> HIDE DEF r
<1>5. \E w \in WorkSet : work' = [work EXCEPT ![t] = w] /\ Backed(w.row, Len(journal), patch[t].edits)
  BY <1>2, TaskFacts, IdleBacked, CleaningGoesOn
<1> QED BY <1>1, <1>2, <1>3, <1>4, <1>5, OverKeeps

LEMMA CatchKeeps == ASSUME IInv, NEW t \in Task, Catch(t) PROVE IInv'
<1>1. /\ work[t].by = "worker" /\ work[t].pc \in {"blocked", "failing", "turn", "validating", "verifying"}
      /\ work' = Cleaning(t) /\ WorktreeSame /\ UNCHANGED <<contract, faults>>
  BY DEF Catch
<1>2. faults' \in 0..MaxFaults
  BY <1>1 DEF IInv, Shape
<1>3. PICK w \in WorkSet : work' = [work EXCEPT ![t] = w] /\ Backed(w.row, Len(journal), patch[t].edits)
  BY <1>1, CleaningGoesOn
<1>4. CASE Owned(t)
  <2> DEFINE s == IF work[t].pc = "blocked" THEN "integration_blocked" ELSE "failed"
             k == Ended(task[t], s)
  <2>1. task' = [task EXCEPT ![t] = k]
    BY <1>4 DEF Catch
  <2>2. s \in Statuses \ ActiveStatus
    BY DEF Statuses, ActiveStatus, Repairable
  <2> HIDE DEF s
  <2>3. k \in TaskSet /\ k.claim = "none" /\ k.status \notin ActiveStatus /\ k.attempt = task[t].attempt
    BY <2>2, TaskFacts, EndedRow
  <2> HIDE DEF k
  <2> QED BY <1>1, <1>2, <1>3, <2>1, <2>3, OverKeeps
<1>5. CASE ~Owned(t)
  <2>1. task' = task
    BY <1>5 DEF Catch
  <2>2. task[t].claim = "none"
    BY <1>1, <1>5, TaskFacts DEF Owned, Coherent, TaskSet
  <2>3. task[t].status \notin ActiveStatus
    BY <2>2, TaskFacts DEF Coherent
  <2>4. task' = [task EXCEPT ![t] = task[t]]
    BY <2>1 DEF IInv, Shape
  <2> QED BY <1>1, <1>2, <1>3, <2>2, <2>3, <2>4, TaskFacts, OverKeeps
<1> QED BY <1>4, <1>5

LEMMA ResultIsNone == ASSUME NEW r \in Result PROVE r # NoResult
BY DEF Result, NoResult

LEMMA StaleTakesKeeps == ASSUME IInv, NEW t \in Task, StaleTakes(t) PROVE IInv'
<1>1. work[t].pc = "idle" /\ task[t].claim = "gone" /\ WorktreeSame /\ UNCHANGED <<contract, faults>>
  BY DEF StaleTakes, At
<1>2. faults' \in 0..MaxFaults
  BY <1>1 DEF IInv, Shape
<1>3. CASE /\ task[t].status = "running" /\ task[t].result # NoResult
           /\ task' = [task EXCEPT ![t].result.hydrated = "complete"]
           /\ work' = [work EXCEPT ![t] = [Idle EXCEPT !.pc = "turn", !.by = "stale"]]
  <2> DEFINE x == [task[t].result EXCEPT !.hydrated = "complete"]
             k == [task[t] EXCEPT !.result = x]
             w == [Idle EXCEPT !.pc = "turn", !.by = "stale"]
  <2>1. task' = [task EXCEPT ![t] = k] /\ work' = [work EXCEPT ![t] = w]
    BY <1>3
  <2>2. task[t].result \in Result
    BY <1>3, TaskFacts DEF TaskSet
  <2>3. x \in Result /\ x.edits = task[t].result.edits
    BY <2>2 DEF Result
  <2> HIDE DEF x
  <2>4. /\ k \in TaskSet /\ k.status = task[t].status /\ k.claim = task[t].claim /\ k.attempt = task[t].attempt
        /\ k.result = x
    BY <2>3, TaskFacts DEF TaskSet
  <2>5. w \in WorkSet /\ w.pc = "turn" /\ w.by = "stale" /\ Backed(w.row, Len(journal), patch[t].edits)
    BY TaskFacts, IdleBacked DEF WorkSet, WorkPc
  <2> HIDE DEF k, w
  <2>6. x # NoResult
    BY <2>3, ResultIsNone
  <2>7. Coherent(k, w, disk[t], patch[t].edits, HasTree(t))
    BY <1>1, <1>3, <2>3, <2>4, <2>5, <2>6, TaskFacts DEF Coherent
  <2> QED BY <1>1, <1>2, <2>1, <2>4, <2>5, <2>7, WorkerKeeps
<1>4. CASE /\ task[t].status = "validating"
           /\ work' = [work EXCEPT ![t] = [Idle EXCEPT !.pc = "validating", !.by = "stale"]]
           /\ UNCHANGED task
  <2> DEFINE w == [Idle EXCEPT !.pc = "validating", !.by = "stale"]
  <2>1. w \in WorkSet /\ w.pc = "validating" /\ w.by = "stale" /\ Backed(w.row, Len(journal), patch[t].edits)
    BY TaskFacts, IdleBacked DEF WorkSet, WorkPc
  <2>2. work' = [work EXCEPT ![t] = w] /\ task' = [task EXCEPT ![t] = task[t]]
    BY <1>4 DEF IInv, Shape
  <2> HIDE DEF w
  <2>3. Coherent(task[t], w, disk[t], patch[t].edits, HasTree(t))
    BY <1>1, <1>4, <2>1, TaskFacts DEF Coherent
  <2> QED BY <1>1, <1>2, <2>1, <2>2, <2>3, TaskFacts, WorkerKeeps
<1> QED BY <1>3, <1>4 DEF StaleTakes

LEMMA StaleThrowsKeeps == ASSUME IInv, NEW t \in Task, StaleThrows(t) PROVE IInv'
<1>1. /\ work[t].pc # "integrating" /\ work' = [work EXCEPT ![t] = Idle]
      /\ WorktreeSame /\ UNCHANGED <<contract, task, faults>>
  BY DEF StaleThrows
<1>2. Coherent(task[t], Idle, disk[t], patch[t].edits, HasTree(t))
  BY TaskFacts, IdleBacked DEF Coherent
<1>3. task' = [task EXCEPT ![t] = task[t]] /\ faults' \in 0..MaxFaults
  BY <1>1 DEF IInv, Shape
<1> QED BY <1>1, <1>2, <1>3, TaskFacts, IdleBacked, WorkerKeeps

\* A Task is ended from outside.
LEMMA EndsKeeps ==
  ASSUME IInv, NEW t \in Task, NEW s \in Statuses \ ActiveStatus, task' = [task EXCEPT ![t] = Ended(task[t], s)],
         UNCHANGED <<contract, work, row, disk, patch, journal, dest, tool, queue, op, boot>>,
         faults' \in 0..MaxFaults
  PROVE  IInv'
<1> DEFINE k == Ended(task[t], s)
<1>1. k \in TaskSet /\ k.claim = "none" /\ k.status \notin ActiveStatus /\ k.attempt = task[t].attempt
  BY TaskFacts, EndedRow
<1>2. task' = [task EXCEPT ![t] = k]
  OBVIOUS
<1> HIDE DEF k
<1>3. Coherent(k, work[t], disk[t], patch[t].edits, HasTree(t))
  BY <1>1, TaskFacts, OverIsCoherent DEF Coherent
<1>4. boot' \in BootSet
  BY DEF IInv, Shape
<1> QED BY <1>1, <1>2, <1>3, <1>4, TaskKeeps

LEMMA StaleRecoversKeeps == ASSUME IInv, NEW t \in Task, StaleRecovers(t) PROVE IInv'
<1>1. "recovery_attention" \in Statuses \ ActiveStatus
  BY DEF Statuses, ActiveStatus, Repairable
<1>2. faults' \in 0..MaxFaults
  BY DEF StaleRecovers, IInv, Shape
<1> QED BY <1>1, <1>2, EndsKeeps DEF StaleRecovers, WorktreeSame

LEMMA CancelKeeps == ASSUME IInv, NEW t \in Task, Cancel(t) PROVE IInv'
<1>1. "canceled" \in Statuses \ ActiveStatus
  BY DEF Statuses, ActiveStatus, Repairable
<1>2. faults' \in 0..MaxFaults
  BY IntegrationAssumption DEF Cancel, Fault, IInv, Shape
<1> QED BY <1>1, <1>2, EndsKeeps DEF Cancel

LEMMA RepairKeeps == ASSUME IInv, NEW t \in Task, Repair(t) PROVE IInv'
<1> DEFINE e == Ended(task[t], "queued")
           k == [e EXCEPT !.result = NoResult, !.review = NoResult, !.heard = {}]
<1>1. /\ task' = [task EXCEPT ![t] = k]
      /\ UNCHANGED <<contract, work, row, disk, patch, journal, dest, tool, queue, op, boot>>
  BY DEF Repair
<1>2. faults' \in 0..MaxFaults
  BY IntegrationAssumption DEF Repair, Fault, IInv, Shape
<1>3. e \in TaskSet /\ e.claim = "none" /\ e.status = "queued" /\ e.attempt = task[t].attempt
  BY TaskFacts, EndedRow, Vocabulary
<1> HIDE DEF e
<1>4. k \in TaskSet /\ k.claim = "none" /\ k.status = "queued" /\ k.attempt = task[t].attempt
  BY <1>3 DEF TaskSet
<1> HIDE DEF k
<1>5. Coherent(k, work[t], disk[t], patch[t].edits, HasTree(t))
  BY <1>4, TaskFacts, OverIsCoherent DEF Coherent, ActiveStatus
<1>6. boot' \in BootSet
  BY <1>1 DEF IInv, Shape
<1> QED BY <1>1, <1>2, <1>4, <1>5, <1>6, TaskKeeps

LEMMA FinalizeArtifactKeeps == ASSUME IInv, NEW t \in Task, FinalizeArtifact(t) PROVE IInv'
<1> DEFINE w == [work[t] EXCEPT !.pc = "integrating"]
           c == Call("work", t, contract[t].strategy)
<1>1. /\ work[t].pc = "finalizing" /\ disk[t].exists /\ Finalize(t)
      /\ queue' = Append(queue, c) /\ work' = To(t, "integrating")
      /\ UNCHANGED <<contract, task, disk, journal, dest, tool, op, boot, faults>>
  BY DEF FinalizeArtifact, At
<1>2. w \in WorkSet /\ w.pc = "integrating" /\ w.by = work[t].by /\ w.row = work[t].row /\ work' = [work EXCEPT ![t] = w]
  BY <1>1, ToGoesOn DEF WorkPc
<1> HIDE DEF w
<1>3. /\ row' \in [Task -> RowSet] /\ patch' \in [Task -> Patch]
      /\ \A u \in Task : u # t => row'[u] = row[u] /\ patch'[u] = patch[u]
      /\ row'[t].status = "none" => row[t].status = "none"
      /\ Backed(row'[t], Len(journal), patch'[t].edits)
      /\ patch'[t].edits = patch[t].edits \/ patch'[t].edits = disk[t].edits
      /\ disk[t].edits # {} => patch'[t].edits = disk[t].edits
      /\ \A u \in Task : patch[u].edits # {} => patch'[u].edits # {}
  BY <1>1, TaskFacts, Finalizes
<1>4. Shape /\ queue \in Seq(CallSet)
  BY DEF IInv, Shape
<1>5. c \in CallSet /\ c.by = "work" /\ c.task = t
  <2>1. contract[t].strategy \in Strategies
    BY <1>4 DEF Shape, Strategies
  <2> QED BY <2>1 DEF Call, CallSet
<1> HIDE DEF c
<1>6. /\ queue' \in Seq(CallSet) /\ Len(queue') = Len(queue) + 1 /\ Len(queue) \in Nat /\ queue'[Len(queue) + 1] = c
      /\ (\A i \in 1..Len(queue) : queue'[i] = queue[i] /\ queue[i] \in CallSet)
      /\ (queue # <<>> => Head(queue') = Head(queue) /\ queue' # <<>>)
  BY <1>1, <1>4, <1>5
<1>7. Shape'
  BY <1>1, <1>2, <1>3, <1>4, <1>6 DEF Shape
<1>8. Grows
  BY <1>1, <1>3, <1>4 DEF Grows, Shape
<1>9. \A u \in Task : work'[u] = IF u = t THEN w ELSE work[u]
  BY <1>2, <1>4 DEF Shape
<1>10. ASSUME NEW u \in Task PROVE TaskIsCoherent(u)'
  <2>1. CASE u = t
    <3>1. Coherent(task[t], w, disk[t], patch'[t].edits, HasTree(t))
      BY <1>1, <1>2, <1>3, TaskFacts DEF Coherent
    <3>2. Backed(w.row, Len(journal), patch'[t].edits)
      BY <1>2, <1>3, TaskFacts, StaysBacked
    <3>3. row[t].status = "none" => ~HasTree(t) \/ task[t].attempt = 0
      BY DEF IInv, TaskIsCoherent
    <3> QED BY <1>1, <1>3, <1>9, <2>1, <3>1, <3>2, <3>3 DEF TaskIsCoherent, HasTree
  <2>2. CASE u # t
    BY <1>1, <1>3, <1>4, <1>8, <1>9, <2>2, StaysCoherent DEF IInv
  <2> QED BY <2>1, <2>2
<1>11. CallsAreAwaited'
  <2>1. \A i \in 1..Len(queue) : queue[i].by = "work" => queue[i].task # t /\ queue[i].task \in Task
    BY <1>1, <1>6 DEF IInv, CallsAreAwaited, CallSet
  <2>2. CallsAreAwaited
    BY DEF IInv
  <2>3. \A i \in 1..Len(queue') : i \in 1..Len(queue) \/ i = Len(queue) + 1
    BY <1>6
  <2>4. ASSUME NEW i \in 1..Len(queue'), queue'[i].by = "work"
        PROVE  work'[queue'[i].task].pc = "integrating"
    BY <1>2, <1>5, <1>6, <1>9, <2>1, <2>2, <2>3, <2>4 DEF CallsAreAwaited
  <2>5. ASSUME NEW i \in 1..Len(queue'), NEW j \in 1..Len(queue'), queue'[i].by = "work", queue'[j].by = "work",
               queue'[j].task = queue'[i].task
        PROVE  i = j
    <3>1. CASE i \in 1..Len(queue) /\ j \in 1..Len(queue)
      BY <1>6, <2>2, <2>5, <3>1 DEF CallsAreAwaited
    <3>2. CASE i = Len(queue) + 1
      BY <1>5, <1>6, <2>1, <2>3, <2>5, <3>2
    <3>3. CASE j = Len(queue) + 1
      BY <1>5, <1>6, <2>1, <2>3, <2>5, <3>3
    <3> QED BY <2>3, <3>1, <3>2, <3>3
  <2> QED BY <2>4, <2>5 DEF CallsAreAwaited
<1>12. ToolIsBacked' /\ OpIsBacked' /\ BootIsBacked'
  BY <1>1, <1>4, <1>6, <1>8, StaysTool, StaysOp, StaysBoot DEF IInv
<1> QED BY <1>7, <1>10, <1>11, <1>12 DEF IInv

-----------------------------------------------------------------------------
(***************************************************************************)
(* cleanup, for the worker and for the user's tool.                        *)
(***************************************************************************)
LEMMA CleanupKeeps ==
  ASSUME IInv, NEW t \in Task, CleanupSame, NEW r \in RowSet, row' = [row EXCEPT ![t] = r],
         Backed(r, Len(journal), patch[t].edits), r.status = "none" => row[t].status = "none",
         NEW d \in Tree, disk' = [disk EXCEPT ![t] = d], d = disk[t] \/ (~d.exists /\ d.edits = {}),
         NEW w \in WorkSet, work' = [work EXCEPT ![t] = w], Backed(w.row, Len(journal), patch[t].edits),
         w = work[t] \/ (work[t].pc # "integrating" /\ w.pc = "idle")
                     \/ (work[t].pc = "looking" /\ w.pc = "removing" /\ w.by = work[t].by),
         tool' \in ToolSet, ToolIsBacked'
  PROVE  IInv'
<1> USE DEF CleanupSame
<1>1. Shape' BY DEF IInv, Shape
<1>2. Grows BY SameGrows
<1>3. Shape BY DEF IInv
<1>4. \A u \in Task : /\ row'[u] = IF u = t THEN r ELSE row[u]
                      /\ disk'[u] = IF u = t THEN d ELSE disk[u]
                      /\ work'[u] = IF u = t THEN w ELSE work[u]
  BY <1>3 DEF Shape
<1>5. Coherent(task[t], w, d, patch[t].edits, HasTree(t))
  BY TaskFacts DEF Coherent
<1>6. ASSUME NEW u \in Task PROVE TaskIsCoherent(u)'
  <2>1. CASE u = t
    BY <2>1, <1>4, <1>5 DEF IInv, TaskIsCoherent, HasTree
  <2>2. CASE u # t
    BY <2>2, <1>2, <1>3, <1>4, StaysCoherent DEF IInv
  <2> QED BY <2>1, <2>2
<1>7. OpIsBacked' /\ BootIsBacked'
  BY <1>2, <1>3, StaysOp, StaysBoot DEF IInv
<1>8. CallsAreAwaited'
  BY <1>3, <1>4, StaysAwaited DEF IInv
<1> QED BY <1>1, <1>6, <1>7, <1>8 DEF IInv

LEMMA LookedRow ==
  ASSUME IInv, NEW t \in Task, NEW r \in RowSet, Backed(r, Len(journal), patch[t].edits)
  PROVE  LET x == Looked(t, r).row IN
         /\ x \in RowSet /\ Backed(x, Len(journal), patch[t].edits)
         /\ x.status = "none" => row[t].status = "none"
<1> DEFINE x == Looked(t, r).row
<1>1. x = row[t] \/ x = [r EXCEPT !.status = "quarantined"] \/ x = [r EXCEPT !.status = "retained"]
  BY DEF Looked, Quarantined
<1> HIDE DEF x
<1>2. CASE x = row[t]
  BY <1>2, TaskFacts DEF x
<1>3. CASE x # row[t]
  <2>1. x \in RowSet /\ x.status \in {"quarantined", "retained"} /\ x.journal = r.journal /\ x.artifact = r.artifact
    BY <1>1, <1>3 DEF RowSet, RowStatus
  <2> QED BY <2>1 DEF Backed, x
<1> QED BY <1>2, <1>3 DEF x

LEMMA RemovedRow ==
  ASSUME IInv, NEW t \in Task, NEW r \in RowSet, Backed(r, Len(journal), patch[t].edits), Removed(t, r)
  PROVE  \E x \in RowSet, d \in Tree :
           /\ row' = [row EXCEPT ![t] = x] /\ disk' = [disk EXCEPT ![t] = d]
           /\ Backed(x, Len(journal), patch[t].edits) /\ x.status # "none"
           /\ d = disk[t] \/ (~d.exists /\ d.edits = {})
<1> DEFINE x == IF Removable(t, r) THEN [r EXCEPT !.status = "removed"] ELSE Quarantined(r)
           d == IF Removable(t, r) THEN [exists |-> FALSE, edits |-> {}] ELSE disk[t]
<1>1. row' = [row EXCEPT ![t] = x]
  BY DEF Removed
<1>2. disk' = [disk EXCEPT ![t] = d]
  BY DEF Removed, IInv, Shape
<1>3. x \in RowSet /\ x.status # "none" /\ x.journal = r.journal /\ x.artifact = r.artifact
  BY DEF Quarantined, RowSet, RowStatus
<1>4. d \in Tree /\ (d = disk[t] \/ (~d.exists /\ d.edits = {}))
  BY TaskFacts DEF Tree
<1>5. Backed(x, Len(journal), patch[t].edits)
  BY <1>3 DEF Backed
<1> HIDE DEF x, d
<1> QED BY <1>1, <1>2, <1>3, <1>4, <1>5

LEMMA LookKeeps == ASSUME IInv, NEW t \in Task, Look(t) PROVE IInv'
<1> DEFINE x == Looked(t, work[t].row).row
<1>1. /\ work[t].pc = "looking" /\ row' = [row EXCEPT ![t] = x] /\ CleanupSame /\ UNCHANGED <<disk, tool>>
      /\ (work' = To(t, "removing") \/ work' = [work EXCEPT ![t] = Idle])
  BY DEF Look, At
<1>2. x \in RowSet /\ Backed(x, Len(journal), patch[t].edits) /\ (x.status = "none" => row[t].status = "none")
  BY TaskFacts, LookedRow
<1> HIDE DEF x
<1>3. disk' = [disk EXCEPT ![t] = disk[t]] /\ disk[t] \in Tree /\ tool' \in ToolSet
  BY <1>1, TaskFacts DEF Shape
<1>4. ToolIsBacked'
  BY <1>1, SameGrows, StaysTool DEF IInv, CleanupSame
<1>5. CASE work' = [work EXCEPT ![t] = Idle]
  BY <1>1, <1>2, <1>3, <1>4, <1>5, TaskFacts, IdleBacked, CleanupKeeps
<1>6. CASE work' = To(t, "removing")
  <2> DEFINE w == [work[t] EXCEPT !.pc = "removing"]
  <2>1. w \in WorkSet /\ w.pc = "removing" /\ w.by = work[t].by /\ w.row = work[t].row /\ work' = [work EXCEPT ![t] = w]
    BY <1>6, ToGoesOn DEF WorkPc
  <2> HIDE DEF w
  <2> QED BY <1>1, <1>2, <1>3, <1>4, <2>1, TaskFacts, CleanupKeeps
<1> QED BY <1>1, <1>5, <1>6

LEMMA RemoveKeeps == ASSUME IInv, NEW t \in Task, Remove(t) PROVE IInv'
<1>1. /\ work[t].pc = "removing" /\ Removed(t, work[t].row) /\ work' = [work EXCEPT ![t] = Idle]
      /\ CleanupSame /\ UNCHANGED tool
  BY DEF Remove, At
<1>2. PICK x \in RowSet, d \in Tree :
        /\ row' = [row EXCEPT ![t] = x] /\ disk' = [disk EXCEPT ![t] = d]
        /\ Backed(x, Len(journal), patch[t].edits) /\ x.status # "none"
        /\ d = disk[t] \/ (~d.exists /\ d.edits = {})
  BY <1>1, TaskFacts, RemovedRow
<1>3. ToolIsBacked' /\ tool' \in ToolSet
  BY <1>1, SameGrows, StaysTool DEF IInv, CleanupSame, Shape
<1> QED BY <1>1, <1>2, <1>3, TaskFacts, IdleBacked, CleanupKeeps

LEMMA ToolLookKeeps == ASSUME IInv, ToolLook PROVE IInv'
<1> DEFINE t == tool.task
           x == Looked(t, tool.row).row
<1>1. /\ tool.pc = "looking" /\ row' = [row EXCEPT ![t] = x] /\ CleanupSame /\ UNCHANGED <<disk, work>>
      /\ (tool' = [tool EXCEPT !.pc = "removing"] \/ tool' = NoTool)
  BY DEF ToolLook
<1>2. t \in Task /\ tool.row \in RowSet /\ Backed(tool.row, Len(journal), patch[t].edits) /\ tool \in ToolSet
  BY <1>1 DEF IInv, ToolIsBacked, Shape, ToolSet
<1>3. x \in RowSet /\ Backed(x, Len(journal), patch[t].edits) /\ (x.status = "none" => row[t].status = "none")
  BY <1>2, LookedRow
<1> HIDE DEF x
<1>4. disk' = [disk EXCEPT ![t] = disk[t]] /\ disk[t] \in Tree
  BY <1>1, <1>2, TaskFacts DEF Shape
<1>5. work' = [work EXCEPT ![t] = work[t]]
  BY <1>1, <1>2, TaskFacts DEF Shape
<1>6. tool' \in ToolSet /\ ToolIsBacked'
  <2>1. CASE tool' = [tool EXCEPT !.pc = "removing"]
    <3>1. tool' \in ToolSet /\ tool'.task = t /\ tool'.row = tool.row
      BY <1>2, <2>1 DEF ToolSet
    <3> QED BY <1>1, <1>2, <3>1 DEF ToolIsBacked, CleanupSame
  <2>2. CASE tool' = NoTool
    BY <2>2, NoOps DEF ToolIsBacked, NoTool
  <2> QED BY <1>1, <2>1, <2>2
<1> HIDE DEF t
<1> QED BY <1>1, <1>2, <1>3, <1>4, <1>5, <1>6, TaskFacts, CleanupKeeps

LEMMA ToolRemoveKeeps == ASSUME IInv, ToolRemove PROVE IInv'
<1> DEFINE t == tool.task
<1>1. tool.pc = "removing" /\ Removed(t, tool.row) /\ tool' = NoTool /\ CleanupSame /\ UNCHANGED work
  BY DEF ToolRemove
<1>2. t \in Task /\ tool.row \in RowSet /\ Backed(tool.row, Len(journal), patch[t].edits)
  BY <1>1 DEF IInv, ToolIsBacked, Shape, ToolSet
<1>3. PICK x \in RowSet, d \in Tree :
        /\ row' = [row EXCEPT ![t] = x] /\ disk' = [disk EXCEPT ![t] = d]
        /\ Backed(x, Len(journal), patch[t].edits) /\ x.status # "none"
        /\ d = disk[t] \/ (~d.exists /\ d.edits = {})
  BY <1>1, <1>2, RemovedRow
<1>4. work' = [work EXCEPT ![t] = work[t]]
  BY <1>1, <1>2, TaskFacts DEF Shape
<1>5. tool' \in ToolSet /\ ToolIsBacked'
  BY <1>1, NoOps DEF ToolIsBacked, NoTool
<1> HIDE DEF t
<1> QED BY <1>1, <1>2, <1>3, <1>4, <1>5, TaskFacts, CleanupKeeps

-----------------------------------------------------------------------------
(***************************************************************************)
(* Claims, turns, the rest of the user's calls, and restarts.              *)
(***************************************************************************)

\* A step that touches the Task, the row, the directory and the worker of one Task.
LEMMA OneTaskKeeps ==
  ASSUME IInv, NEW t \in Task,
         NEW k \in TaskSet, task' = [task EXCEPT ![t] = k], NEW r \in RowSet, row' = [row EXCEPT ![t] = r],
         NEW d \in Tree, disk' = [disk EXCEPT ![t] = d], NEW w \in WorkSet, work' = [work EXCEPT ![t] = w],
         UNCHANGED <<contract, patch, journal, dest, tool, queue, op, boot>>, faults' \in 0..MaxFaults,
         Coherent(k, w, d, patch[t].edits, HasTree(t)),
         Backed(r, Len(journal), patch[t].edits), Backed(w.row, Len(journal), patch[t].edits),
         r.status = "none" => ~HasTree(t) \/ k.attempt = 0,
         work[t].pc # "integrating" \/ w = work[t]
  PROVE  IInv'
<1>1. Shape' BY DEF IInv, Shape
<1>2. Grows BY SameGrows
<1>3. Shape BY DEF IInv
<1>4. \A u \in Task : /\ row'[u] = IF u = t THEN r ELSE row[u]
                      /\ disk'[u] = IF u = t THEN d ELSE disk[u]
                      /\ work'[u] = IF u = t THEN w ELSE work[u]
                      /\ task'[u] = IF u = t THEN k ELSE task[u]
  BY <1>3 DEF Shape
<1>5. ASSUME NEW u \in Task PROVE TaskIsCoherent(u)'
  <2>1. CASE u = t
    BY <2>1, <1>4 DEF TaskIsCoherent, HasTree
  <2>2. CASE u # t
    BY <2>2, <1>2, <1>3, <1>4, StaysCoherent DEF IInv
  <2> QED BY <2>1, <2>2
<1>6. ToolIsBacked' /\ OpIsBacked' /\ BootIsBacked'
  BY <1>2, <1>3, StaysTool, StaysOp, StaysBoot DEF IInv
<1>7. CallsAreAwaited'
  BY <1>3, <1>4, StaysAwaited DEF IInv
<1> QED BY <1>1, <1>5, <1>6, <1>7 DEF IInv

\* Nothing changes where nothing is written.
LEMMA Unwritten ==
  ASSUME IInv, NEW t \in Task
  PROVE  /\ task = [task EXCEPT ![t] = task[t]] /\ row = [row EXCEPT ![t] = row[t]]
         /\ disk = [disk EXCEPT ![t] = disk[t]] /\ work = [work EXCEPT ![t] = work[t]]
         /\ row[t].status = "none" => ~HasTree(t) \/ task[t].attempt = 0
BY DEF IInv, Shape, TaskIsCoherent

LEMMA ClaimKeeps == ASSUME IInv, NEW t \in Task, Claim(t) PROVE IInv'
<1> DEFINE k == [task[t] EXCEPT !.status = "running", !.claim = "live", !.attempt = task[t].attempt + 1,
                                !.result = NoResult, !.review = NoResult]
           w == [Idle EXCEPT !.pc = "turn"]
           r == IF HasTree(t) THEN Prepared(t) ELSE row[t]
           d == IF HasTree(t) THEN Ensured(t) ELSE disk[t]
<1>1. /\ work[t].pc = "idle" /\ task[t].attempt < MaxAttempts /\ task' = [task EXCEPT ![t] = k]
      /\ work' = [work EXCEPT ![t] = w] /\ UNCHANGED <<contract, patch, journal, dest, tool, queue, op, boot, faults>>
  BY DEF Claim, At
<1>2. row' = [row EXCEPT ![t] = r] /\ disk' = [disk EXCEPT ![t] = d]
  BY Unwritten DEF Claim
<1>3. task[t].attempt \in 0..MaxAttempts /\ task[t].attempt + 1 \in 0..MaxAttempts /\ task[t].attempt + 1 # 0
  BY <1>1, TaskFacts, IntegrationAssumption DEF TaskSet
<1>4. /\ k \in TaskSet /\ k.status = "running" /\ k.claim = "live" /\ k.attempt # 0 /\ k.result = NoResult
  BY <1>3, TaskFacts DEF TaskSet, Statuses, ActiveStatus
<1>5. w \in WorkSet /\ w.pc = "turn" /\ w.by = "worker" /\ Backed(w.row, Len(journal), patch[t].edits)
  BY TaskFacts, IdleBacked DEF WorkSet, WorkPc
<1>6. r \in RowSet /\ Backed(r, Len(journal), patch[t].edits) /\ (r.status = "none" => ~HasTree(t))
  <2>1. CASE ~HasTree(t)
    BY <2>1, TaskFacts
  <2>2. CASE HasTree(t) /\ row[t].status \in {"active", "retained", "quarantined"}
    BY <2>2, TaskFacts DEF Prepared
  <2>3. CASE HasTree(t) /\ r = [row[t] EXCEPT !.status = "active"]
    BY <2>3, TaskFacts DEF RowSet, RowStatus, Backed
  <2>4. CASE HasTree(t) /\ r = [NoRow EXCEPT !.status = "active"]
    BY <2>4, TaskFacts, NoRowBacked DEF RowSet, RowStatus, Backed
  <2> QED BY <2>1, <2>2, <2>3, <2>4 DEF Prepared
<1>7. d \in Tree /\ (d.exists \/ d.edits = {})
  BY TaskFacts DEF Ensured, Tree, Coherent
<1> HIDE DEF k, w, r, d
<1>8. Coherent(k, w, d, patch[t].edits, HasTree(t))
  BY <1>4, <1>5, <1>7 DEF Coherent, ActiveStatus
<1>9. faults' \in 0..MaxFaults
  BY <1>1 DEF IInv, Shape
<1> QED BY <1>1, <1>2, <1>4, <1>5, <1>6, <1>7, <1>8, <1>9, OneTaskKeeps

LEMMA PrepareFailsKeeps == ASSUME IInv, NEW t \in Task, PrepareFails(t) PROVE IInv'
<1> DEFINE e == Ended(task[t], "failed")
           k == [e EXCEPT !.attempt = task[t].attempt + 1, !.result = NoResult]
           r == [NoRow EXCEPT !.status = "failed"]
<1>1. /\ task[t].attempt < MaxAttempts /\ task' = [task EXCEPT ![t] = k] /\ row' = [row EXCEPT ![t] = r]
      /\ UNCHANGED <<contract, disk, patch, journal, dest, work, tool, queue, op, boot>>
  BY DEF PrepareFails
<1>2. faults' \in 0..MaxFaults
  BY IntegrationAssumption DEF PrepareFails, IInv, Shape
<1>3. "failed" \in Statuses \ ActiveStatus
  BY DEF Statuses, ActiveStatus, Repairable
<1>4. e \in TaskSet /\ e.claim = "none" /\ e.status = "failed" /\ e.attempt = task[t].attempt
  BY <1>3, TaskFacts, EndedRow
<1>5. task[t].attempt + 1 \in 0..MaxAttempts
  BY <1>1, <1>4, IntegrationAssumption DEF TaskSet
<1> HIDE DEF e
<1>6. k \in TaskSet /\ k.claim = "none" /\ k.status = "failed"
  BY <1>4, <1>5 DEF TaskSet
<1>7. r \in RowSet /\ r.status = "failed" /\ Backed(r, Len(journal), patch[t].edits)
  BY TaskFacts, NoRowBacked DEF RowSet, RowStatus, Backed
<1> HIDE DEF k, r
<1>8. Coherent(k, work[t], disk[t], patch[t].edits, HasTree(t))
  BY <1>6, TaskFacts, OverIsCoherent DEF Coherent, ActiveStatus
<1>9. disk' = [disk EXCEPT ![t] = disk[t]] /\ work' = [work EXCEPT ![t] = work[t]]
  BY <1>1, Unwritten
<1> QED BY <1>1, <1>2, <1>6, <1>7, <1>8, <1>9, TaskFacts, OneTaskKeeps

LEMMA TurnEndsKeeps == ASSUME IInv, NEW t \in Task, TurnEnds(t) PROVE IInv'
<1>1. /\ task[t].status = "running" /\ task[t].result = NoResult
      /\ UNCHANGED <<contract, row, patch, journal, dest, work, tool, queue, op, boot, faults>>
  BY DEF TurnEnds
<1>2. PICK x \in Outcomes :
        /\ x.edits => ~HasTree(t) \/ disk[t].exists
        /\ task' = [task EXCEPT ![t].result = x]
        /\ disk' = IF x.edits /\ HasTree(t) THEN [disk EXCEPT ![t].edits = @ \cup {task[t].attempt}] ELSE disk
  BY DEF TurnEnds
<1> DEFINE k == [task[t] EXCEPT !.result = x]
           d == IF x.edits /\ HasTree(t) THEN [disk[t] EXCEPT !.edits = disk[t].edits \cup {task[t].attempt}] ELSE disk[t]
<1>3. task' = [task EXCEPT ![t] = k]
  BY <1>2
<1>4. disk' = [disk EXCEPT ![t] = d]
  <2>1. CASE x.edits /\ HasTree(t)
    BY <1>2, <2>1
  <2>2. CASE ~(x.edits /\ HasTree(t))
    BY <1>2, <2>2, Unwritten
  <2> QED BY <2>1, <2>2
<1>5. x \in Result /\ x # NoResult
  BY IntegrationAssumption, ResultIsNone
<1>6. /\ k \in TaskSet /\ k.status = "running" /\ k.claim = task[t].claim /\ k.attempt = task[t].attempt
      /\ k.result = x
  BY <1>1, <1>5, TaskFacts DEF TaskSet
<1>7. task[t].attempt \in Attempt
  <2>1. task[t].attempt # 0 /\ task[t].attempt \in 0..MaxAttempts
    BY <1>1, TaskFacts DEF Coherent, ActiveStatus, TaskSet
  <2> QED BY <2>1, IntegrationAssumption DEF Attempt
<1>8. /\ d \in Tree /\ d.exists = disk[t].exists
      /\ (x.edits /\ HasTree(t)) => task[t].attempt \in d.edits /\ d.exists
      /\ d.exists \/ d.edits = {}
  <2>1. disk[t] \in Tree /\ (disk[t].exists \/ disk[t].edits = {})
    BY TaskFacts DEF Coherent
  <2>2. CASE x.edits /\ HasTree(t)
    <3>1. disk[t].exists
      BY <1>2, <2>2
    <3>2. d = [disk[t] EXCEPT !.edits = disk[t].edits \cup {task[t].attempt}]
      BY <2>2
    <3> HIDE DEF d
    <3> QED BY <1>7, <2>1, <3>1, <3>2 DEF Tree
  <2>3. CASE ~(x.edits /\ HasTree(t))
    BY <2>1, <2>3
  <2> QED BY <2>2, <2>3
<1> HIDE DEF k, d
<1>9. Coherent(k, work[t], d, patch[t].edits, HasTree(t))
  <2>1. work[t].pc \in {"idle", "turn"}
    BY <1>1, TaskFacts DEF Coherent
  <2> QED BY <1>1, <1>5, <1>6, <1>8, <2>1, TaskFacts DEF Coherent
<1>10. row' = [row EXCEPT ![t] = row[t]] /\ work' = [work EXCEPT ![t] = work[t]]
       /\ (row[t].status = "none" => ~HasTree(t) \/ k.attempt = 0) /\ faults' \in 0..MaxFaults
  BY <1>1, <1>6, Unwritten DEF IInv, Shape
<1> QED BY <1>1, <1>3, <1>4, <1>6, <1>8, <1>9, <1>10, TaskFacts, OneTaskKeeps

\* A tool or start-up adds a call to the queue.
LEMMA CallAdded ==
  ASSUME Shape, CallsAreAwaited, NEW c \in CallSet, c.by # "work", queue' = Append(queue, c), UNCHANGED work
  PROVE  /\ CallsAreAwaited' /\ queue' \in Seq(CallSet)
         /\ queue # <<>> => Head(queue') = Head(queue) /\ queue' # <<>>
<1>1. queue \in Seq(CallSet)
  BY DEF Shape
<1>2. /\ queue' \in Seq(CallSet) /\ Len(queue') = Len(queue) + 1 /\ Len(queue) \in Nat /\ queue'[Len(queue) + 1] = c
      /\ (\A i \in 1..Len(queue) : queue'[i] = queue[i])
      /\ (queue # <<>> => Head(queue') = Head(queue) /\ queue' # <<>>)
  BY <1>1
<1>3. \A i \in 1..Len(queue') : queue'[i].by = "work" => i \in 1..Len(queue) /\ queue'[i] = queue[i]
  BY <1>2
<1>4. CallsAreAwaited'
  BY <1>3 DEF CallsAreAwaited
<1> QED BY <1>2, <1>4

\* Steps that leave Tasks, rows, directories, patch files, journals and workers alone.
LEMMA AsideKeeps ==
  ASSUME IInv, UNCHANGED <<contract, task, row, disk, patch, journal, work, op>>, faults' \in 0..MaxFaults,
         dest' \in DestSet, tool' \in ToolSet, ToolIsBacked', boot' \in BootSet, BootIsBacked',
         UNCHANGED queue \/ \E c \in CallSet : c.by # "work" /\ queue' = Append(queue, c)
  PROVE  IInv'
<1>1. Shape /\ Grows /\ CallsAreAwaited
  BY SameGrows DEF IInv
<1>2. /\ CallsAreAwaited' /\ queue' \in Seq(CallSet)
      /\ queue # <<>> => Head(queue') = Head(queue) /\ queue' # <<>>
  <2>1. CASE UNCHANGED queue
    BY <1>1, <2>1, StaysAwaited DEF Shape
  <2>2. CASE \E c \in CallSet : c.by # "work" /\ queue' = Append(queue, c)
    BY <1>1, <2>2, CallAdded
  <2> QED BY <2>1, <2>2
<1>3. Shape'
  BY <1>1, <1>2 DEF Shape
<1>4. \A u \in Task : TaskIsCoherent(u)'
  BY <1>1, StaysCoherent DEF IInv
<1>5. OpIsBacked'
  BY <1>1, <1>2, StaysOp DEF IInv
<1> QED BY <1>2, <1>3, <1>4, <1>5 DEF IInv

LEMMA FaultIsCounted == ASSUME IInv, Fault PROVE faults' \in 0..MaxFaults
BY IntegrationAssumption DEF Fault, IInv, Shape

LEMMA AsideFacts ==
  ASSUME IInv, UNCHANGED <<patch, journal>>
  PROVE  /\ dest \in DestSet /\ tool \in ToolSet /\ boot \in BootSet
         /\ tool' = tool => ToolIsBacked'
         /\ boot' = boot => BootIsBacked'
BY SameGrows, StaysTool, StaysBoot DEF IInv, Shape

LEMMA ToolCleanupKeeps == ASSUME IInv, NEW t \in Task, ToolCleanup(t) PROVE IInv'
<1>1. /\ tool' = [pc |-> "looking", task |-> t, row |-> row[t]]
      /\ UNCHANGED <<contract, task, row, disk, patch, journal, dest, work, queue, op, boot>>
  BY DEF ToolCleanup
<1>2. faults' \in 0..MaxFaults
  BY FaultIsCounted DEF ToolCleanup
<1>3. tool' \in ToolSet /\ tool'.task = t /\ tool'.row = row[t]
  BY <1>1, TaskFacts DEF ToolSet
<1>4. ToolIsBacked'
  BY <1>1, <1>3, TaskFacts DEF ToolIsBacked
<1> QED BY <1>1, <1>2, <1>3, <1>4, AsideFacts, AsideKeeps

LEMMA ToolIntegrateKeeps == ASSUME IInv, NEW t \in Task, ToolIntegrate(t) PROVE IInv'
<1> DEFINE c == Call("tool", t, IF row[t].strategy = "none" THEN "patch" ELSE row[t].strategy)
<1>1. /\ tool' = [pc |-> "integrating", task |-> t, row |-> NoRow] /\ queue' = Append(queue, c)
      /\ UNCHANGED <<contract, task, row, disk, patch, journal, dest, work, op, boot>>
  BY DEF ToolIntegrate
<1>2. faults' \in 0..MaxFaults
  BY FaultIsCounted DEF ToolIntegrate
<1>3. c \in CallSet /\ c.by # "work"
  <2>1. row[t].strategy \in Strategies /\ "patch" \in Strategies
    BY TaskFacts DEF RowSet, Strategies
  <2> QED BY <2>1 DEF Call, CallSet
<1> HIDE DEF c
<1>4. tool' \in ToolSet /\ ToolIsBacked'
  BY <1>1, TaskFacts, NoRowBacked DEF ToolSet, ToolIsBacked
<1> QED BY <1>1, <1>2, <1>3, <1>4, AsideFacts, AsideKeeps

LEMMA UserEditsKeeps == ASSUME IInv, NEW t \in Task, UserEdits(t) PROVE IInv'
<1> DEFINE v == IF dest.touched[t] = "yes" THEN "undone" ELSE "yes"
           f == [dest.touched EXCEPT ![t] = v]
<1>1. /\ dest' = [dest EXCEPT !.dirty = TRUE, !.touched[t] = v]
      /\ UNCHANGED <<contract, task, row, disk, patch, journal, work, tool, queue, op, boot>>
  BY DEF UserEdits
<1>2. faults' \in 0..MaxFaults
  BY FaultIsCounted DEF UserEdits
<1>3. dest \in DestSet
  BY <1>1, AsideFacts
<1>4. f \in [Task -> {"no", "yes", "undone"}]
  BY <1>3 DEF DestSet
<1>5. dest' = [[dest EXCEPT !.dirty = TRUE] EXCEPT !.touched = f]
  BY <1>1, <1>3 DEF DestSet
<1> HIDE DEF f
<1>6. dest' \in DestSet
  BY <1>3, <1>4, <1>5 DEF DestSet
<1> QED BY <1>1, <1>2, <1>6, AsideFacts, AsideKeeps

LEMMA ToolFinalizeKeeps == ASSUME IInv, NEW t \in Task, ToolFinalize(t) PROVE IInv'
<1>1. /\ disk[t].exists /\ Finalize(t)
      /\ UNCHANGED <<contract, task, disk, journal, dest, work, tool, queue, op, boot>>
  BY DEF ToolFinalize
<1>2. faults' \in 0..MaxFaults
  BY FaultIsCounted DEF ToolFinalize
<1>3. /\ row' \in [Task -> RowSet] /\ patch' \in [Task -> Patch]
      /\ \A u \in Task : u # t => row'[u] = row[u] /\ patch'[u] = patch[u]
      /\ row'[t].status = "none" => row[t].status = "none"
      /\ Backed(row'[t], Len(journal), patch'[t].edits)
      /\ patch'[t].edits = patch[t].edits \/ patch'[t].edits = disk[t].edits
      /\ \A u \in Task : patch[u].edits # {} => patch'[u].edits # {}
  BY <1>1, TaskFacts, Finalizes
<1>4. Shape /\ Shape'
  BY <1>1, <1>2, <1>3 DEF IInv, Shape
<1>5. Grows
  BY <1>1, <1>3, <1>4 DEF Grows, Shape
<1>6. \A u \in Task : Backed(row'[u], Len(journal'), patch'[u].edits)
  BY <1>1, <1>3, TaskFacts
<1>7. \A u \in Task : row'[u].status = "none" => row[u].status = "none"
  BY <1>3
<1>8. \A u \in Task : patch'[u].edits = patch[u].edits \/ (disk[u].exists /\ patch'[u].edits = disk[u].edits)
  BY <1>1, <1>3
<1>9. \A u \in Task : TaskIsCoherent(u)'
  BY <1>1, <1>4, <1>5, <1>6, <1>7, <1>8, WaitingMoves, IntegrateCoherently
<1>10. ToolIsBacked' /\ OpIsBacked' /\ BootIsBacked' /\ CallsAreAwaited'
  BY <1>1, <1>4, <1>5, StaysTool, StaysOp, StaysBoot, StaysAwaited DEF IInv
<1> QED BY <1>4, <1>9, <1>10 DEF IInv

LEMMA ToolQuarantineKeeps == ASSUME IInv, NEW t \in Task, ToolQuarantine(t) PROVE IInv'
<1> DEFINE r == Quarantined(row[t])
<1>1. /\ row' = [row EXCEPT ![t] = r]
      /\ UNCHANGED <<contract, task, disk, patch, journal, dest, work, tool, queue, op, boot>>
  BY DEF ToolQuarantine
<1>2. faults' \in 0..MaxFaults
  BY FaultIsCounted DEF ToolQuarantine
<1>3. r \in RowSet /\ r.status = "quarantined" /\ r.journal = row[t].journal /\ r.artifact = row[t].artifact
  BY TaskFacts DEF Quarantined, RowSet, RowStatus
<1> HIDE DEF r
<1>4. Backed(r, Len(journal), patch[t].edits)
  BY <1>3, TaskFacts DEF Backed
<1>5. /\ task' = [task EXCEPT ![t] = task[t]] /\ disk' = [disk EXCEPT ![t] = disk[t]]
      /\ work' = [work EXCEPT ![t] = work[t]]
  BY <1>1, Unwritten
<1> QED BY <1>1, <1>2, <1>3, <1>4, <1>5, TaskFacts, OneTaskKeeps

LEMMA CrashKeeps == ASSUME IInv, Crash PROVE IInv'
<1>1. /\ task' = [t \in Task |-> [task[t] EXCEPT !.claim = IF @ = "live" THEN "gone" ELSE @,
                                                !.review = IF task[t].status \in Success THEN @ ELSE NoResult]]
      /\ work' = [t \in Task |-> Idle] /\ tool' = NoTool /\ queue' = <<>> /\ op' = NoOp
      /\ boot' = [NoBoot EXCEPT !.pc = "listing"]
      /\ UNCHANGED <<contract, row, disk, patch, journal, dest>>
  BY DEF Crash
<1>2. faults' \in 0..MaxFaults
  <2>1. faults < MaxFaults /\ faults' = faults + 1
    BY DEF Crash
  <2> QED BY <2>1, IntegrationAssumption DEF IInv, Shape
<1>3. ASSUME NEW t \in Task
      PROVE  /\ task'[t] \in TaskSet /\ work'[t] = Idle /\ task'[t].attempt = task[t].attempt
             /\ Coherent(task'[t], Idle, disk[t], patch[t].edits, HasTree(t))
  <2> DEFINE c == IF task[t].claim = "live" THEN "gone" ELSE task[t].claim
             v == IF task[t].status \in Success THEN task[t].review ELSE NoResult
             k == [[task[t] EXCEPT !.claim = c] EXCEPT !.review = v]
  <2>1. task'[t] = k /\ work'[t] = Idle
    BY <1>1, TaskFacts DEF TaskSet
  <2>2. c \in {"none", "live", "gone"} /\ v \in Opinions \cup {NoResult} /\ (c = "none" <=> task[t].claim = "none")
    BY TaskFacts DEF TaskSet
  <2> HIDE DEF c, v
  <2>3. /\ k \in TaskSet /\ k.status = task[t].status /\ k.attempt = task[t].attempt /\ k.result = task[t].result
        /\ k.claim = c
    BY <2>2, TaskFacts DEF TaskSet
  <2> HIDE DEF k
  <2>4. Coherent(k, Idle, disk[t], patch[t].edits, HasTree(t))
    BY <2>2, <2>3, TaskFacts, IdleBacked DEF Coherent
  <2> QED BY <2>1, <2>3, <2>4
<1>4. boot' \in BootSet /\ boot'.replay = {} /\ boot'.settle = {}
  BY <1>1, NoOps DEF BootSet, NoBoot
<1>5. task' \in [Task -> TaskSet]
  <2> DEFINE F(t) == [task[t] EXCEPT !.claim = IF @ = "live" THEN "gone" ELSE @,
                                    !.review = IF task[t].status \in Success THEN @ ELSE NoResult]
  <2>1. task' = [t \in Task |-> F(t)]
    BY <1>1
  <2>2. \A t \in Task : F(t) = task'[t]
    BY <2>1
  <2> HIDE DEF F
  <2> QED BY <1>3, <2>1, <2>2
<1>6. work' \in [Task -> WorkSet]
  <2>1. Idle \in WorkSet
    BY IdleBacked
  <2> QED BY <1>1, <2>1
<1>7. Shape'
  <2>1. queue' \in Seq(CallSet) /\ op' \in OpSet /\ tool' \in ToolSet
    <3>1. <<>> \in Seq(CallSet)
      OBVIOUS
    <3>2. NoOp \in OpSet /\ NoTool \in ToolSet
      BY NoOps
    <3>3. queue' = <<>> /\ op' = NoOp /\ tool' = NoTool
      BY <1>1
    <3> QED BY <3>1, <3>2, <3>3
  <2>2. /\ contract' \in [Task -> Contracts] /\ row' \in [Task -> RowSet] /\ disk' \in [Task -> Tree]
        /\ patch' \in [Task -> Patch] /\ journal' \in Seq(JournalSet) /\ dest' \in DestSet
    BY <1>1 DEF IInv, Shape
  <2> QED BY <1>2, <1>4, <1>5, <1>6, <2>1, <2>2 DEF Shape
<1>8. ASSUME NEW t \in Task PROVE TaskIsCoherent(t)'
  <2>1. row[t].status = "none" => ~HasTree(t) \/ task[t].attempt = 0
    BY DEF IInv, TaskIsCoherent
  <2> QED BY <1>1, <1>3, <2>1, TaskFacts, IdleBacked DEF TaskIsCoherent, HasTree
<1>9. ToolIsBacked' /\ OpIsBacked' /\ BootIsBacked' /\ CallsAreAwaited'
  <2>1. Len(queue') = 0
    BY <1>1
  <2>2. ToolIsBacked' /\ OpIsBacked'
    BY <1>1 DEF ToolIsBacked, OpIsBacked, NoTool, NoOp
  <2>3. BootIsBacked'
    BY <1>4 DEF BootIsBacked
  <2>4. CallsAreAwaited'
    BY <2>1 DEF CallsAreAwaited
  <2> QED BY <2>2, <2>3, <2>4
<1> QED BY <1>7, <1>8, <1>9 DEF IInv

LEMMA BootListsKeeps == ASSUME IInv, BootLists PROVE IInv'
<1> DEFINE all == 1..Len(journal)
           settle == {i \in Listing(all) : Awaited(i)}
           replay == IF \E i \in Listing(all) : Open(i) THEN Listing({i \in all : Open(i)}) ELSE {}
<1>1. /\ boot' = IF settle = {} THEN NoBoot ELSE [pc |-> "replaying", replay |-> replay, settle |-> settle]
      /\ UNCHANGED <<contract, task, row, disk, patch, journal, dest, work, tool, queue, op, faults>>
  BY DEF BootLists
<1>2. settle \subseteq all /\ replay \subseteq all
  BY DEF Listing
<1>3. Len(journal) \in Nat
  BY DEF IInv, Shape
<1> HIDE DEF settle, replay
<1>4. boot' \in BootSet /\ BootIsBacked'
  <2>1. CASE settle = {}
    BY <1>1, <2>1, NoOps DEF BootIsBacked, NoBoot
  <2>2. CASE settle # {}
    <3>1. settle \in SUBSET Nat /\ replay \in SUBSET Nat
      BY <1>2, <1>3
    <3> QED BY <1>1, <1>2, <2>2, <3>1 DEF BootIsBacked, BootSet
  <2> QED BY <2>1, <2>2
<1>5. faults' \in 0..MaxFaults
  BY <1>1 DEF IInv, Shape
<1> QED BY <1>1, <1>4, <1>5, AsideFacts, AsideKeeps

LEMMA BootReplaysKeeps == ASSUME IInv, BootReplays PROVE IInv'
<1>1. PICK i \in boot.replay :
        /\ queue' = Append(queue, Call("boot", journal[i].task, journal[i].strategy))
        /\ boot' = [boot EXCEPT !.pc = "waiting", !.replay = boot.replay \ {i}]
  BY DEF BootReplays
<1>2. UNCHANGED <<contract, task, row, disk, patch, journal, dest, work, tool, op, faults>>
  BY DEF BootReplays
<1>3. boot \in BootSet /\ boot.replay \subseteq 1..Len(journal) /\ boot.settle \subseteq 1..Len(journal)
      /\ journal \in Seq(JournalSet)
  BY DEF IInv, Shape, BootIsBacked
<1>4. journal[i] \in JournalSet
  BY <1>3
<1>5. Call("boot", journal[i].task, journal[i].strategy) \in CallSet
      /\ Call("boot", journal[i].task, journal[i].strategy).by # "work"
  BY <1>4 DEF JournalSet, Call, CallSet
<1>6. boot' \in BootSet /\ BootIsBacked'
  <2>1. boot.replay \in SUBSET Nat
    BY <1>3 DEF BootSet
  <2>2. boot.replay \ {i} \in SUBSET Nat /\ boot.replay \ {i} \subseteq 1..Len(journal)
    BY <1>3, <2>1
  <2>3. boot' \in BootSet /\ boot'.replay = boot.replay \ {i} /\ boot'.settle = boot.settle
    BY <1>1, <1>3, <2>2 DEF BootSet
  <2> QED BY <1>2, <1>3, <2>2, <2>3 DEF BootIsBacked
<1>7. faults' \in 0..MaxFaults
  BY <1>2 DEF IInv, Shape
<1> QED BY <1>2, <1>1, <1>5, <1>6, <1>7, AsideFacts, AsideKeeps

\* What the start-up recovery makes of a Task.
LEMMA Settled ==
  ASSUME IInv, NEW t \in Task, NEW i
  PROVE  /\ SettledRow(t, i) \in TaskSet /\ SettledRow(t, i).claim = "none"
         /\ SettledRow(t, i).status \notin ActiveStatus /\ SettledRow(t, i).attempt = task[t].attempt
<1> DEFINE verdict == Verdict(Integrated(t, Evidence(t)))
           f == FailedRow(task[t], verdict.failure, TerminalOf(verdict), {})
<1>1. SettledRow(t, i) \in {Ended(task[t], "integration_blocked"), Ended(task[t], "completed"), f}
  BY DEF SettledRow
<1>2. "integration_blocked" \in Statuses \ ActiveStatus /\ "completed" \in Statuses \ ActiveStatus
  BY DEF Statuses, ActiveStatus, Repairable, Success
<1>3. /\ f \in TaskSet /\ f.status \in {"retry_waiting", TerminalOf(verdict)} /\ f.claim = "none"
      /\ f.attempt = task[t].attempt
  <2>1. {} \in SUBSET Opinions
    OBVIOUS
  <2> QED BY <2>1, TaskFacts, TerminalIsRepairable, FailedRowEnds
<1>4. f.status \notin ActiveStatus
  BY <1>3, TerminalIsRepairable, Vocabulary
<1> HIDE DEF f
<1> QED BY <1>1, <1>2, <1>3, <1>4, TaskFacts, EndedRow

LEMMA BootSettlesKeeps == ASSUME IInv, BootSettles PROVE IInv'
<1>1. PICK i \in boot.settle :
        /\ task' = IF task[journal[i].task].status = "integration_pending"
                   THEN [task EXCEPT ![journal[i].task] = SettledRow(journal[i].task, i)] ELSE task
        /\ boot' = IF boot.settle = {i} THEN NoBoot ELSE [boot EXCEPT !.settle = boot.settle \ {i}]
  BY DEF BootSettles
<1> DEFINE t == journal[i].task
<1>2. UNCHANGED <<contract, row, disk, patch, journal, dest, work, tool, queue, op, faults>>
  BY DEF BootSettles
<1>3. boot \in BootSet /\ boot.settle \subseteq 1..Len(journal) /\ journal \in Seq(JournalSet)
  BY DEF IInv, Shape, BootIsBacked
<1>4. journal[i] \in JournalSet
  BY <1>3
<1>5. t \in Task
  BY <1>4 DEF JournalSet
<1>6. boot' \in BootSet /\ boot'.replay \subseteq boot.replay /\ boot'.settle \subseteq boot.settle
  <2>1. CASE boot.settle = {i}
    BY <1>1, <2>1, NoOps DEF NoBoot
  <2>2. CASE boot.settle # {i}
    BY <1>1, <1>3, <2>2 DEF BootSet
  <2> QED BY <2>1, <2>2
<1>7. faults' \in 0..MaxFaults
  BY <1>2 DEF IInv, Shape
<1> DEFINE k == IF task[t].status = "integration_pending" THEN SettledRow(t, i) ELSE task[t]
<1>8. task' = [task EXCEPT ![t] = k]
  BY <1>1, <1>5, Unwritten
<1>9. k \in TaskSet /\ k.attempt = task[t].attempt /\ Coherent(k, work[t], disk[t], patch[t].edits, HasTree(t))
  <2>1. CASE task[t].status = "integration_pending"
    <3>1. k = SettledRow(t, i)
      BY <2>1
    <3> HIDE DEF k
    <3>2. k \in TaskSet /\ k.claim = "none" /\ k.status \notin ActiveStatus /\ k.attempt = task[t].attempt
      BY <1>5, <3>1, Settled
    <3>3. disk[t].exists \/ disk[t].edits = {}
      BY <1>5, TaskFacts DEF Coherent
    <3> QED BY <3>2, <3>3, OverIsCoherent
  <2>2. CASE task[t].status # "integration_pending"
    BY <1>5, <2>2, TaskFacts
  <2> QED BY <2>1, <2>2
<1> HIDE DEF k, t
<1> QED BY <1>2, <1>5, <1>6, <1>7, <1>8, <1>9, TaskKeeps

LEMMA SameKeeps == ASSUME IInv, UNCHANGED vars PROVE IInv'
<1> USE DEF vars
<1>1. Shape' BY DEF IInv, Shape
<1>2. \A t \in Task : TaskIsCoherent(t)'
  BY SameGrows, StaysCoherent DEF IInv
<1>3. ToolIsBacked' /\ OpIsBacked' /\ BootIsBacked' /\ CallsAreAwaited'
  BY SameGrows, StaysTool, StaysOp, StaysBoot, StaysAwaited DEF IInv
<1> QED BY <1>1, <1>2, <1>3 DEF IInv

LEMMA NextKeeps == IInv /\ [Next]_vars => IInv'
<1> SUFFICES ASSUME IInv, [Next]_vars PROVE IInv'
  OBVIOUS
<1>1. CASE Integrate BY <1>1, IntegrateKeeps
<1>2. CASE Boot BY <1>2, BootListsKeeps, BootReplaysKeeps, BootSettlesKeeps DEF Boot
<1>3. CASE User
  BY <1>3, ToolLookKeeps, ToolRemoveKeeps, ToolCleanupKeeps, ToolIntegrateKeeps, ToolFinalizeKeeps,
     ToolQuarantineKeeps, UserEditsKeeps, CancelKeeps, RepairKeeps DEF User
<1>4. CASE Crash BY <1>4, CrashKeeps
<1>5. ASSUME NEW t \in Task, Worker(t) PROVE IInv'
  BY <1>5, ClaimKeeps, JudgeKeeps, ValidateKeeps, FinalizeArtifactKeeps, FinalizeThrowsKeeps, FinishKeeps,
     CatchKeeps, StaleTakesKeeps, StaleRecoversKeeps, StaleThrowsKeeps, LookKeeps, RemoveKeeps DEF Worker
<1>6. ASSUME NEW t \in Task, TurnEnds(t) \/ PrepareFails(t) PROVE IInv'
  BY <1>6, TurnEndsKeeps, PrepareFailsKeeps
<1>7. CASE UNCHANGED vars BY <1>7, SameKeeps
<1> QED BY <1>1, <1>2, <1>3, <1>4, <1>5, <1>6, <1>7 DEF Next

LEMMA IInvHolds == Spec => []IInv
BY InitKeeps, NextKeeps, PTL DEF Spec

-----------------------------------------------------------------------------
\* The tables, the files and the workers have the values the code can give them.
THEOREM TypeCorrect == Spec => []TypeOK
<1>1. IInv => TypeOK
  <2> SUFFICES ASSUME IInv PROVE TypeOK
    OBVIOUS
  <2>1. Shape
    BY DEF IInv
  <2>2. contract \in [Task -> Contracts] /\ faults \in 0..MaxFaults
    BY <2>1 DEF Shape
  <2>3. dest.touched \in [Task -> {"no", "yes", "undone"}] /\ dest.edits \in [Task -> SUBSET Attempt]
    BY <2>1 DEF Shape, DestSet
  <2>4. \A i \in 1..Len(journal) : journal[i].status \in {"prepared", "applying", "applied", "recorded"}
    <3>1. \A i \in 1..Len(journal) : journal[i] \in JournalSet
      BY <2>1 DEF Shape
    <3> QED BY <3>1 DEF JournalSet
  <2>5. op.pc # "none" => queue # <<>>
    BY DEF IInv, OpIsBacked
  <2>6. ASSUME NEW t \in Task
        PROVE  /\ task[t].status \in Claimable \cup ActiveStatus \cup Success \cup Repairable
               /\ task[t].attempt \in 0..MaxAttempts /\ task[t].claim \in {"none", "live", "gone"}
               /\ task[t].result \in Result \cup {NoResult} /\ task[t].heard \subseteq Opinions
               /\ task[t].review \in Opinions \cup {NoResult}
    BY TaskFacts DEF TaskSet, Statuses
  <2>7. ASSUME NEW t \in Task
        PROVE  /\ task[t].claim # "none" <=> task[t].status \in ActiveStatus
               /\ disk[t].edits \subseteq Attempt /\ (disk[t].exists \/ disk[t].edits = {})
               /\ dest.edits[t] \subseteq Attempt
    BY <2>3, TaskFacts DEF Coherent, Tree
  <2>8. ASSUME NEW t \in Task
        PROVE  /\ row[t].status \in RowStatus /\ row[t].journal \in 0..Len(journal)
               /\ row[t].status = "none" => ~HasTree(t) \/ task[t].attempt = 0
    BY TaskFacts, Unwritten DEF RowSet, Backed
  <2>9. ASSUME NEW t \in Task
        PROVE  work[t].pc \in {"idle", "turn", "validating", "finalizing", "integrating", "verifying",
                               "blocked", "failing", "looking", "removing"}
    BY TaskFacts DEF WorkSet, WorkPc
  <2> QED BY <2>2, <2>3, <2>4, <2>5, <2>6, <2>7, <2>8, <2>9 DEF TypeOK
<1> QED BY <1>1, IInvHolds, PTL

-----------------------------------------------------------------------------
(***************************************************************************)
(* Success.  Four steps can make a Task a success: the judgement of a turn *)
(* and of a review without a worktree, the end of an integration, and the  *)
(* recovery at start-up.  All of them go by a verdict that accepts.        *)
(***************************************************************************)

\* What a success is to rest on; v is the review in the row that is written.
Backing(t, v) ==
  /\ task[t].result.turn = "completed" /\ LastTestPassed(task[t].result.commands)
  /\ contract[t].criteria => v # NoResult
  /\ HasTree(t) => dest.edits[t] # {} /\ (work[t].pc = "verifying" => Delivered(t))

SuccessesAreBacked == \A t \in Task : Succeeded(t)' /\ ~Succeeded(t) => Backing(t, task'[t].review)

\* Without a worktree.
LEMMA SharedIsBacked ==
  ASSUME NEW t \in Task, task[t].result \in Result, ~HasTree(t), NEW v,
         Verdict([Evidence(t) EXCEPT !.validation = IF v = NoResult THEN "none" ELSE v.decision,
                                     !.excused = IF v = NoResult THEN {} ELSE v.excused]).decision \in Accepting
  PROVE  Backing(t, v)
<1> DEFINE e == [Evidence(t) EXCEPT !.validation = IF v = NoResult THEN "none" ELSE v.decision,
                                    !.excused = IF v = NoResult THEN {} ELSE v.excused]
<1>1. /\ e.result = task[t].result /\ e.contract = contract[t]
      /\ e.validation = IF v = NoResult THEN "none" ELSE v.decision
  BY DEF Evidence
<1>2. Verdict(e).decision \in Accepting
  OBVIOUS
<1> HIDE DEF e
<1>3. ExecutionVerdict(e).decision = "accept" /\ (e.contract.criteria => e.validation # "none")
  BY ONLY <1>2, AcceptedIsComplete
<1>4. e.result \in Result
  BY <1>1
<1>5. e.result.turn = "completed" /\ LastTestPassed(e.result.commands)
  BY ONLY <1>3, <1>4, AcceptedIsClean
<1> QED BY <1>1, <1>3, <1>5 DEF Backing

\* With a worktree: the artifact's patch can be taken back out of the destination, and it holds the
\* edits of the attempt whose worker has just integrated it.
LEMMA IntegratedIsBacked ==
  ASSUME IInv, NEW t \in Task, task[t].result \in Result, task[t].status \in ActiveStatus,
         Verdict(Integrated(t, Evidence(t))).decision \in Accepting
  PROVE  Backing(t, task[t].review)
<1> DEFINE e == Integrated(t, Evidence(t))
<1>1. /\ e.result = task[t].result /\ e.contract = contract[t] /\ e.integrated = TRUE
      /\ e.validation = IF task[t].review = NoResult THEN "none" ELSE task[t].review.decision
      /\ e.artifact = row[t].artifact.kind
      /\ e.postcondition = IF Verified(t) THEN "passed" ELSE "failed"
  BY DEF Integrated, Evidence
<1>2. Verdict(e).decision \in Accepting
  OBVIOUS
<1> HIDE DEF e
<1>3. /\ ExecutionVerdict(e).decision = "accept" /\ (e.contract.criteria => e.validation # "none")
      /\ e.contract.strategy # "none" /\ e.integrated => e.artifact = "changed"
      /\ e.postcondition # "failed"
  BY ONLY <1>2, AcceptedIsComplete
<1>4. e.result \in Result
  BY <1>1
<1>5. e.result.turn = "completed" /\ LastTestPassed(e.result.commands)
  BY ONLY <1>3, <1>4, AcceptedIsClean
<1>6. ASSUME HasTree(t) PROVE dest.edits[t] # {} /\ (work[t].pc = "verifying" => Delivered(t))
  <2>1. row[t].artifact.kind = "changed" /\ Verified(t)
    BY <1>1, <1>3, <1>6 DEF HasTree
  <2>2. row[t].artifact # NoArtifact
    BY <2>1 DEF NoArtifact
  <2>3. IsApplied(t, row[t].artifact)
    BY <2>1, <2>2 DEF Verified
  <2>4. patch[t].edits \subseteq dest.edits[t]
    BY <2>1, <2>3 DEF IsApplied, Reverses
  <2>5. patch[t].edits # {}
    BY <2>1, TaskFacts DEF Backed
  <2>6. task[t].result # NoResult
    BY ResultIsNone
  <2>7. work[t].pc = "verifying" /\ task[t].result.edits => task[t].attempt \in patch[t].edits
    BY <1>6, <2>6, TaskFacts DEF Coherent
  <2> QED BY <2>4, <2>5, <2>7 DEF Delivered
<1> QED BY <1>1, <1>3, <1>5, <1>6 DEF Backing

\* One row is written.
LEMMA RowIsBacked ==
  ASSUME IInv, NEW t \in Task, NEW k, task' = [task EXCEPT ![t] = k],
         k.status \in Success => task[t].status \in Success \/ Backing(t, k.review)
  PROVE  SuccessesAreBacked
<1>1. \A u \in Task : task'[u] = IF u = t THEN k ELSE task[u]
  BY DEF IInv, Shape
<1> QED BY <1>1 DEF SuccessesAreBacked, Succeeded

LEMMA NoneIsBacked == ASSUME UNCHANGED task PROVE SuccessesAreBacked
BY DEF SuccessesAreBacked, Succeeded

\* A row whose status is no success.
LEMMA OthersAreBacked ==
  ASSUME IInv, NEW t \in Task, NEW k, task' = [task EXCEPT ![t] = k], k.status \notin Success
  PROVE  SuccessesAreBacked
BY RowIsBacked

LEMMA OnwardIsBacked ==
  ASSUME IInv, NEW t \in Task, NEW r \in TaskSet, r.status \in ActiveStatus, r.result = task[t].result,
         task[t].result # NoResult, Onward(t, r)
  PROVE  SuccessesAreBacked
<1>1. CASE HasTree(t)
  <2> DEFINE k == [r EXCEPT !.status = "integration_pending"]
  <2>1. task' = [task EXCEPT ![t] = k]
    BY <1>1 DEF Onward
  <2>2. k.status \notin Success
    BY DEF TaskSet, Success
  <2> HIDE DEF k
  <2> QED BY <2>1, <2>2, OthersAreBacked
<1>2. CASE ~HasTree(t)
  <2> DEFINE verdict == Verdict([Evidence(t) EXCEPT
                          !.validation = IF r.review = NoResult THEN "none" ELSE r.review.decision,
                          !.excused = IF r.review = NoResult THEN {} ELSE r.review.excused])
             warned == IF contract[t].criteria THEN "completed_with_warnings" ELSE "completed"
             k == Verdicts(r, verdict, "completed", warned)
  <2>1. task' = [task EXCEPT ![t] = k]
    BY <1>2 DEF Onward, Verdicts
  <2>2. task[t].result \in Result
    BY TaskFacts DEF TaskSet
  <2>3. verdict.decision \in Accepting => Backing(t, r.review)
    BY <1>2, <2>2, SharedIsBacked
  <2>4. warned \in Success /\ "completed" \in Success
    BY DEF Success
  <2> HIDE DEF verdict, warned
  <2>5. k.status \in Success => verdict.decision \in Accepting /\ k.review = r.review
    <3>1. r \in TaskSet
      OBVIOUS
    <3>2. \A g \in Success, h \in Success :
            LET x == Verdicts(r, verdict, g, h) IN
            x.status \in Success => verdict.decision \in Accepting /\ x.review = r.review
      BY ONLY <3>1, VerdictRow
    <3> QED BY <2>4, <3>2
  <2> HIDE DEF k
  <2> QED BY <2>1, <2>3, <2>5, RowIsBacked
<1> QED BY <1>1, <1>2

LEMMA JudgeIsBacked == ASSUME IInv, NEW t \in Task, Judge(t) PROVE SuccessesAreBacked
<1> DEFINE verdict == ExecutionVerdict(Evidence(t))
           s == IF verdict.decision # "attention" /\ task[t].result.turn = "interrupted"
                THEN "interrupted" ELSE TerminalOf(verdict)
           r == FailedRow(task[t], verdict.failure, s, {})
<1>1. Owned(t) /\ task[t].result # NoResult
  BY DEF Judge
<1>2. CASE verdict.decision # "accept"
  <2>1. task' = [task EXCEPT ![t] = r]
    BY <1>2 DEF Judge
  <2>2. s \in Repairable /\ {} \in SUBSET Opinions
    BY TerminalIsRepairable DEF Repairable
  <2> HIDE DEF s
  <2>3. r.status \in {"retry_waiting", s}
    BY <2>2, FailedRowEnds, TaskFacts
  <2>4. r.status \notin Success
    BY <2>2, <2>3, Vocabulary DEF Claimable
  <2> HIDE DEF r
  <2> QED BY <2>1, <2>4, OthersAreBacked
<1>3. CASE verdict.decision = "accept" /\ contract[t].criteria
  <2> DEFINE k == [task[t] EXCEPT !.status = "validating"]
  <2>1. task' = [task EXCEPT ![t] = k]
    BY <1>3 DEF Judge
  <2>2. k.status \notin Success
    BY TaskFacts DEF TaskSet, Success
  <2> HIDE DEF k
  <2> QED BY <2>1, <2>2, OthersAreBacked
<1>4. CASE verdict.decision = "accept" /\ ~contract[t].criteria
  <2>1. Onward(t, task[t])
    BY <1>4 DEF Judge
  <2> QED BY <1>1, <2>1, TaskFacts, OwnedIsActive, OnwardIsBacked
<1> QED BY <1>2, <1>3, <1>4

LEMMA ValidateIsBacked == ASSUME IInv, NEW t \in Task, Validate(t) PROVE SuccessesAreBacked
<1>1. work[t].pc = "validating" /\ Owned(t)
  BY DEF Validate, At
<1>2. task[t].claim # "none" /\ task[t].status \in ActiveStatus
  BY <1>1, OwnedIsActive
<1>3. task[t].result # NoResult
  BY <1>1, <1>2, TaskFacts DEF Coherent, ActiveStatus
<1>4. PICK v \in Opinions :
        IF v.decision \in Accepting THEN Onward(t, [task[t] EXCEPT !.review = v])
        ELSE task' = [task EXCEPT ![t] = RefusedRow(task[t], v)]
  BY DEF Validate
<1>5. CASE v.decision \in Accepting
  <2> DEFINE k == [task[t] EXCEPT !.review = v]
  <2>1. k \in TaskSet /\ k.status = task[t].status /\ k.result = task[t].result
    BY TaskFacts DEF TaskSet
  <2>2. Onward(t, k)
    BY <1>4, <1>5
  <2> HIDE DEF k
  <2> QED BY <1>2, <1>3, <2>1, <2>2, OnwardIsBacked
<1>6. CASE v.decision \notin Accepting
  <2> DEFINE f == ValidationFailure(v)
             s == CASE f.type = "policy" -> "blocked_by_policy"
                    [] f.type = "validation" -> "rejected"
                    [] OTHER -> "validation_failed"
             feedback == IF f.type = "validation" THEN {v} ELSE {}
             r == FailedRow(task[t], f, s, feedback)
  <2>1. task' = [task EXCEPT ![t] = r]
    BY <1>4, <1>6 DEF RefusedRow
  <2>2. s \in Repairable /\ feedback \in SUBSET Opinions
    BY DEF Repairable
  <2> HIDE DEF s, feedback, f
  <2>3. r.status \in {"retry_waiting", s}
    BY <2>2, FailedRowEnds, TaskFacts
  <2>4. r.status \notin Success
    BY <2>2, <2>3, Vocabulary DEF Claimable
  <2> HIDE DEF r
  <2> QED BY <2>1, <2>4, OthersAreBacked
<1> QED BY <1>5, <1>6

LEMMA FinishIsBacked == ASSUME IInv, NEW t \in Task, Finish(t) PROVE SuccessesAreBacked
<1> DEFINE verdict == Verdict(Integrated(t, Evidence(t)))
           r == Verdicts(task[t], verdict, "completed", "completed_with_warnings")
<1>1. work[t].pc = "verifying" /\ Owned(t)
  BY DEF Finish, At
<1>2. task' = [task EXCEPT ![t] = r]
  BY DEF Finish, Verdicts
<1>3. task[t].claim # "none" /\ task[t].status \in ActiveStatus
  BY <1>1, OwnedIsActive
<1>4. task[t].result \in Result
  BY <1>1, <1>3, TaskFacts DEF Coherent, ActiveStatus, TaskSet
<1>5. verdict.decision \in Accepting => Backing(t, task[t].review)
  BY <1>3, <1>4, IntegratedIsBacked
<1> HIDE DEF verdict
<1>6. r.status \in Success => verdict.decision \in Accepting /\ r.review = task[t].review
  <2>1. task[t] \in TaskSet /\ "completed" \in Success /\ "completed_with_warnings" \in Success
    BY TaskFacts DEF Success
  <2>2. \A k \in TaskSet, g \in Success, h \in Success :
          LET x == Verdicts(k, verdict, g, h) IN
          x.status \in Success => verdict.decision \in Accepting /\ x.review = k.review
    BY ONLY VerdictRow
  <2> QED BY <2>1, <2>2
<1> HIDE DEF r
<1> QED BY <1>2, <1>5, <1>6, RowIsBacked

LEMMA BootSettlesIsBacked == ASSUME IInv, BootSettles PROVE SuccessesAreBacked
<1>1. PICK i \in boot.settle :
        task' = IF task[journal[i].task].status = "integration_pending"
                THEN [task EXCEPT ![journal[i].task] = SettledRow(journal[i].task, i)] ELSE task
  BY DEF BootSettles
<1> DEFINE t == journal[i].task
           verdict == Verdict(Integrated(t, Evidence(t)))
           f == FailedRow(task[t], verdict.failure, TerminalOf(verdict), {})
<1>2. t \in Task
  <2>1. boot.settle \subseteq 1..Len(journal) /\ journal \in Seq(JournalSet)
    BY DEF IInv, Shape, BootIsBacked
  <2>2. journal[i] \in JournalSet
    BY <2>1
  <2> QED BY <2>2 DEF JournalSet
<1>3. CASE task[t].status # "integration_pending"
  BY <1>1, <1>3, NoneIsBacked
<1>4. CASE task[t].status = "integration_pending"
  <2> DEFINE k == SettledRow(t, i)
  <2>1. task' = [task EXCEPT ![t] = k]
    BY <1>1, <1>4
  <2>2. task[t].status \in ActiveStatus /\ task[t].result \in Result
    BY <1>2, <1>4, TaskFacts DEF Coherent, ActiveStatus, TaskSet
  <2>3. verdict.decision \in Accepting => Backing(t, task[t].review)
    BY <1>2, <2>2, IntegratedIsBacked
  <2>4. \/ k = Ended(task[t], "integration_blocked")
        \/ k = Ended(task[t], "completed") /\ verdict.decision \in Accepting
        \/ k = f
    BY DEF SettledRow
  <2>5. f.status \in {"retry_waiting", TerminalOf(verdict)}
    <3>1. {} \in SUBSET Opinions
      OBVIOUS
    <3> QED BY <1>2, <3>1, TaskFacts, TerminalIsRepairable, FailedRowEnds
  <2>6. f.status \notin Success
    BY <2>5, TerminalIsRepairable, Vocabulary DEF Claimable
  <2> HIDE DEF f, verdict
  <2>7. k.status \in Success => Backing(t, k.review)
    <3>1. CASE k = Ended(task[t], "integration_blocked")
      <4>1. "integration_blocked" \in Statuses \ ActiveStatus /\ "integration_blocked" \notin Success
        BY DEF Statuses, ActiveStatus, Repairable, Success
      <4> QED BY <1>2, <3>1, <4>1, TaskFacts, EndedRow
    <3>2. CASE k = Ended(task[t], "completed") /\ verdict.decision \in Accepting
      <4>1. "completed" \in Statuses \ ActiveStatus
        BY DEF Statuses, ActiveStatus, Success
      <4> QED BY <1>2, <2>3, <3>2, <4>1, TaskFacts, EndedRow
    <3>3. CASE k = f
      BY <2>6, <3>3
    <3> QED BY <2>4, <3>1, <3>2, <3>3
  <2> HIDE DEF k, t
  <2> QED BY <1>2, <2>1, <2>7, RowIsBacked
<1> QED BY <1>3, <1>4

\* The other steps that write a Task's row.
LEMMA ClaimIsBacked == ASSUME IInv, NEW t \in Task, Claim(t) PROVE SuccessesAreBacked
<1> DEFINE k == [task[t] EXCEPT !.status = "running", !.claim = "live", !.attempt = task[t].attempt + 1,
                                !.result = NoResult, !.review = NoResult]
<1>1. task' = [task EXCEPT ![t] = k]
  BY DEF Claim
<1>2. k.status \notin Success
  BY TaskFacts DEF TaskSet, Success
<1> HIDE DEF k
<1> QED BY <1>1, <1>2, OthersAreBacked

LEMMA PrepareFailsIsBacked == ASSUME IInv, NEW t \in Task, PrepareFails(t) PROVE SuccessesAreBacked
<1> DEFINE k == [Ended(task[t], "failed") EXCEPT !.attempt = task[t].attempt + 1, !.result = NoResult]
<1>1. task' = [task EXCEPT ![t] = k]
  BY DEF PrepareFails
<1>2. k.status \notin Success
  BY TaskFacts DEF TaskSet, Ended, Success
<1> HIDE DEF k
<1> QED BY <1>1, <1>2, OthersAreBacked

LEMMA TurnEndsIsBacked == ASSUME IInv, NEW t \in Task, TurnEnds(t) PROVE SuccessesAreBacked
<1>1. PICK r \in Outcomes : task' = [task EXCEPT ![t].result = r]
  BY DEF TurnEnds
<1> DEFINE k == [task[t] EXCEPT !.result = r]
<1>2. task' = [task EXCEPT ![t] = k]
  BY <1>1
<1>3. k.status \notin Success
  BY TaskFacts DEF TurnEnds, TaskSet, Success
<1> HIDE DEF k
<1> QED BY <1>2, <1>3, OthersAreBacked

LEMMA StaleTakesIsBacked == ASSUME IInv, NEW t \in Task, StaleTakes(t) PROVE SuccessesAreBacked
<1>1. CASE task' = task
  BY <1>1, NoneIsBacked
<1>2. CASE task[t].status = "running" /\ task' = [task EXCEPT ![t].result.hydrated = "complete"]
  <2>1. \A u \in Task : task'[u].status = task[u].status
    BY <1>2, TaskFacts DEF Shape, TaskSet
  <2> QED BY <2>1 DEF SuccessesAreBacked, Succeeded
<1> QED BY <1>1, <1>2 DEF StaleTakes

LEMMA EndIsBacked ==
  ASSUME IInv, NEW t \in Task, NEW s \in Repairable \cup {"queued"}, task' = [task EXCEPT ![t] = Ended(task[t], s)]
  PROVE  SuccessesAreBacked
<1> DEFINE k == Ended(task[t], s)
<1>1. k.status \notin Success
  BY TaskFacts, Vocabulary, EndedRow DEF Claimable
<1> HIDE DEF k
<1> QED BY <1>1, OthersAreBacked DEF k

LEMMA CatchIsBacked == ASSUME IInv, NEW t \in Task, Catch(t) PROVE SuccessesAreBacked
<1> DEFINE s == IF work[t].pc = "blocked" THEN "integration_blocked" ELSE "failed"
<1>1. CASE Owned(t)
  <2>1. task' = [task EXCEPT ![t] = Ended(task[t], s)]
    BY <1>1 DEF Catch
  <2>2. s \in Repairable
    BY DEF Repairable
  <2> HIDE DEF s
  <2> QED BY <2>1, <2>2, EndIsBacked
<1>2. CASE ~Owned(t)
  BY <1>2, NoneIsBacked DEF Catch
<1> QED BY <1>1, <1>2

LEMMA StaleRecoversIsBacked == ASSUME IInv, NEW t \in Task, StaleRecovers(t) PROVE SuccessesAreBacked
<1>1. "recovery_attention" \in Repairable BY DEF Repairable
<1>2. task' = [task EXCEPT ![t] = Ended(task[t], "recovery_attention")] BY DEF StaleRecovers
<1> QED BY <1>1, <1>2, EndIsBacked

LEMMA CancelIsBacked == ASSUME IInv, NEW t \in Task, Cancel(t) PROVE SuccessesAreBacked
<1>1. "canceled" \in Repairable BY DEF Repairable
<1>2. task' = [task EXCEPT ![t] = Ended(task[t], "canceled")] BY DEF Cancel
<1> QED BY <1>1, <1>2, EndIsBacked

LEMMA RepairIsBacked == ASSUME IInv, NEW t \in Task, Repair(t) PROVE SuccessesAreBacked
<1> DEFINE k == [Ended(task[t], "queued") EXCEPT !.result = NoResult, !.review = NoResult, !.heard = {}]
<1>1. task' = [task EXCEPT ![t] = k]
  BY DEF Repair
<1>2. k.status \notin Success
  BY TaskFacts DEF TaskSet, Ended, Success
<1> HIDE DEF k
<1> QED BY <1>1, <1>2, OthersAreBacked

LEMMA CrashIsBacked == ASSUME IInv, Crash PROVE SuccessesAreBacked
<1>1. task' = [t \in Task |-> [task[t] EXCEPT !.claim = IF @ = "live" THEN "gone" ELSE @,
                                             !.review = IF task[t].status \in Success THEN @ ELSE NoResult]]
  BY DEF Crash
<1>2. ASSUME NEW t \in Task PROVE task'[t].status = task[t].status
  BY <1>1, TaskFacts DEF TaskSet
<1> QED BY <1>2 DEF SuccessesAreBacked, Succeeded

\* Steps that leave the tasks table alone.
LEMMA ElsewhereIsBacked ==
  ASSUME \/ Integrate \/ BootLists \/ BootReplays \/ ToolLook \/ ToolRemove \/ UNCHANGED vars
         \/ \E t \in Task : \/ FinalizeArtifact(t) \/ FinalizeThrows(t) \/ StaleThrows(t) \/ Look(t) \/ Remove(t)
                            \/ ToolCleanup(t) \/ ToolIntegrate(t) \/ ToolFinalize(t) \/ ToolQuarantine(t) \/ UserEdits(t)
  PROVE  SuccessesAreBacked
<1>1. CASE Integrate
  <2>1. UNCHANGED task
    BY <1>1 DEF Integrate, Begin, Detect, MarkApplying, Apply, Block, MarkApplied, Record, Recorded, Quiet
  <2> QED BY <2>1, NoneIsBacked
<1>2. CASE BootLists \/ BootReplays \/ ToolLook \/ ToolRemove \/ UNCHANGED vars
  BY <1>2, NoneIsBacked DEF BootLists, BootReplays, ToolLook, ToolRemove, CleanupSame, vars
<1>3. ASSUME NEW t \in Task, FinalizeArtifact(t) \/ FinalizeThrows(t) \/ StaleThrows(t) \/ Look(t) \/ Remove(t)
      PROVE  SuccessesAreBacked
  BY <1>3, NoneIsBacked DEF FinalizeArtifact, FinalizeThrows, StaleThrows, Look, Remove, CleanupSame
<1>4. ASSUME NEW t \in Task, \/ ToolCleanup(t) \/ ToolIntegrate(t) \/ ToolFinalize(t) \/ ToolQuarantine(t)
                             \/ UserEdits(t)
      PROVE  SuccessesAreBacked
  BY <1>4, NoneIsBacked DEF ToolCleanup, ToolIntegrate, ToolFinalize, ToolQuarantine, UserEdits
<1> QED BY <1>1, <1>2, <1>3, <1>4

\* A Task is completed only on a turn that had completed and whose last test passed, with the review its
\* criteria ask for and with a worktree's edits in the destination - by the worker, the reconciliation
\* of stale Tasks or the recovery of integrations at start-up, whatever crashes, cancellations, repairs
\* and tool calls of the user came before.
THEOREM SuccessBacked == Spec => SuccessIsBacked
<1>1. ASSUME IInv, [Next]_vars PROVE SuccessesAreBacked
  <2>1. CASE Integrate BY <2>1, ElsewhereIsBacked
  <2>2. CASE Boot BY <2>2, ElsewhereIsBacked, <1>1, BootSettlesIsBacked DEF Boot
  <2>3. CASE User BY <2>3, <1>1, ElsewhereIsBacked, CancelIsBacked, RepairIsBacked DEF User
  <2>4. CASE Crash BY <2>4, <1>1, CrashIsBacked
  <2>5. ASSUME NEW t \in Task, Worker(t) PROVE SuccessesAreBacked
    BY <1>1, <2>5, ElsewhereIsBacked, ClaimIsBacked, JudgeIsBacked, ValidateIsBacked, FinishIsBacked,
       CatchIsBacked, StaleTakesIsBacked, StaleRecoversIsBacked DEF Worker
  <2>6. ASSUME NEW t \in Task, TurnEnds(t) \/ PrepareFails(t) PROVE SuccessesAreBacked
    BY <1>1, <2>6, TurnEndsIsBacked, PrepareFailsIsBacked
  <2>7. CASE UNCHANGED vars BY <2>7, ElsewhereIsBacked
  <2> QED BY <1>1, <2>1, <2>2, <2>3, <2>4, <2>5, <2>6, <2>7 DEF Next
<1>2. IInv /\ [Next]_vars =>
        [\A t \in Task : Succeeded(t)' /\ ~Succeeded(t) =>
           /\ task[t].result.turn = "completed" /\ LastTestPassed(task[t].result.commands)
           /\ contract[t].criteria => task'[t].review # NoResult
           /\ HasTree(t) => dest.edits[t] # {} /\ (work[t].pc = "verifying" => Delivered(t))]_vars
  BY <1>1 DEF SuccessesAreBacked, Backing
<1> QED BY <1>2, IInvHolds, PTL DEF Spec, SuccessIsBacked

=============================================================================
