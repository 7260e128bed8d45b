---------------------- MODULE IntegrationReplayProofs -----------------------
(***************************************************************************)
(* Theorems about Integration for every value of its constants: whatever   *)
(* call of git a crash falls into, a patch that has reached the            *)
(* destination is recognised by the integration that is tried again.       *)
(***************************************************************************)
EXTENDS IntegrationProofs, FiniteSetTheorems

Active(t) == task[t].status \in ActiveStatus
Last(t) == task[t].attempt
Reaches(t) == Last(t) \in dest.edits[t]
Sole(t) == \A i, j \in JournalsOf(t) : i = j
OpOn(t) == op.pc # "none" /\ Head(queue).task = t

\* The replay of a journal of the Task is in the queue or still to come.
BootOn(t) ==
  \/ \E k \in 1..Len(queue) : queue[k].by = "boot" /\ queue[k].task = t
  \/ \E i \in boot.replay : journal[i].task = t

\* An artifact of the Task that is stored somewhere: one that holds the last attempt's edits is what the
\* patch file is.
StoredOf(t, a) ==
  /\ a.n <= patch[t].n /\ a.edits \subseteq 1..Last(t)
  /\ Last(t) \in a.edits => a.edits = patch[t].edits

\* Once the last attempt's edits are in the patch file, the directory has nothing else; once they are in
\* the destination, all of the patch is.
EditsAgree(t) ==
  /\ disk[t].edits \subseteq 1..Last(t) /\ patch[t].edits \subseteq 1..Last(t) /\ dest.edits[t] \subseteq 1..Last(t)
  /\ task[t].status = "running" /\ task[t].result = NoResult => Last(t) \notin disk[t].edits \cup patch[t].edits
  /\ Last(t) \in patch[t].edits => disk[t].edits \in {{}, patch[t].edits}
  /\ Reaches(t) => Last(t) \in patch[t].edits /\ patch[t].edits \subseteq dest.edits[t]
  /\ StoredOf(t, row[t].artifact) /\ StoredOf(t, work[t].row.artifact)
  /\ tool.pc \in {"looking", "removing"} /\ tool.task = t => StoredOf(t, tool.row.artifact)
  /\ OpOn(t) => StoredOf(t, op.artifact)
  /\ \A i \in JournalsOf(t) : journal[i].artifact.n <= patch[t].n

\* The user's tool and the cleanup keep off a Task that goes on.  Where no second journal stands for the
\* Task, its artifact is made by its worker's finalize only.
PhaseAgrees(t) ==
  /\ task[t].status = "validating" => work[t].pc \in {"idle", "validating"}
  /\ Active(t) => work[t].pc \notin {"looking", "removing"} /\ (tool.pc = "idle" \/ tool.task # t)
  /\ Active(t) /\ work[t].pc = "integrating" => row[t].artifact # NoArtifact
  /\ Active(t) /\ Sole(t) /\ Last(t) \in patch[t].edits =>
       /\ task[t].status = "integration_pending" /\ work[t].pc \notin {"turn", "validating", "finalizing"}
       /\ row[t].artifact.kind = "changed"

\* The tool has one call in the queue, start-up has one, and has taken its journal from those to replay.
CallsAgree ==
  \A k \in 1..Len(queue) :
    /\ queue[k].by = "tool" =>
         /\ tool.pc = "integrating" /\ tool.task = queue[k].task
         /\ \A l \in 1..Len(queue) : queue[l].by = "tool" => k = l
    /\ queue[k].by = "boot" =>
         /\ boot.pc = "waiting" /\ \E i \in JournalsOf(queue[k].task) : i \notin boot.replay
         /\ \A l \in 1..Len(queue) : queue[l].by = "boot" => k = l

OpAgrees ==
  op.pc # "none" =>
    /\ journal[op.journal].task = Head(queue).task /\ journal[op.journal].strategy = op.strategy
    /\ journal[op.journal].status # "recorded"
    /\ op.pc = "applying" => journal[op.journal].status = "applying"

ListingAlone ==
  /\ boot.pc = "listing" => queue = <<>> /\ \A t \in Task : work[t].pc = "idle"
  /\ boot.pc \in {"up", "listing"} => boot.replay = {} /\ boot.settle = {}

\* A patch in the destination whose journal has not noticed is not about to be applied again.
AppliedIsNoticed(t) ==
  Sole(t) /\ dest.touched[t] = "no" /\ Reaches(t) =>
    /\ JournalsOf(t) # {} /\ \A i \in JournalsOf(t) : journal[i].status # "prepared"
    /\ ~(OpOn(t) /\ op.pc \in {"prepared", "applying"})

\* The artifact is newer than the Task's journals: its integration adds a journal.
Fresh(t) ==
  row[t].artifact.kind = "changed" => \A i \in JournalsOf(t) : journal[i].artifact.n < row[t].artifact.n

\* A worker whose integration goes by the journal that start-up has found comes after the replay of it.
ComesAfterReplay(t) ==
  Sole(t) /\ Active(t) /\ work[t].pc \in {"integrating", "blocked"} =>
    \/ ~BootOn(t)
    \/ /\ work[t].pc = "integrating" /\ ~(OpOn(t) /\ Head(queue).by = "work")
       /\ Fresh(t) \/ (OpOn(t) /\ op.pc = "recording")

BlockedIsAbsent(t) ==
  Sole(t) /\ dest.touched[t] = "no" /\ Active(t) /\ work[t].pc = "blocked" => ~Reaches(t)

\* The patch of a journal cannot be applied to an untouched destination, now or later.
Stuck(i) ==
  \/ patch[journal[i].task].edits \cap dest.edits[journal[i].task] # {}
  \/ journal[i].strategy = "commit" /\ dest.dirty

\* A journal that stays open after its replay has not been applied, and will not be.
SettledIsAbsent(i) ==
  LET t == journal[i].task IN
  Sole(t) /\ dest.touched[t] = "no" /\ task[t].status = "integration_pending" /\ Open(i) /\ ~BootOn(t) =>
    /\ ~Reaches(t)
    /\ work[t].pc = "integrating" /\ (~Fresh(t) \/ OpOn(t)) => Stuck(i)

TaskReplays(t) ==
  EditsAgree(t) /\ PhaseAgrees(t) /\ AppliedIsNoticed(t) /\ ComesAfterReplay(t) /\ BlockedIsAbsent(t)

BInv ==
  /\ \A t \in Task : TaskReplays(t)
  /\ CallsAgree /\ OpAgrees /\ ListingAlone
  /\ \A i \in boot.settle : SettledIsAbsent(i)

-----------------------------------------------------------------------------
LEMMA Types ==
  ASSUME IInv, NEW t \in Task
  PROVE  /\ task[t] \in TaskSet /\ Last(t) \in Nat /\ row[t] \in RowSet /\ work[t] \in WorkSet
         /\ disk[t] \in Tree /\ patch[t] \in Patch /\ patch[t].n \in Nat
         /\ row[t].artifact \in Artifacts /\ work[t].row.artifact \in Artifacts
         /\ row[t].artifact.n \in Nat /\ op.artifact.n \in Nat /\ tool.row.artifact.n \in Nat
         /\ dest.edits[t] \subseteq Nat /\ patch[t].edits \subseteq Nat /\ disk[t].edits \subseteq Nat
<1>1. /\ task[t] \in TaskSet /\ row[t] \in RowSet /\ work[t] \in WorkSet /\ disk[t] \in Tree /\ patch[t] \in Patch
      /\ dest \in DestSet /\ op \in OpSet /\ tool \in ToolSet
  BY DEF IInv, Shape
<1>2. Attempt \subseteq Nat
  BY IntegrationAssumption DEF Attempt
<1>3. Last(t) \in Nat
  BY <1>1, IntegrationAssumption DEF Last, TaskSet
<1>4. /\ patch[t].n \in Nat /\ patch[t].edits \subseteq Attempt /\ disk[t].edits \subseteq Attempt
      /\ dest.edits[t] \subseteq Attempt
  BY <1>1 DEF Patch, Tree, DestSet
<1>5. work[t].row \in RowSet /\ tool.row \in RowSet /\ op.artifact \in Artifacts
  BY <1>1 DEF WorkSet, ToolSet, OpSet
<1>6. row[t].artifact \in Artifacts /\ work[t].row.artifact \in Artifacts /\ tool.row.artifact \in Artifacts
  BY <1>1, <1>5 DEF RowSet
<1>7. row[t].artifact.n \in Nat /\ op.artifact.n \in Nat /\ tool.row.artifact.n \in Nat
  BY <1>5, <1>6 DEF Artifacts
<1> QED BY <1>1, <1>2, <1>3, <1>4, <1>6, <1>7

LEMMA NothingStored ==
  ASSUME IInv, NEW t \in Task
  PROVE  StoredOf(t, NoArtifact)
BY Types DEF StoredOf, NoArtifact

LEMMA QueueTypes ==
  ASSUME IInv
  PROVE  /\ Len(queue) \in Nat /\ Len(journal) \in Nat
         /\ \A k \in 1..Len(queue) : queue[k] \in CallSet /\ queue[k].task \in Task /\ k \in Nat
         /\ \A i \in 1..Len(journal) : /\ journal[i] \in JournalSet /\ journal[i].task \in Task
                                       /\ journal[i].artifact.n \in Nat /\ i \in Nat
         /\ boot.settle \subseteq 1..Len(journal) /\ boot.replay \subseteq 1..Len(journal)
<1>1. queue \in Seq(CallSet) /\ journal \in Seq(JournalSet)
  BY DEF IInv, Shape
<1>2. /\ Len(queue) \in Nat /\ Len(journal) \in Nat
      /\ (\A k \in 1..Len(queue) : queue[k] \in CallSet) /\ (\A i \in 1..Len(journal) : journal[i] \in JournalSet)
  BY <1>1
<1>3. \A j \in JournalSet : j.task \in Task /\ j.artifact.n \in Nat
  BY DEF JournalSet, Artifacts
<1>4. \A c \in CallSet : c.task \in Task
  BY DEF CallSet
<1>5. boot.settle \subseteq 1..Len(journal) /\ boot.replay \subseteq 1..Len(journal)
  BY DEF IInv, BootIsBacked
<1> QED BY <1>2, <1>3, <1>4, <1>5

\* The integration in progress is that of the call at the head of the queue.
LEMMA OpTypes ==
  ASSUME IInv, op.pc # "none"
  PROVE  /\ queue # <<>> /\ Head(queue) = queue[1] /\ 1 \in 1..Len(queue) /\ Head(queue).task \in Task
         /\ Head(queue).by \in {"work", "tool", "boot"}
         /\ op.journal \in 1..Len(journal) /\ op.artifact.kind = "changed" /\ OpOn(Head(queue).task)
<1>1. queue # <<>> /\ op.journal \in 1..Len(journal) /\ op.artifact.kind = "changed" /\ queue \in Seq(CallSet)
  BY DEF IInv, OpIsBacked, Shape
<1>2. Head(queue) = queue[1] /\ 1 \in 1..Len(queue) /\ Head(queue) \in CallSet
  BY <1>1
<1> QED BY <1>1, <1>2 DEF CallSet, OpOn

\* A worker that has come to the integration has its Task in integration_pending, if it still has it.
LEMMA InPhase ==
  ASSUME IInv, NEW t \in Task, PhaseAgrees(t), Active(t),
         work[t].pc \in {"finalizing", "integrating", "verifying", "blocked", "failing"}
  PROVE  task[t].status = "integration_pending"
<1>1. task[t].status = "running" => work[t].pc \in {"idle", "turn"}
  BY DEF IInv, TaskIsCoherent, Coherent
<1> QED BY <1>1 DEF PhaseAgrees, Active, ActiveStatus

-----------------------------------------------------------------------------
(***************************************************************************)
(* Steps that leave the journals, the queue, the integration in progress   *)
(* and start-up alone.                                                     *)
(***************************************************************************)
Calm ==
  /\ UNCHANGED <<journal, queue, op, boot>> /\ boot.pc # "listing"
  /\ \A u \in Task : dest'.edits[u] = dest.edits[u] /\ (dest'.touched[u] = "no" => dest.touched[u] = "no")
  /\ dest.dirty => dest'.dirty

\* A Task that stays with its attempt, and one that comes to the next.
Rests(u) ==
  /\ Last(u)' = Last(u)
  /\ Active(u)' => /\ Active(u) /\ row'[u].artifact = row[u].artifact /\ patch'[u].edits = patch[u].edits
                   /\ work'[u].pc \in {"integrating", "blocked"} => work'[u].pc = work[u].pc
Restarts(u) == Last(u)' = Last(u) + 1 /\ work'[u].pc \notin {"integrating", "blocked"}

LEMMA CalmTask ==
  ASSUME IInv, BInv, Calm, NEW u \in Task, Rests(u) \/ Restarts(u)
  PROVE  /\ AppliedIsNoticed(u)' /\ ComesAfterReplay(u)' /\ BlockedIsAbsent(u)'
         /\ Restarts(u) => ~Reaches(u)'
<1>1. EditsAgree(u) /\ AppliedIsNoticed(u) /\ ComesAfterReplay(u) /\ BlockedIsAbsent(u) /\ Last(u) \in Nat
  BY Types DEF BInv, TaskReplays
<1>2. Sole(u)' <=> Sole(u)
  BY DEF Calm, Sole, JournalsOf
<1>3. CASE Restarts(u)
  <2>1. ~Reaches(u)'
    BY <1>1, <1>3 DEF EditsAgree, Reaches, Calm, Restarts
  <2> QED BY <1>3, <2>1 DEF AppliedIsNoticed, ComesAfterReplay, BlockedIsAbsent, Restarts
<1>4. CASE Rests(u) /\ ~Restarts(u)
  <2>1. Reaches(u)' <=> Reaches(u)
    BY <1>4 DEF Reaches, Calm, Rests
  <2>2. AppliedIsNoticed(u)'
    BY <1>1, <1>2, <2>1 DEF AppliedIsNoticed, Calm, OpOn, JournalsOf
  <2>3. BlockedIsAbsent(u)'
    BY <1>1, <1>2, <1>4, <2>1 DEF BlockedIsAbsent, Calm, Rests
  <2>4. ComesAfterReplay(u)'
    BY <1>1, <1>2, <1>4 DEF ComesAfterReplay, BootOn, OpOn, Fresh, JournalsOf, Calm, Rests
  <2> QED BY <1>4, <2>2, <2>3, <2>4
<1> QED BY <1>3, <1>4

LEMMA CalmSettles ==
  ASSUME IInv, BInv, Calm, \A u \in Task : Rests(u) \/ Restarts(u), NEW i \in boot.settle
  PROVE  SettledIsAbsent(i)'
<1>0. PICK t \in Task : t = journal[i].task
  BY QueueTypes
<1>1. i \in 1..Len(journal) /\ journal' = journal
  BY QueueTypes DEF Calm
<1>2. SettledIsAbsent(i) /\ EditsAgree(t) /\ PhaseAgrees(t)
  BY <1>0, <1>1 DEF BInv, TaskReplays
<1>3. (Sole(t)' <=> Sole(t)) /\ (Open(i)' <=> Open(i)) /\ (BootOn(t)' <=> BootOn(t)) /\ (OpOn(t)' <=> OpOn(t))
  BY <1>1 DEF Calm, Sole, JournalsOf, Open, BootOn, OpOn
<1>4. CASE Restarts(t)
  BY <1>0, <1>1, <1>4, CalmTask DEF SettledIsAbsent, Restarts
<1>5. CASE Rests(t)
  <2> SUFFICES ASSUME Sole(t), dest.touched[t] = "no", task'[t].status = "integration_pending", Open(i), ~BootOn(t)
               PROVE  /\ ~Reaches(t)'
                      /\ work'[t].pc = "integrating" /\ (~Fresh(t)' \/ OpOn(t)) => Stuck(i)'
    BY <1>0, <1>1, <1>3 DEF SettledIsAbsent, Calm
  <2>1. Active(t)' /\ Active(t)
    BY <1>5 DEF Rests, Active, ActiveStatus
  <2>2. Reaches(t)' <=> Reaches(t)
    BY <1>1, <1>5 DEF Reaches, Calm, Rests
  <2>3. CASE task[t].status # "integration_pending"
    <3>1. Last(t) \notin patch[t].edits
      BY <1>2, <2>1, <2>3 DEF PhaseAgrees
    <3>2. work[t].pc # "integrating"
      BY <1>1, <1>2, <2>1, <2>3, InPhase
    <3> QED BY <1>2, <1>5, <2>1, <2>2, <3>1, <3>2 DEF EditsAgree, Rests
  <2>4. CASE task[t].status = "integration_pending"
    <3>1. /\ ~Reaches(t)
          /\ work[t].pc = "integrating" /\ (~Fresh(t) \/ OpOn(t)) => Stuck(i)
      BY <1>0, <1>2, <2>4 DEF SettledIsAbsent
    <3>2. Fresh(t)' <=> Fresh(t)
      BY <1>1, <1>5, <2>1 DEF Fresh, JournalsOf, Rests
    <3>3. Stuck(i) => Stuck(i)'
      BY <1>0, <1>1, <1>5, <2>1 DEF Stuck, Rests, Calm
    <3> QED BY <1>5, <2>1, <2>2, <3>1, <3>2, <3>3 DEF Rests
  <2> QED BY <2>3, <2>4
<1> QED BY <1>1, <1>4, <1>5
LEMMA EditsStay ==
  ASSUME Calm, NEW u \in Task, EditsAgree(u), Last(u)' = Last(u), patch'[u] = patch[u],
         disk'[u].edits \in {disk[u].edits, {}},
         task'[u].status = "running" /\ task'[u].result = NoResult => task[u].status = "running" /\ task[u].result = NoResult,
         StoredOf(u, row'[u].artifact), StoredOf(u, work'[u].row.artifact),
         tool'.pc \in {"looking", "removing"} /\ tool'.task = u => StoredOf(u, tool'.row.artifact)
  PROVE  EditsAgree(u)'
<1>1. StoredOf(u, row[u].artifact)' /\ StoredOf(u, work[u].row.artifact)'
  BY DEF StoredOf
<1>2. tool'.pc \in {"looking", "removing"} /\ tool'.task = u => StoredOf(u, tool.row.artifact)'
  BY DEF StoredOf
<1>3. OpOn(u)' => StoredOf(u, op.artifact)'
  BY DEF EditsAgree, Calm, OpOn, StoredOf
<1>4. \A i \in JournalsOf(u)' : journal'[i].artifact.n <= patch'[u].n
  BY DEF EditsAgree, Calm, JournalsOf
<1>5. Reaches(u)' => Last(u)' \in patch'[u].edits /\ patch'[u].edits \subseteq dest'.edits[u]
  BY DEF EditsAgree, Calm, Reaches
<1>6. /\ disk'[u].edits \subseteq 1..Last(u)' /\ patch'[u].edits \subseteq 1..Last(u)'
      /\ dest'.edits[u] \subseteq 1..Last(u)'
      /\ task'[u].status = "running" /\ task'[u].result = NoResult => Last(u)' \notin disk'[u].edits \cup patch'[u].edits
      /\ Last(u)' \in patch'[u].edits => disk'[u].edits \in {{}, patch'[u].edits}
  BY DEF EditsAgree, Calm
<1> QED BY <1>1, <1>2, <1>3, <1>4, <1>5, <1>6 DEF EditsAgree

\* Nothing is written about a Task.
Aside(u) == task'[u] = task[u] /\ work'[u] = work[u] /\ row'[u] = row[u] /\ disk'[u] = disk[u] /\ patch'[u] = patch[u]

LEMMA AsideStays ==
  ASSUME IInv, BInv, Calm, NEW u \in Task, Aside(u),
         tool' = tool \/ tool'.pc = "idle" \/ tool'.task # u
  PROVE  TaskReplays(u)' /\ Rests(u)
<1>1. EditsAgree(u) /\ PhaseAgrees(u)
  BY DEF BInv, TaskReplays
<1>2. Rests(u)
  BY DEF Rests, Aside, Last, Active
<1>3. EditsAgree(u)'
  BY <1>1, EditsStay DEF Aside, EditsAgree, Last
<1>4. PhaseAgrees(u)'
  BY <1>1 DEF PhaseAgrees, Aside, Active, Sole, JournalsOf, Calm, Last
<1> QED BY <1>2, <1>3, <1>4, CalmTask DEF TaskReplays

\* One Task is written about.
LEMMA OneTask ==
  ASSUME IInv, BInv, Calm, NEW t \in Task, \A u \in Task \ {t} : Aside(u), Rests(t) \/ Restarts(t),
         EditsAgree(t)', PhaseAgrees(t)',
         tool' = tool \/ (tool.pc # "integrating" /\ (tool'.pc = "idle" \/ tool'.task = t))
  PROVE  BInv'
<1>1. \A u \in Task : Rests(u) \/ Restarts(u)
  BY AsideStays
<1>2. \A u \in Task : TaskReplays(u)'
  BY AsideStays, CalmTask DEF TaskReplays
<1>3. CallsAgree'
  BY DEF BInv, CallsAgree, Calm, JournalsOf
<1>4. OpAgrees' /\ ListingAlone'
  BY DEF BInv, OpAgrees, ListingAlone, Calm
<1>5. \A i \in boot'.settle : SettledIsAbsent(i)'
  BY <1>1, CalmSettles DEF Calm
<1> QED BY <1>2, <1>3, <1>4, <1>5 DEF BInv

-----------------------------------------------------------------------------
\* Steps of a worker, of the stale-Task reconciliation, and of the user, that leave worktrees alone.
Works(k, w, k1, w1) ==
  /\ k1.attempt = k.attempt
  /\ k1.status = "running" /\ k1.result = NoResult => k.status = "running" /\ k.result = NoResult
  /\ k1.status = "validating" => w1.pc \in {"idle", "validating"}
  /\ k1.status \in ActiveStatus =>
       /\ k.status \in ActiveStatus /\ w1.pc \notin {"looking", "removing"}
       /\ w1.pc \in {"integrating", "blocked"} => w1.pc = w.pc
       /\ k.status = "integration_pending" /\ w.pc \notin {"turn", "validating", "finalizing"} =>
            k1.status = "integration_pending" /\ w1.pc \notin {"turn", "validating", "finalizing"}

LEMMA WorksOn ==
  ASSUME IInv, BInv, WorktreeSame, boot.pc # "listing", NEW t \in Task, NEW k, NEW w,
         task' = [task EXCEPT ![t] = k], work' = [work EXCEPT ![t] = w],
         Works(task[t], work[t], k, w), w.row \in {work[t].row, row[t], NoRow}
  PROVE  BInv'
<1> USE DEF WorktreeSame
<1>1. Calm
  BY DEF Calm
<1>2. /\ task'[t] = k /\ work'[t] = w /\ \A u \in Task \ {t} : task'[u] = task[u] /\ work'[u] = work[u]
  BY DEF IInv, Shape
<1>3. EditsAgree(t) /\ PhaseAgrees(t)
  BY DEF BInv, TaskReplays
<1>4. Rests(t)
  BY <1>2 DEF Rests, Works, Last, Active
<1>5. StoredOf(t, w.row.artifact)
  <2>1. StoredOf(t, NoRow.artifact)
    BY NothingStored DEF NoRow
  <2> QED BY <1>3, <2>1 DEF EditsAgree
<1>6. EditsAgree(t)'
  BY <1>1, <1>2, <1>3, <1>5, EditsStay DEF EditsAgree, Works, Last
<1>7. PhaseAgrees(t)'
  <2>1. Sole(t)' <=> Sole(t)
    BY DEF Sole, JournalsOf
  <2> QED BY <1>2, <1>3, <2>1 DEF PhaseAgrees, Works, Active, Last
<1>8. \A u \in Task \ {t} : Aside(u)
  BY <1>2 DEF Aside
<1> QED BY <1>1, <1>4, <1>6, <1>7, <1>8, OneTask

\* The Task is over for its worker.
LEMMA OverOn ==
  ASSUME IInv, BInv, WorktreeSame, boot.pc # "listing", NEW t \in Task, NEW k, NEW w,
         task' = [task EXCEPT ![t] = k], work' = [work EXCEPT ![t] = w],
         k.attempt = task[t].attempt, k.status \notin ActiveStatus, w.row \in {work[t].row, row[t], NoRow}
  PROVE  BInv'
<1>1. Works(task[t], work[t], k, w)
  BY DEF Works, ActiveStatus
<1> QED BY <1>1, WorksOn

LEMMA IdleRow == Idle.row = NoRow
BY DEF Idle

LEMMA CleaningOn ==
  ASSUME IInv, NEW t \in Task
  PROVE  \E w : Cleaning(t) = [work EXCEPT ![t] = w] /\ w.row \in {work[t].row, row[t], NoRow}
<1>1. CASE work[t].by = "worker" /\ HasTree(t)
  <2> DEFINE w == [work[t] EXCEPT !.pc = "looking", !.row = row[t]]
  <2>1. w.row = row[t]
    BY TaskFacts DEF WorkSet
  <2>2. Cleaning(t) = [work EXCEPT ![t] = w]
    BY <1>1 DEF Cleaning
  <2> HIDE DEF w
  <2> QED BY <2>1, <2>2
<1>2. CASE ~(work[t].by = "worker" /\ HasTree(t))
  <2>1. Cleaning(t) = [work EXCEPT ![t] = Idle]
    BY <1>2 DEF Cleaning
  <2> QED BY <2>1, IdleRow
<1> QED BY <1>1, <1>2

LEMMA ToOn ==
  ASSUME IInv, NEW t \in Task, NEW pc
  PROVE  LET w == [work[t] EXCEPT !.pc = pc] IN
         /\ To(t, pc) = [work EXCEPT ![t] = w] /\ w.pc = pc /\ w.row = work[t].row
BY TaskFacts DEF To, WorkSet

LEMMA OnwardOn ==
  ASSUME IInv, BInv, NEW t \in Task, NEW r \in TaskSet, Owned(t), work[t].pc \in {"turn", "validating"},
         r.attempt = task[t].attempt, Onward(t, r), WorktreeSame, boot.pc # "listing"
  PROVE  BInv'
<1>1. task[t].status \in ActiveStatus
  BY OwnedIsActive
<1>2. CASE HasTree(t)
  <2> DEFINE k == [r EXCEPT !.status = "integration_pending"]
             w == [work[t] EXCEPT !.pc = "finalizing"]
  <2>1. task' = [task EXCEPT ![t] = k] /\ work' = [work EXCEPT ![t] = w] /\ w.pc = "finalizing" /\ w.row = work[t].row
    BY <1>2, ToOn DEF Onward
  <2>2. k.status = "integration_pending" /\ k.attempt = task[t].attempt
    BY DEF TaskSet
  <2> HIDE DEF k, w
  <2>3. Works(task[t], work[t], k, w)
    BY <1>1, <2>1, <2>2 DEF Works
  <2> QED BY <2>1, <2>3, WorksOn
<1>3. CASE ~HasTree(t)
  <2>1. PICK verdict :
          /\ task' = [task EXCEPT ![t] =
               CASE verdict.decision = "accept" -> Ended(r, "completed")
                 [] verdict.decision = "accept_with_warnings" ->
                      Ended(r, IF contract[t].criteria THEN "completed_with_warnings" ELSE "completed")
                 [] OTHER -> FailedRow(r, verdict.failure, TerminalOf(verdict), {})]
          /\ work' = [work EXCEPT ![t] = Idle]
    BY <1>3 DEF Onward
  <2> DEFINE warned == IF contract[t].criteria THEN "completed_with_warnings" ELSE "completed"
             k == Verdicts(r, verdict, "completed", warned)
  <2>2. task' = [task EXCEPT ![t] = k] /\ work' = [work EXCEPT ![t] = Idle]
    BY <2>1 DEF Verdicts
  <2>3. warned \in Success /\ "completed" \in Success
    BY DEF Success
  <2> HIDE DEF warned
  <2>4. k.status \notin ActiveStatus /\ k.attempt = r.attempt
    <3>1. r \in TaskSet
      OBVIOUS
    <3>2. \A g \in Success, h \in Success :
            LET x == Verdicts(r, verdict, g, h) IN x.status \notin ActiveStatus /\ x.attempt = r.attempt
      BY ONLY <3>1, VerdictRow
    <3> QED BY <2>3, <3>2
  <2> HIDE DEF k
  <2>5. Idle.row = NoRow
    BY DEF Idle
  <2> QED BY <2>2, <2>4, <2>5, OverOn
<1> QED BY <1>2, <1>3

LEMMA JudgeReplays == ASSUME IInv, BInv, NEW t \in Task, Judge(t) PROVE BInv'
<1> DEFINE verdict == ExecutionVerdict(Evidence(t))
           s == IF verdict.decision # "attention" /\ task[t].result.turn = "interrupted"
                THEN "interrupted" ELSE TerminalOf(verdict)
           r == FailedRow(task[t], verdict.failure, s, {})
<1>1. work[t].pc = "turn" /\ Owned(t) /\ WorktreeSame /\ boot.pc # "listing"
  BY DEF Judge, At, Free
<1>2. task[t].status \in ActiveStatus
  BY <1>1, OwnedIsActive
<1>3. CASE verdict.decision # "accept"
  <2>1. task' = [task EXCEPT ![t] = r]
        /\ work' = IF r.status \in {"retry_waiting", "recovery_attention"}
                   THEN [work EXCEPT ![t] = Idle] ELSE Cleaning(t)
    BY <1>3 DEF Judge
  <2>2. s \in Repairable /\ {} \in SUBSET Opinions
    BY TerminalIsRepairable DEF Repairable
  <2> HIDE DEF s
  <2>3. r.status \in {"retry_waiting", s} /\ r.attempt = task[t].attempt
    BY <2>2, FailedRowEnds, TaskFacts
  <2>4. r.status \notin ActiveStatus
    BY <2>2, <2>3, Vocabulary
  <2> HIDE DEF r
  <2>5. PICK w : work' = [work EXCEPT ![t] = w] /\ w.row \in {work[t].row, row[t], NoRow}
    BY <2>1, CleaningOn, IdleRow
  <2> QED BY <1>1, <2>1, <2>3, <2>4, <2>5, OverOn
<1>4. CASE verdict.decision = "accept" /\ contract[t].criteria
  <2> DEFINE k == [task[t] EXCEPT !.status = "validating"]
             w == [work[t] EXCEPT !.pc = "validating"]
  <2>1. task' = [task EXCEPT ![t] = k] /\ work' = [work EXCEPT ![t] = w] /\ w.pc = "validating" /\ w.row = work[t].row
    BY <1>4, ToOn DEF Judge
  <2>2. k.status = "validating" /\ k.attempt = task[t].attempt
    BY TaskFacts DEF TaskSet
  <2> HIDE DEF k, w
  <2>3. Works(task[t], work[t], k, w)
    BY <1>1, <1>2, <2>1, <2>2 DEF Works
  <2> QED BY <1>1, <2>1, <2>3, WorksOn
<1>5. CASE verdict.decision = "accept" /\ ~contract[t].criteria
  <2>1. Onward(t, task[t])
    BY <1>5 DEF Judge
  <2> QED BY <1>1, <2>1, TaskFacts, OnwardOn
<1> QED BY <1>3, <1>4, <1>5

LEMMA ValidateReplays == ASSUME IInv, BInv, NEW t \in Task, Validate(t) PROVE BInv'
<1>1. work[t].pc = "validating" /\ Owned(t) /\ WorktreeSame /\ boot.pc # "listing"
  BY DEF Validate, At, Free
<1>2. PICK v \in Opinions :
        IF v.decision \in Accepting THEN Onward(t, [task[t] EXCEPT !.review = v])
        ELSE LET r == RefusedRow(task[t], v) IN
             /\ task' = [task EXCEPT ![t] = r]
             /\ work' = IF r.status = "retry_waiting" THEN [work EXCEPT ![t] = Idle] ELSE Cleaning(t)
  BY DEF Validate
<1>3. CASE v.decision \in Accepting
  <2> DEFINE k == [task[t] EXCEPT !.review = v]
  <2>1. k \in TaskSet /\ k.attempt = task[t].attempt
    BY TaskFacts DEF TaskSet
  <2>2. Onward(t, k)
    BY <1>2, <1>3
  <2> HIDE DEF k
  <2> QED BY <1>1, <2>1, <2>2, OnwardOn
<1>4. CASE v.decision \notin Accepting
  <2> DEFINE f == ValidationFailure(v)
             s == CASE f.type = "policy" -> "blocked_by_policy"
                    [] f.type = "validation" -> "rejected"
                    [] OTHER -> "validation_failed"
             feedback == IF f.type = "validation" THEN {v} ELSE {}
             r == FailedRow(task[t], f, s, feedback)
  <2>1. task' = [task EXCEPT ![t] = r]
        /\ work' = IF r.status = "retry_waiting" THEN [work EXCEPT ![t] = Idle] ELSE Cleaning(t)
    BY <1>2, <1>4 DEF RefusedRow
  <2>2. s \in Repairable /\ feedback \in SUBSET Opinions
    BY DEF Repairable
  <2> HIDE DEF s, feedback, f
  <2>3. r.status \in {"retry_waiting", s} /\ r.attempt = task[t].attempt
    BY <2>2, FailedRowEnds, TaskFacts
  <2>4. r.status \notin ActiveStatus
    BY <2>2, <2>3, Vocabulary
  <2> HIDE DEF r
  <2>5. PICK w : work' = [work EXCEPT ![t] = w] /\ w.row \in {work[t].row, row[t], NoRow}
    BY <2>1, CleaningOn, IdleRow
  <2> QED BY <1>1, <2>1, <2>3, <2>4, <2>5, OverOn
<1> QED BY <1>3, <1>4

LEMMA FinalizeThrowsReplays == ASSUME IInv, BInv, NEW t \in Task, FinalizeThrows(t) PROVE BInv'
<1> DEFINE w == [work[t] EXCEPT !.pc = "failing"]
<1>1. work[t].pc = "finalizing" /\ WorktreeSame /\ boot.pc # "listing" /\ work' = [work EXCEPT ![t] = w]
      /\ w.pc = "failing" /\ w.row = work[t].row
  BY ToOn DEF FinalizeThrows, At, Free
<1> HIDE DEF w
<1>2. task' = [task EXCEPT ![t] = task[t]]
  BY DEF FinalizeThrows, IInv, Shape
<1>3. EditsAgree(t) /\ PhaseAgrees(t)
  BY DEF BInv, TaskReplays
<1>4. task[t].status # "validating"
  BY <1>1, <1>3 DEF PhaseAgrees
<1>5. Works(task[t], work[t], task[t], w)
  BY <1>1, <1>4 DEF Works
<1> QED BY <1>1, <1>2, <1>5, WorksOn

LEMMA FinishReplays == ASSUME IInv, BInv, NEW t \in Task, Finish(t) PROVE BInv'
<1> DEFINE verdict == Verdict(Integrated(t, Evidence(t)))
           r == Verdicts(task[t], verdict, "completed", "completed_with_warnings")
<1>1. WorktreeSame /\ boot.pc # "listing"
  BY DEF Finish, At, Free
<1>2. task' = [task EXCEPT ![t] = r]
      /\ work' = IF r.status = "retry_waiting" THEN [work EXCEPT ![t] = Idle] ELSE Cleaning(t)
  BY DEF Finish, Verdicts
<1>3. r.status \notin ActiveStatus /\ r.attempt = task[t].attempt
  <2>1. task[t] \in TaskSet /\ "completed" \in Success /\ "completed_with_warnings" \in Success
    BY TaskFacts DEF Success
  <2>2. \A k \in TaskSet, g \in Success, h \in Success :
          LET x == Verdicts(k, verdict, g, h) IN x.status \notin ActiveStatus /\ x.attempt = k.attempt
    BY ONLY VerdictRow
  <2> QED BY <2>1, <2>2
<1> HIDE DEF r
<1>4. PICK w : work' = [work EXCEPT ![t] = w] /\ w.row \in {work[t].row, row[t], NoRow}
  BY <1>2, CleaningOn, IdleRow
<1> QED BY <1>1, <1>2, <1>3, <1>4, OverOn

LEMMA CatchReplays == ASSUME IInv, BInv, NEW t \in Task, Catch(t) PROVE BInv'
<1>1. /\ work[t].by = "worker" /\ work[t].pc \in {"blocked", "failing", "turn", "validating", "verifying"}
      /\ work' = Cleaning(t) /\ WorktreeSame /\ boot.pc # "listing"
  BY DEF Catch, Free
<1>2. PICK w : work' = [work EXCEPT ![t] = w] /\ w.row \in {work[t].row, row[t], NoRow}
  BY <1>1, CleaningOn
<1>3. CASE Owned(t)
  <2> DEFINE s == IF work[t].pc = "blocked" THEN "integration_blocked" ELSE "failed"
             k == Ended(task[t], s)
  <2>1. task' = [task EXCEPT ![t] = k]
    BY <1>3 DEF Catch
  <2>2. s \in Statuses \ ActiveStatus
    BY DEF Statuses, ActiveStatus, Repairable
  <2> HIDE DEF s
  <2>3. k.status \notin ActiveStatus /\ k.attempt = task[t].attempt
    BY <2>2, TaskFacts, EndedRow
  <2> HIDE DEF k
  <2> QED BY <1>1, <1>2, <2>1, <2>3, OverOn
<1>4. CASE ~Owned(t)
  <2>1. task' = [task EXCEPT ![t] = task[t]]
    BY <1>4 DEF Catch, IInv, Shape
  <2>2. task[t].claim = "none"
    BY <1>1, <1>4, TaskFacts DEF Owned, Coherent, TaskSet
  <2>3. task[t].status \notin ActiveStatus
    BY <2>2, TaskFacts DEF Coherent
  <2> QED BY <1>1, <1>2, <2>1, <2>3, OverOn
<1> QED BY <1>3, <1>4

LEMMA StaleTakesReplays == ASSUME IInv, BInv, NEW t \in Task, StaleTakes(t) PROVE BInv'
<1>1. work[t].pc = "idle" /\ WorktreeSame /\ boot.pc # "listing"
  BY DEF StaleTakes, At, Free
<1>2. PhaseAgrees(t)
  BY DEF BInv, TaskReplays
<1>3. CASE /\ task[t].status = "running" /\ task[t].result # NoResult
           /\ task' = [task EXCEPT ![t].result.hydrated = "complete"]
           /\ work' = [work EXCEPT ![t] = [Idle EXCEPT !.pc = "turn", !.by = "stale"]]
  <2> DEFINE x == [task[t].result EXCEPT !.hydrated = "complete"]
             k == [task[t] EXCEPT !.result = x]
             w == [Idle EXCEPT !.pc = "turn", !.by = "stale"]
  <2>1. task' = [task EXCEPT ![t] = k] /\ work' = [work EXCEPT ![t] = w]
    BY <1>3
  <2>2. task[t].result \in Result
    BY <1>3, TaskFacts DEF TaskSet
  <2>3. x # NoResult
    BY <2>2, ResultIsNone DEF Result
  <2>4. k.status = "running" /\ k.attempt = task[t].attempt /\ k.result # NoResult
    BY <1>3, <2>3, TaskFacts DEF TaskSet
  <2>5. w.pc = "turn" /\ w.row = NoRow
    BY DEF Idle
  <2> HIDE DEF k, w
  <2>6. Works(task[t], work[t], k, w)
    BY <1>3, <2>4, <2>5 DEF Works, ActiveStatus
  <2> QED BY <1>1, <2>1, <2>5, <2>6, WorksOn
<1>4. CASE /\ task[t].status = "validating"
           /\ work' = [work EXCEPT ![t] = [Idle EXCEPT !.pc = "validating", !.by = "stale"]]
           /\ UNCHANGED task
  <2> DEFINE w == [Idle EXCEPT !.pc = "validating", !.by = "stale"]
  <2>1. w.pc = "validating" /\ w.row = NoRow
    BY DEF Idle
  <2>2. work' = [work EXCEPT ![t] = w] /\ task' = [task EXCEPT ![t] = task[t]]
    BY <1>4 DEF IInv, Shape
  <2> HIDE DEF w
  <2>3. Works(task[t], work[t], task[t], w)
    BY <1>4, <2>1 DEF Works, ActiveStatus
  <2> QED BY <1>1, <2>1, <2>2, <2>3, WorksOn
<1> QED BY <1>3, <1>4 DEF StaleTakes

LEMMA StaleThrowsReplays == ASSUME IInv, BInv, NEW t \in Task, StaleThrows(t) PROVE BInv'
<1>1. /\ work' = [work EXCEPT ![t] = Idle] /\ WorktreeSame /\ boot.pc # "listing"
      /\ task' = [task EXCEPT ![t] = task[t]]
  BY DEF StaleThrows, Free, IInv, Shape
<1>2. Works(task[t], work[t], task[t], Idle) /\ Idle.row = NoRow
  BY DEF Works, Idle
<1> QED BY <1>1, <1>2, WorksOn

\* A Task is ended from outside.
LEMMA EndsReplays ==
  ASSUME IInv, BInv, NEW t \in Task, StaleRecovers(t) \/ Cancel(t) \/ Repair(t)
  PROVE  BInv'
<1>1. WorktreeSame /\ boot.pc # "listing" /\ work' = [work EXCEPT ![t] = work[t]]
  BY DEF StaleRecovers, Cancel, Repair, At, Fault, Free, WorktreeSame, IInv, Shape
<1>2. \A s \in Statuses \ ActiveStatus :
        /\ Ended(task[t], s).status = s /\ Ended(task[t], s).attempt = task[t].attempt /\ Ended(task[t], s) \in TaskSet
  BY TaskFacts, EndedRow
<1>3. {"recovery_attention", "canceled", "queued"} \subseteq Statuses \ ActiveStatus
  BY DEF Statuses, ActiveStatus, Repairable, Claimable
<1>4. \E k : task' = [task EXCEPT ![t] = k] /\ k.attempt = task[t].attempt /\ k.status \notin ActiveStatus
  <2>1. CASE StaleRecovers(t) \/ Cancel(t)
    <3>1. PICK s \in {"recovery_attention", "canceled"} : task' = [task EXCEPT ![t] = Ended(task[t], s)]
      BY <2>1 DEF StaleRecovers, Cancel
    <3>2. Ended(task[t], s).attempt = task[t].attempt /\ Ended(task[t], s).status \notin ActiveStatus
      BY <1>2, <1>3
    <3> QED BY <3>1, <3>2
  <2>2. CASE Repair(t)
    <3> DEFINE e == Ended(task[t], "queued")
               k == [e EXCEPT !.result = NoResult, !.review = NoResult, !.heard = {}]
    <3>1. task' = [task EXCEPT ![t] = k]
      BY <2>2 DEF Repair
    <3>2. e \in TaskSet /\ e.status = "queued" /\ e.attempt = task[t].attempt
      BY <1>2, <1>3
    <3> HIDE DEF e
    <3>3. k.status = "queued" /\ k.attempt = task[t].attempt
      BY <3>2 DEF TaskSet
    <3> HIDE DEF k
    <3> QED BY <1>3, <3>1, <3>3
  <2> QED BY <2>1, <2>2
<1> QED BY <1>1, <1>4, OverOn

-----------------------------------------------------------------------------
\* Steps about the worktree of a Task that does not go on.
LEMMA CleansOn ==
  ASSUME IInv, BInv, UNCHANGED <<task, patch, journal, dest, queue, op, boot>>, boot.pc # "listing",
         NEW t \in Task, ~Active(t),
         NEW r, row' = [row EXCEPT ![t] = r], StoredOf(t, r.artifact),
         NEW d, disk' = [disk EXCEPT ![t] = d], d.edits \in {disk[t].edits, {}},
         NEW w, work' = [work EXCEPT ![t] = w], StoredOf(t, w.row.artifact),
         tool' = tool \/ (tool.pc # "integrating" /\ (tool'.pc = "idle" \/ tool'.task = t)),
         tool'.pc \in {"looking", "removing"} /\ tool'.task = t => StoredOf(t, tool'.row.artifact)
  PROVE  BInv'
<1>1. Calm
  BY DEF Calm
<1>2. /\ row'[t] = r /\ disk'[t] = d /\ work'[t] = w
      /\ \A u \in Task \ {t} : row'[u] = row[u] /\ disk'[u] = disk[u] /\ work'[u] = work[u]
  BY DEF IInv, Shape
<1>3. ~Active(t)'
  BY DEF Active
<1>4. EditsAgree(t) /\ PhaseAgrees(t)
  BY DEF BInv, TaskReplays
<1>5. EditsAgree(t)'
  BY <1>1, <1>2, <1>4, EditsStay DEF Last
<1>6. PhaseAgrees(t)'
  BY <1>3 DEF PhaseAgrees, Active, ActiveStatus
<1>7. Rests(t)
  BY <1>3 DEF Rests, Last
<1>8. \A u \in Task \ {t} : Aside(u)
  BY <1>2 DEF Aside
<1> QED BY <1>1, <1>5, <1>6, <1>7, <1>8, OneTask

LEMMA LookedArtifact ==
  ASSUME NEW t \in Task, NEW r \in RowSet
  PROVE  Looked(t, r).row.artifact \in {row[t].artifact, r.artifact}
<1> DEFINE x == Looked(t, r).row
<1>1. x = row[t] \/ x = [r EXCEPT !.status = "quarantined"] \/ x = [r EXCEPT !.status = "retained"]
  BY DEF Looked, Quarantined
<1> HIDE DEF x
<1>2. x.artifact \in {row[t].artifact, r.artifact}
  BY <1>1 DEF RowSet
<1> QED BY <1>2 DEF x

LEMMA RemovedArtifact ==
  ASSUME IInv, NEW t \in Task, NEW r \in RowSet, Removed(t, r)
  PROVE  \E x, d : /\ row' = [row EXCEPT ![t] = x] /\ disk' = [disk EXCEPT ![t] = d]
                   /\ x.artifact = r.artifact /\ d.edits \in {disk[t].edits, {}}
<1> DEFINE x == IF Removable(t, r) THEN [r EXCEPT !.status = "removed"] ELSE Quarantined(r)
           d == IF Removable(t, r) THEN [exists |-> FALSE, edits |-> {}] ELSE disk[t]
<1>1. row' = [row EXCEPT ![t] = x] /\ x.artifact = r.artifact
  BY DEF Removed, Quarantined, RowSet
<1>2. disk' = [disk EXCEPT ![t] = d] /\ d.edits \in {disk[t].edits, {}}
  BY DEF Removed, IInv, Shape
<1> HIDE DEF x, d
<1> QED BY <1>1, <1>2

LEMMA LookReplays == ASSUME IInv, BInv, NEW t \in Task, Look(t) PROVE BInv'
<1> DEFINE x == Looked(t, work[t].row).row
<1>1. /\ work[t].pc = "looking" /\ boot.pc # "listing" /\ row' = [row EXCEPT ![t] = x]
      /\ (work' = To(t, "removing") \/ work' = [work EXCEPT ![t] = Idle])
      /\ UNCHANGED <<task, patch, journal, dest, queue, op, boot, tool>>
      /\ disk' = [disk EXCEPT ![t] = disk[t]]
  BY DEF Look, At, Free, CleanupSame, IInv, Shape
<1>2. EditsAgree(t) /\ PhaseAgrees(t)
  BY DEF BInv, TaskReplays
<1>3. StoredOf(t, x.artifact)
  BY <1>2, LookedArtifact, TaskFacts DEF EditsAgree
<1>4. PICK w : work' = [work EXCEPT ![t] = w] /\ w.row \in {work[t].row, NoRow}
  <2>1. CASE work' = To(t, "removing")
    <3> DEFINE w == [work[t] EXCEPT !.pc = "removing"]
    <3>1. work' = [work EXCEPT ![t] = w] /\ w.row = work[t].row
      BY <2>1, ToOn
    <3> HIDE DEF w
    <3> QED BY <3>1
  <2>2. CASE work' = [work EXCEPT ![t] = Idle]
    BY <2>2, IdleRow
  <2> QED BY <1>1, <2>1, <2>2
<1>5. StoredOf(t, w.row.artifact)
  BY <1>2, <1>4, NothingStored DEF EditsAgree, NoRow
<1>6. tool'.pc \in {"looking", "removing"} /\ tool'.task = t => StoredOf(t, tool'.row.artifact)
  BY <1>1, <1>2 DEF EditsAgree
<1> HIDE DEF x
<1> QED BY <1>1, <1>2, <1>3, <1>4, <1>5, <1>6, CleansOn DEF PhaseAgrees

LEMMA RemoveReplays == ASSUME IInv, BInv, NEW t \in Task, Remove(t) PROVE BInv'
<1>1. /\ work[t].pc = "removing" /\ boot.pc # "listing" /\ Removed(t, work[t].row)
      /\ work' = [work EXCEPT ![t] = Idle]
      /\ UNCHANGED <<task, patch, journal, dest, queue, op, boot, tool>>
  BY DEF Remove, At, Free, CleanupSame
<1>2. EditsAgree(t) /\ PhaseAgrees(t)
  BY DEF BInv, TaskReplays
<1>3. PICK x, d : /\ row' = [row EXCEPT ![t] = x] /\ disk' = [disk EXCEPT ![t] = d]
                  /\ x.artifact = work[t].row.artifact /\ d.edits \in {disk[t].edits, {}}
  BY <1>1, RemovedArtifact, TaskFacts
<1>4. StoredOf(t, Idle.row.artifact)
  BY IdleRow, NothingStored DEF NoRow
<1>5. StoredOf(t, x.artifact) /\ ~Active(t)
      /\ (tool'.pc \in {"looking", "removing"} /\ tool'.task = t => StoredOf(t, tool'.row.artifact))
  BY <1>1, <1>2, <1>3 DEF EditsAgree, PhaseAgrees
<1> QED BY <1>1, <1>3, <1>4, <1>5, CleansOn

LEMMA ToolStored ==
  ASSUME IInv, BInv, tool.pc \in {"looking", "removing"}
  PROVE  \E t \in Task : /\ tool.task = t /\ ~Active(t) /\ StoredOf(t, tool.row.artifact) /\ tool.row \in RowSet
                         /\ EditsAgree(t) /\ work = [work EXCEPT ![t] = work[t]] /\ disk = [disk EXCEPT ![t] = disk[t]]
<1>1. tool.task \in Task
  BY DEF IInv, ToolIsBacked
<1> QED BY <1>1 DEF BInv, TaskReplays, EditsAgree, PhaseAgrees, IInv, Shape, ToolSet

LEMMA ToolLookReplays == ASSUME IInv, BInv, ToolLook PROVE BInv'
<1>1. /\ tool.pc = "looking" /\ boot.pc # "listing" /\ row' = [row EXCEPT ![tool.task] = Looked(tool.task, tool.row).row]
      /\ (tool' = [tool EXCEPT !.pc = "removing"] \/ tool' = NoTool)
      /\ UNCHANGED <<task, patch, journal, dest, queue, op, boot, work, disk>>
  BY DEF ToolLook, Free, CleanupSame
<1>2. PICK t \in Task : /\ tool.task = t /\ ~Active(t) /\ StoredOf(t, tool.row.artifact) /\ tool.row \in RowSet
                        /\ EditsAgree(t) /\ work = [work EXCEPT ![t] = work[t]] /\ disk = [disk EXCEPT ![t] = disk[t]]
  BY <1>1, ToolStored
<1> DEFINE x == Looked(t, tool.row).row
<1>3. StoredOf(t, x.artifact) /\ StoredOf(t, work[t].row.artifact)
  BY <1>2, LookedArtifact DEF EditsAgree
<1>4. tool'.pc = "idle" \/ (tool'.task = t /\ tool'.row = tool.row)
  BY <1>1, <1>2 DEF NoTool, IInv, Shape, ToolSet
<1>5. row' = [row EXCEPT ![t] = x]
  BY <1>1, <1>2
<1>6. tool' = tool \/ (tool.pc # "integrating" /\ (tool'.pc = "idle" \/ tool'.task = t))
  BY <1>1, <1>4
<1>7. tool'.pc \in {"looking", "removing"} /\ tool'.task = t => StoredOf(t, tool'.row.artifact)
  BY <1>2, <1>4
<1> HIDE DEF x
<1> QED BY <1>1, <1>2, <1>3, <1>5, <1>6, <1>7, CleansOn

LEMMA ToolRemoveReplays == ASSUME IInv, BInv, ToolRemove PROVE BInv'
<1>1. /\ tool.pc = "removing" /\ boot.pc # "listing" /\ Removed(tool.task, tool.row) /\ tool' = NoTool
      /\ UNCHANGED <<task, patch, journal, dest, queue, op, boot, work>>
  BY DEF ToolRemove, Free, CleanupSame
<1>2. PICK t \in Task : /\ tool.task = t /\ ~Active(t) /\ StoredOf(t, tool.row.artifact) /\ tool.row \in RowSet
                        /\ EditsAgree(t) /\ work = [work EXCEPT ![t] = work[t]] /\ disk = [disk EXCEPT ![t] = disk[t]]
  BY <1>1, ToolStored
<1>3. PICK x, d : /\ row' = [row EXCEPT ![t] = x] /\ disk' = [disk EXCEPT ![t] = d]
                  /\ x.artifact = tool.row.artifact /\ d.edits \in {disk[t].edits, {}}
  BY <1>1, <1>2, RemovedArtifact
<1>4. StoredOf(t, x.artifact) /\ StoredOf(t, work[t].row.artifact) /\ tool'.pc = "idle"
  BY <1>1, <1>2, <1>3 DEF EditsAgree, NoTool
<1> QED BY <1>1, <1>2, <1>3, <1>4, CleansOn

\* A tool call about a worktree: the Task does not go on.
LEMMA ToolMayCall ==
  ASSUME IInv, BInv, Careful, NEW t \in Task, Fault, HasRow(t)
  PROVE  /\ ~Active(t) /\ tool = NoTool /\ tool.pc = "idle" /\ boot.pc # "listing" /\ EditsAgree(t)
         /\ work = [work EXCEPT ![t] = work[t]] /\ disk = [disk EXCEPT ![t] = disk[t]] /\ row = [row EXCEPT ![t] = row[t]]
         /\ row[t] \in RowSet
BY DEF Fault, Free, HasRow, Active, NoTool, BInv, TaskReplays, IInv, Shape

LEMMA ToolCleanupReplays == ASSUME IInv, BInv, Careful, NEW t \in Task, ToolCleanup(t) PROVE BInv'
<1>1. /\ Fault /\ HasRow(t) /\ tool' = [pc |-> "looking", task |-> t, row |-> row[t]]
      /\ UNCHANGED <<task, row, disk, patch, journal, dest, work, queue, op, boot>>
  BY DEF ToolCleanup
<1>2. tool'.task = t /\ tool'.row = row[t]
  BY <1>1
<1>3. /\ ~Active(t) /\ tool.pc = "idle" /\ boot.pc # "listing" /\ EditsAgree(t)
      /\ work' = [work EXCEPT ![t] = work[t]] /\ disk' = [disk EXCEPT ![t] = disk[t]] /\ row' = [row EXCEPT ![t] = row[t]]
  BY <1>1, ToolMayCall
<1>4. StoredOf(t, row[t].artifact) /\ StoredOf(t, work[t].row.artifact)
  BY <1>3 DEF EditsAgree
<1>5. tool'.pc \in {"looking", "removing"} /\ tool'.task = t => StoredOf(t, tool'.row.artifact)
  BY <1>2, <1>4
<1> QED BY <1>1, <1>2, <1>3, <1>4, <1>5, CleansOn

LEMMA ToolQuarantineReplays == ASSUME IInv, BInv, Careful, NEW t \in Task, ToolQuarantine(t) PROVE BInv'
<1> DEFINE x == Quarantined(row[t])
<1>1. /\ Fault /\ HasRow(t) /\ row' = [row EXCEPT ![t] = x]
      /\ UNCHANGED <<task, disk, patch, journal, dest, work, tool, queue, op, boot>>
  BY DEF ToolQuarantine
<1>2. /\ ~Active(t) /\ tool.pc = "idle" /\ boot.pc # "listing" /\ EditsAgree(t) /\ row[t] \in RowSet
      /\ work' = [work EXCEPT ![t] = work[t]] /\ disk' = [disk EXCEPT ![t] = disk[t]]
  BY <1>1, ToolMayCall
<1>3. x.artifact = row[t].artifact
  BY <1>2 DEF Quarantined, RowSet
<1>4. StoredOf(t, x.artifact) /\ StoredOf(t, work[t].row.artifact)
  BY <1>2, <1>3 DEF EditsAgree
<1> HIDE DEF x
<1> QED BY <1>1, <1>2, <1>4, CleansOn

\* The user's edits are counted once and for all.
LEMMA UserEditsReplays == ASSUME IInv, BInv, NEW t \in Task, UserEdits(t) PROVE BInv'
<1> DEFINE now == IF dest.touched[t] = "yes" THEN "undone" ELSE "yes"
<1>1. /\ boot.pc # "listing" /\ dest' = [dest EXCEPT !.dirty = TRUE, !.touched[t] = now]
      /\ UNCHANGED <<task, row, disk, patch, journal, work, tool, queue, op, boot>>
  BY DEF UserEdits, Fault, Free
<1>2. now # "no"
  OBVIOUS
<1> HIDE DEF now
<1>3. dest \in DestSet
  BY DEF IInv, Shape
<1>4. /\ dest'.edits = dest.edits /\ dest'.dirty = TRUE
      /\ \A u \in Task : dest'.touched[u] = IF u = t THEN now ELSE dest.touched[u]
  BY <1>1, <1>3 DEF DestSet
<1>5. Calm
  BY <1>1, <1>2, <1>4 DEF Calm
<1>6. \A u \in Task : Aside(u)
  BY <1>1 DEF Aside
<1>7. EditsAgree(t)' /\ PhaseAgrees(t)' /\ Rests(t)
  BY <1>1, <1>5, <1>6, AsideStays DEF TaskReplays
<1> QED BY <1>1, <1>5, <1>6, <1>7, OneTask

-----------------------------------------------------------------------------
\* The next attempt: whatever is there is of earlier ones.
LEMMA NextAttempt ==
  ASSUME IInv, BInv, NEW t \in Task, UNCHANGED <<patch, journal, dest, tool, queue, op, boot>>, boot.pc # "listing",
         NEW k, task' = [task EXCEPT ![t] = k], k.attempt = task[t].attempt + 1, k.status \in {"running", "failed"},
         NEW r, row' = [row EXCEPT ![t] = r], r.artifact \in {row[t].artifact, NoArtifact},
         NEW d, disk' = [disk EXCEPT ![t] = d], d.edits \in {disk[t].edits, {}},
         NEW w, work' = [work EXCEPT ![t] = w], w.row \in {work[t].row, NoRow}, w.pc \in {"idle", "turn"},
         k.status = "running" => tool.pc = "idle" \/ tool.task # t
  PROVE  BInv'
<1>1. Calm
  BY DEF Calm
<1>2. /\ task'[t] = k /\ row'[t] = r /\ disk'[t] = d /\ work'[t] = w
      /\ \A u \in Task \ {t} : task'[u] = task[u] /\ row'[u] = row[u] /\ disk'[u] = disk[u] /\ work'[u] = work[u]
  BY DEF IInv, Shape
<1>3. EditsAgree(t) /\ PhaseAgrees(t) /\ Last(t) \in Nat
  BY Types DEF BInv, TaskReplays
<1>4. Last(t)' = Last(t) + 1 /\ \A s : s \subseteq 1..Last(t) => s \subseteq 1..Last(t)' /\ Last(t)' \notin s
  BY <1>2, <1>3 DEF Last
<1>5. \A a : StoredOf(t, a) => StoredOf(t, a)'
  BY <1>4 DEF StoredOf
<1>6. StoredOf(t, NoArtifact)
  BY NothingStored
<1>7. r.artifact = row[t].artifact \/ r.artifact = NoArtifact
  OBVIOUS
<1>8. w.row.artifact = work[t].row.artifact \/ w.row.artifact = NoArtifact
  BY DEF NoRow
<1>9. StoredOf(t, r.artifact)' /\ StoredOf(t, w.row.artifact)'
  <2>1. StoredOf(t, r.artifact) /\ StoredOf(t, w.row.artifact)
    BY <1>3, <1>6, <1>7, <1>8 DEF EditsAgree
  <2> QED BY <1>4, <2>1 DEF StoredOf
<1>10. /\ tool'.pc \in {"looking", "removing"} /\ tool'.task = t => StoredOf(t, tool.row.artifact)'
       /\ OpOn(t)' => StoredOf(t, op.artifact)'
  BY <1>3, <1>4 DEF EditsAgree, StoredOf, OpOn
<1>11. Last(t)' \notin disk'[t].edits \cup patch'[t].edits /\ ~Reaches(t)'
  BY <1>2, <1>3, <1>4 DEF EditsAgree, Reaches
<1>12. disk'[t].edits \subseteq 1..Last(t)' /\ patch'[t].edits \subseteq 1..Last(t)' /\ dest'.edits[t] \subseteq 1..Last(t)'
  BY <1>2, <1>3, <1>4 DEF EditsAgree
<1>13. \A i \in JournalsOf(t)' : journal'[i].artifact.n <= patch'[t].n
  BY <1>3 DEF EditsAgree, JournalsOf
<1>14. EditsAgree(t)'
  BY <1>2, <1>9, <1>10, <1>11, <1>12, <1>13 DEF EditsAgree, StoredOf
<1>15. PhaseAgrees(t)'
  BY <1>2, <1>11 DEF PhaseAgrees, Active, ActiveStatus
<1>16. Restarts(t)
  BY <1>2, <1>4 DEF Restarts
<1>17. \A u \in Task \ {t} : Aside(u)
  BY <1>2 DEF Aside
<1> QED BY <1>1, <1>14, <1>15, <1>16, <1>17, OneTask

LEMMA ClaimReplays == ASSUME IInv, BInv, Careful, NEW t \in Task, Claim(t) PROVE BInv'
<1> DEFINE k == [task[t] EXCEPT !.status = "running", !.claim = "live", !.attempt = task[t].attempt + 1,
                                !.result = NoResult, !.review = NoResult]
           w == [Idle EXCEPT !.pc = "turn"]
           r == IF HasTree(t) THEN Prepared(t) ELSE row[t]
           d == IF HasTree(t) THEN Ensured(t) ELSE disk[t]
<1>1. /\ boot.pc # "listing" /\ tool.task # t /\ UNCHANGED <<patch, journal, dest, tool, queue, op, boot>>
      /\ task' = [task EXCEPT ![t] = k] /\ work' = [work EXCEPT ![t] = w]
  BY DEF Claim, At, Free
<1>2. row' = [row EXCEPT ![t] = r] /\ disk' = [disk EXCEPT ![t] = d]
  BY DEF Claim, IInv, Shape
<1>3. k.attempt = task[t].attempt + 1 /\ k.status = "running"
  BY TaskFacts DEF TaskSet
<1>4. w.pc = "turn" /\ w.row = NoRow
  BY DEF Idle
<1>5. r.artifact \in {row[t].artifact, NoArtifact}
  <2>1. row[t] \in RowSet
    BY TaskFacts
  <2>2. [row[t] EXCEPT !.status = "active"].artifact = row[t].artifact
    BY <2>1 DEF RowSet
  <2>3. [NoRow EXCEPT !.status = "active"].artifact = NoArtifact
    BY DEF NoRow
  <2> QED BY <2>2, <2>3 DEF Prepared
<1>6. d.edits \in {disk[t].edits, {}}
  BY DEF Ensured
<1> HIDE DEF k, w, r, d
<1> QED BY <1>1, <1>2, <1>3, <1>4, <1>5, <1>6, NextAttempt

LEMMA PrepareFailsReplays == ASSUME IInv, BInv, NEW t \in Task, PrepareFails(t) PROVE BInv'
<1> DEFINE e == Ended(task[t], "failed")
           k == [e EXCEPT !.attempt = task[t].attempt + 1, !.result = NoResult]
           r == [NoRow EXCEPT !.status = "failed"]
<1>1. /\ boot.pc # "listing" /\ work[t].pc = "idle" /\ UNCHANGED <<disk, patch, journal, dest, work, tool, queue, op, boot>>
      /\ task' = [task EXCEPT ![t] = k] /\ row' = [row EXCEPT ![t] = r]
  BY DEF PrepareFails, At, Free
<1>2. disk' = [disk EXCEPT ![t] = disk[t]] /\ work' = [work EXCEPT ![t] = work[t]]
  BY <1>1 DEF IInv, Shape
<1>3. e \in TaskSet /\ e.status = "failed"
  <2>1. "failed" \in Statuses \ ActiveStatus
    BY DEF Statuses, ActiveStatus, Repairable
  <2> QED BY <2>1, TaskFacts, EndedRow
<1> HIDE DEF e
<1>4. k.attempt = task[t].attempt + 1 /\ k.status = "failed"
  BY <1>3 DEF TaskSet
<1>5. r.artifact = NoArtifact
  BY DEF NoRow
<1> HIDE DEF k, r
<1> QED BY <1>1, <1>2, <1>4, <1>5, NextAttempt

\* The edits of a turn come into the directory; no artifact is made of them yet.
LEMMA TurnEndsReplays == ASSUME IInv, BInv, NEW t \in Task, TurnEnds(t) PROVE BInv'
<1>1. PICK x \in Outcomes :
        /\ task' = [task EXCEPT ![t].result = x]
        /\ disk' = IF x.edits /\ HasTree(t) THEN [disk EXCEPT ![t].edits = @ \cup {task[t].attempt}] ELSE disk
  BY DEF TurnEnds
<1>2. /\ task[t].status = "running" /\ task[t].result = NoResult /\ boot.pc # "listing"
      /\ UNCHANGED <<row, patch, journal, dest, work, tool, queue, op, boot>>
  BY DEF TurnEnds, Free
<1>3. /\ task'[t].status = "running" /\ task'[t].attempt = task[t].attempt /\ task'[t].result = x
      /\ \A u \in Task \ {t} : task'[u] = task[u] /\ disk'[u] = disk[u]
      /\ disk'[t].edits \in {disk[t].edits, disk[t].edits \cup {Last(t)}}
  BY <1>1, <1>2 DEF Last, IInv, Shape, TaskSet, Tree
<1>4. x # NoResult
  BY IntegrationAssumption, ResultIsNone
<1>5. EditsAgree(t) /\ PhaseAgrees(t) /\ Last(t) \in Nat
  BY Types DEF BInv, TaskReplays
<1>6. Calm
  BY <1>2 DEF Calm
<1>7. Last(t) \notin patch[t].edits /\ Last(t)' = Last(t)
  BY <1>2, <1>3, <1>5 DEF EditsAgree, Last
<1>8. Last(t) # 0
  BY <1>2, TaskFacts DEF Coherent, ActiveStatus, Last
<1>9. disk'[t].edits \subseteq 1..Last(t)
  BY <1>3, <1>5, <1>8 DEF EditsAgree
<1>10. EditsAgree(t)'
  BY <1>2, <1>3, <1>4, <1>5, <1>7, <1>9 DEF EditsAgree, StoredOf, OpOn, Reaches, JournalsOf
<1>11. PhaseAgrees(t)'
  BY <1>2, <1>3, <1>5, <1>7 DEF PhaseAgrees, Active, ActiveStatus, Sole, JournalsOf
<1>12. Rests(t)
  BY <1>2, <1>3, <1>7 DEF Rests, Active
<1>13. \A u \in Task \ {t} : Aside(u)
  BY <1>2, <1>3 DEF Aside
<1> QED BY <1>2, <1>6, <1>10, <1>11, <1>12, <1>13, OneTask

\* The artifact of finalize: where the patch file had the last attempt's edits, it stays what it was.
LEMMA FinalizeEdits ==
  ASSUME IInv, NEW t \in Task, EditsAgree(t), Finalize(t), UNCHANGED <<task, disk, dest>>
  PROVE  /\ row'[t].artifact = ArtifactOf(t) /\ StoredOf(t, row[t].artifact)'
         /\ \A a \in Artifacts : StoredOf(t, a) => StoredOf(t, a)'
         /\ \A u \in Task \ {t} : row'[u] = row[u] /\ patch'[u] = patch[u]
         /\ patch'[t].n \in Nat /\ patch[t].n <= patch'[t].n /\ patch'[t].edits \subseteq 1..Last(t)'
         /\ ArtifactOf(t).kind = "changed" => ArtifactOf(t).n = patch[t].n + 1
         /\ ArtifactOf(t).kind # "changed" => patch'[t] = patch[t]
         /\ Last(t) \in patch[t].edits => patch'[t].edits = patch[t].edits
         /\ Last(t) \in patch'[t].edits => disk[t].edits \in {{}, patch'[t].edits}
         /\ task[t].status = "running" /\ task[t].result = NoResult => Last(t) \notin disk[t].edits \cup patch'[t].edits
         /\ Last(t)' = Last(t) /\ Last(t) \in Nat
<1>1. /\ row' = [row EXCEPT ![t] = FinalizedRow(t)]
      /\ patch' = [patch EXCEPT ![t] = IF Changed(t) THEN [n |-> @.n + 1, edits |-> disk[t].edits] ELSE @]
  BY DEF Finalize
<1>2. patch[t].n \in Nat /\ Last(t) \in Nat /\ row[t] \in RowSet /\ Last(t)' = Last(t)
  BY Types DEF Last
<1>3. FinalizedRow(t).artifact = ArtifactOf(t)
  BY <1>2 DEF FinalizedRow, RowSet
<1>4. /\ row'[t].artifact = ArtifactOf(t)
      /\ \A u \in Task \ {t} : row'[u] = row[u] /\ patch'[u] = patch[u]
  BY <1>1, <1>3 DEF IInv, Shape
<1>5. CASE Changed(t)
  <2>1. patch'[t].n = patch[t].n + 1 /\ patch'[t].edits = disk[t].edits /\ disk[t].edits # {}
    BY <1>1, <1>5 DEF IInv, Shape, Changed
  <2>2. ArtifactOf(t) = [kind |-> "changed", n |-> patch[t].n + 1, edits |-> disk[t].edits]
    BY <1>5 DEF ArtifactOf
  <2>3. Last(t) \in patch[t].edits => patch'[t].edits = patch[t].edits
    BY <2>1 DEF EditsAgree
  <2>4. ASSUME NEW a \in Artifacts, StoredOf(t, a) PROVE StoredOf(t, a)'
    <3>1. a.n \in Nat
      BY DEF Artifacts
    <3>2. Last(t) \in a.edits => a.edits = patch'[t].edits
      BY <2>3, <2>4 DEF StoredOf
    <3> QED BY <1>2, <2>1, <2>4, <3>1, <3>2 DEF StoredOf
  <2>5. StoredOf(t, row[t].artifact)'
    BY <1>2, <1>4, <2>1, <2>2 DEF StoredOf, EditsAgree
  <2> QED BY <1>2, <1>4, <2>1, <2>2, <2>3, <2>4, <2>5 DEF EditsAgree
<1>6. CASE ~Changed(t)
  <2>1. patch' = patch /\ ArtifactOf(t) = [kind |-> "unchanged", n |-> 0, edits |-> {}]
    BY <1>1, <1>6 DEF ArtifactOf, IInv, Shape
  <2>2. \A a : StoredOf(t, a) => StoredOf(t, a)'
    BY <1>2, <2>1 DEF StoredOf
  <2>3. StoredOf(t, row[t].artifact)'
    BY <1>2, <1>4, <2>1 DEF StoredOf
  <2> QED BY <1>2, <1>4, <2>1, <2>2, <2>3 DEF EditsAgree
<1> QED BY <1>5, <1>6

\* All that is said of the edits of a Task outlives its finalize.
LEMMA FinalizedEdits ==
  ASSUME IInv, NEW t \in Task, EditsAgree(t), Finalize(t),
         UNCHANGED <<task, disk, dest, journal, tool, op>>, OpOn(t)' => OpOn(t), work'[t].row = work[t].row
  PROVE  EditsAgree(t)'
<1>1. StoredOf(t, work[t].row.artifact)'
  <2>1. StoredOf(t, work[t].row.artifact) /\ work[t].row.artifact \in Artifacts
    BY Types DEF EditsAgree
  <2> QED BY <2>1, FinalizeEdits DEF StoredOf
<1>2. tool'.pc \in {"looking", "removing"} /\ tool'.task = t => StoredOf(t, tool.row.artifact)'
  <2>1. tool.row.artifact \in Artifacts
    BY DEF IInv, Shape, ToolSet, RowSet
  <2> QED BY <2>1, FinalizeEdits DEF StoredOf, EditsAgree
<1>3. OpOn(t)' => StoredOf(t, op.artifact)'
  <2>1. op.artifact \in Artifacts
    BY DEF IInv, Shape, OpSet
  <2> QED BY <2>1, FinalizeEdits DEF StoredOf, EditsAgree
<1>4. \A i \in JournalsOf(t)' : journal'[i].artifact.n <= patch'[t].n
  <2>1. \A i \in JournalsOf(t) : journal[i].artifact.n \in Nat /\ journal[i].artifact.n <= patch[t].n
    BY QueueTypes DEF EditsAgree, JournalsOf
  <2>2. patch[t].n \in Nat
    BY Types
  <2>3. \A i \in JournalsOf(t)' : i \in JournalsOf(t)
    BY DEF JournalsOf
  <2> QED BY <2>1, <2>2, <2>3, FinalizeEdits
<1>5. Reaches(t)' => Last(t)' \in patch'[t].edits /\ patch'[t].edits \subseteq dest'.edits[t]
  BY FinalizeEdits DEF EditsAgree, Reaches, Last
<1> QED BY <1>1, <1>2, <1>3, <1>4, <1>5, FinalizeEdits DEF EditsAgree, Last

LEMMA ToolFinalizeReplays == ASSUME IInv, BInv, Careful, NEW t \in Task, ToolFinalize(t) PROVE BInv'
<1>1. /\ Fault /\ HasRow(t) /\ disk[t].exists /\ Finalize(t)
      /\ UNCHANGED <<task, disk, journal, dest, work, tool, queue, op, boot>>
  BY DEF ToolFinalize
<1>2. ~Active(t) /\ tool.pc = "idle" /\ boot.pc # "listing" /\ EditsAgree(t)
  BY <1>1, ToolMayCall
<1>3. Calm
  BY <1>1, <1>2 DEF Calm
<1>4. ~Active(t)' /\ Last(t)' = Last(t)
  BY <1>1, <1>2 DEF Active, Last
<1>5. EditsAgree(t)'
  <2>1. work'[t].row = work[t].row /\ (OpOn(t)' => OpOn(t))
    BY <1>1 DEF OpOn
  <2> QED BY <1>1, <1>2, <1>4, <2>1, FinalizedEdits
<1>6. PhaseAgrees(t)' /\ Rests(t)
  BY <1>4 DEF PhaseAgrees, Rests, Active, ActiveStatus
<1>7. \A u \in Task \ {t} : Aside(u)
  BY <1>1, <1>2, FinalizeEdits DEF Aside
<1> QED BY <1>1, <1>3, <1>5, <1>6, <1>7, OneTask

-----------------------------------------------------------------------------
(***************************************************************************)
(* Calls that join the queue.                                              *)
(***************************************************************************)
LEMMA CallJoins ==
  ASSUME IInv, NEW c \in CallSet, queue' = Append(queue, c)
  PROVE  /\ Len(queue') = Len(queue) + 1 /\ queue'[Len(queue) + 1] = c /\ Len(queue) \in Nat
         /\ \A k \in 1..Len(queue) : queue'[k] = queue[k]
         /\ queue # <<>> => Head(queue') = Head(queue)
<1>1. queue \in Seq(CallSet)
  BY DEF IInv, Shape
<1>2. /\ Len(queue') = Len(queue) + 1 /\ queue'[Len(queue) + 1] = c /\ Len(queue) \in Nat
      /\ \A k \in 1..Len(queue) : queue'[k] = queue[k]
  BY <1>1
<1>3. queue # <<>> => Head(queue') = Head(queue)
  BY <1>1
<1> QED BY <1>2, <1>3

\* A call that joins the queue is behind the integration in progress, and only start-up's calls are replays.
LEMMA JoinedBehind ==
  ASSUME IInv, NEW c \in CallSet, queue' = Append(queue, c), UNCHANGED <<op, boot, journal>>, NEW t \in Task
  PROVE  /\ OpOn(t)' <=> OpOn(t)
         /\ op.pc # "none" => Head(queue') = Head(queue)
         /\ c.by # "boot" => (BootOn(t)' <=> BootOn(t))
<1>1. op.pc # "none" => queue # <<>>
  BY OpTypes
<1>2. op.pc # "none" => Head(queue') = Head(queue)
  BY <1>1, CallJoins
<1>3. ASSUME c.by # "boot" PROVE BootOn(t)' <=> BootOn(t)
  <2>1. /\ Len(queue') = Len(queue) + 1 /\ queue'[Len(queue) + 1] = c /\ Len(queue) \in Nat
        /\ \A k \in 1..Len(queue) : queue'[k] = queue[k]
    BY CallJoins
  <2>2. (\E k \in 1..Len(queue') : queue'[k].by = "boot" /\ queue'[k].task = t)
        <=> (\E k \in 1..Len(queue) : queue[k].by = "boot" /\ queue[k].task = t)
    <3>1. ASSUME NEW k \in 1..Len(queue'), queue'[k].by = "boot" PROVE k \in 1..Len(queue) /\ queue'[k] = queue[k]
      BY <1>3, <2>1, <3>1
    <3>2. \A k \in 1..Len(queue) : k \in 1..Len(queue')
      BY <2>1
    <3> QED BY <2>1, <3>1, <3>2
  <2> QED BY <2>2 DEF BootOn
<1> QED BY <1>2, <1>3 DEF OpOn

LEMMA FinalizeArtifactReplays == ASSUME IInv, BInv, NEW t \in Task, FinalizeArtifact(t) PROVE BInv'
<1> DEFINE c == Call("work", t, contract[t].strategy)
           w == [work[t] EXCEPT !.pc = "integrating"]
<1>1. /\ work[t].pc = "finalizing" /\ boot.pc # "listing" /\ disk[t].exists /\ Finalize(t)
      /\ queue' = Append(queue, c) /\ work' = [work EXCEPT ![t] = w] /\ w.pc = "integrating" /\ w.row = work[t].row
      /\ UNCHANGED <<contract, task, disk, journal, dest, tool, op, boot>>
  BY ToOn DEF FinalizeArtifact, At, Free
<1>2. c \in CallSet /\ c.by = "work"
  BY DEF Call, CallSet, Strategies, IInv, Shape
<1> HIDE DEF c, w
<1>3. /\ work'[t] = w /\ (\A u \in Task \ {t} : work'[u] = work[u])
  BY <1>1 DEF IInv, Shape
<1>4. \A u \in Task : (OpOn(u)' <=> OpOn(u)) /\ (BootOn(u)' <=> BootOn(u)) /\ (Sole(u)' <=> Sole(u))
                      /\ (Reaches(u)' <=> Reaches(u)) /\ (Active(u)' <=> Active(u))
  BY <1>1, <1>2, JoinedBehind DEF Sole, JournalsOf, Reaches, Last, Active
<1>5. op.pc # "none" => Head(queue') = Head(queue)
  BY <1>1, <1>2, JoinedBehind
<1>6. /\ row'[t].artifact = ArtifactOf(t) /\ \A u \in Task \ {t} : row'[u] = row[u] /\ patch'[u] = patch[u]
      /\ patch[t].n \in Nat
      /\ ArtifactOf(t).kind = "changed" => ArtifactOf(t).n = patch[t].n + 1
      /\ ArtifactOf(t).kind # "changed" => patch'[t] = patch[t]
  <2>1. EditsAgree(t)
    BY DEF BInv, TaskReplays
  <2>2. patch[t].n \in Nat
    BY Types
  <2>3. disk' = disk /\ task' = task /\ dest' = dest
    BY <1>1
  <2> QED BY <1>1, <2>1, <2>2, <2>3, FinalizeEdits
<1>7. ASSUME NEW u \in Task PROVE EditsAgree(u) /\ PhaseAgrees(u) /\ AppliedIsNoticed(u) /\ ComesAfterReplay(u)
                                  /\ BlockedIsAbsent(u)
  BY DEF BInv, TaskReplays
<1>8. Fresh(t)'
  <2>1. \A i \in JournalsOf(t) : journal[i].artifact.n \in Nat
    BY QueueTypes DEF JournalsOf
  <2> QED BY <1>1, <1>6, <1>7, <2>1 DEF Fresh, EditsAgree, JournalsOf
<1>9. row'[t].artifact # NoArtifact
  BY <1>6 DEF ArtifactOf, NoArtifact
<1>10. EditsAgree(t)'
  BY <1>1, <1>3, <1>4, <1>7, FinalizedEdits
<1>11. Active(t) => task[t].status = "integration_pending"
  BY <1>1, <1>7, InPhase
<1>12. PhaseAgrees(t)'
  <2>1. task[t].status # "validating"
    BY <1>1, <1>7 DEF PhaseAgrees
  <2>2. Active(t) /\ Sole(t) => Last(t) \notin patch[t].edits
    BY <1>1, <1>7 DEF PhaseAgrees
  <2>3. Active(t) /\ Sole(t) /\ Last(t)' \in patch'[t].edits => row'[t].artifact.kind = "changed"
    BY <1>1, <1>6, <2>2 DEF Last
  <2> QED BY <1>1, <1>3, <1>4, <1>7, <1>9, <1>11, <2>1, <2>3 DEF PhaseAgrees, Active
<1>13. AppliedIsNoticed(t)' /\ BlockedIsAbsent(t)'
  BY <1>1, <1>3, <1>4, <1>7 DEF AppliedIsNoticed, BlockedIsAbsent, JournalsOf
<1>14. ComesAfterReplay(t)'
  <2>1. ~(OpOn(t) /\ Head(queue).by = "work")
    <3> SUFFICES ASSUME OpOn(t), Head(queue).by = "work" PROVE FALSE
      OBVIOUS
    <3>1. 1 \in 1..Len(queue) /\ queue[1].by = "work" /\ queue[1].task = t
      BY OpTypes DEF OpOn
    <3>2. work[t].pc = "integrating"
      BY <3>1 DEF IInv, CallsAreAwaited
    <3> QED BY <1>1, <3>2
  <2>2. ~(OpOn(t)' /\ Head(queue').by = "work")
    BY <1>4, <1>5, <2>1 DEF OpOn
  <2> QED BY <1>1, <1>3, <1>8, <2>2 DEF ComesAfterReplay
<1>15. ASSUME NEW u \in Task \ {t} PROVE TaskReplays(u)'
  <2>1. work'[u] = work[u] /\ row'[u] = row[u] /\ patch'[u] = patch[u] /\ task' = task /\ disk' = disk
        /\ dest' = dest /\ journal' = journal /\ op' = op /\ tool' = tool
    BY <1>1, <1>3, <1>6
  <2>2. EditsAgree(u)'
    BY <1>4, <1>7, <2>1 DEF EditsAgree, StoredOf, JournalsOf, Last
  <2>3. PhaseAgrees(u)'
    BY <1>4, <1>7, <2>1 DEF PhaseAgrees, Active, Last
  <2>4. AppliedIsNoticed(u)' /\ BlockedIsAbsent(u)'
    BY <1>4, <1>7, <2>1 DEF AppliedIsNoticed, BlockedIsAbsent, JournalsOf
  <2>5. OpOn(u) => Head(queue') = Head(queue)
    BY <1>5 DEF OpOn
  <2>6. ComesAfterReplay(u)'
    BY <1>4, <1>7, <2>1, <2>5 DEF ComesAfterReplay, Fresh, JournalsOf
  <2> QED BY <2>2, <2>3, <2>4, <2>6 DEF TaskReplays
<1>16. CallsAgree'
  <2>1. \A k \in 1..Len(queue') : queue'[k].by # "work" => k \in 1..Len(queue) /\ queue'[k] = queue[k]
    BY <1>1, <1>2, CallJoins
  <2> QED BY <1>1, <2>1 DEF BInv, CallsAgree, JournalsOf
<1>17. OpAgrees' /\ ListingAlone'
  BY <1>1, <1>5 DEF BInv, OpAgrees, ListingAlone
<1>18. ASSUME NEW i \in boot'.settle PROVE SettledIsAbsent(i)'
  <2>1. PICK u \in Task : u = journal[i].task
    BY <1>1, QueueTypes
  <2>2. SettledIsAbsent(i) /\ journal' = journal /\ dest' = dest /\ task' = task
    BY <1>1 DEF BInv
  <2>3. CASE u # t
    <3>1. (Fresh(u)' <=> Fresh(u)) /\ (Stuck(i)' <=> Stuck(i)) /\ work'[u] = work[u]
      BY <1>3, <1>6, <2>1, <2>2, <2>3 DEF Fresh, Stuck, JournalsOf
    <3> QED BY <1>4, <2>1, <2>2, <3>1 DEF SettledIsAbsent, Open
  <2>4. CASE u = t
    <3>1. ~OpOn(t) \/ BootOn(t) \/ ~Active(t)
      <4> SUFFICES ASSUME OpOn(t), Active(t) PROVE BootOn(t)
        OBVIOUS
      <4>1. 1 \in 1..Len(queue) /\ queue[1].task = t /\ queue[1].by \in {"work", "tool", "boot"}
        BY OpTypes DEF OpOn
      <4>2. queue[1].by # "tool"
        BY <1>7, <4>1 DEF BInv, CallsAgree, PhaseAgrees
      <4>3. queue[1].by # "work"
        BY <1>1, <4>1 DEF IInv, CallsAreAwaited
      <4> QED BY <4>1, <4>2, <4>3 DEF BootOn
    <3>2. task[t].status = "integration_pending" => Active(t)
      BY DEF Active, ActiveStatus
    <3> QED BY <1>4, <1>8, <2>1, <2>2, <2>4, <3>1, <3>2 DEF SettledIsAbsent, Open
  <2> QED BY <2>3, <2>4
<1> QED BY <1>10, <1>12, <1>13, <1>14, <1>15, <1>16, <1>17, <1>18 DEF BInv, TaskReplays

LEMMA ToolIntegrateReplays == ASSUME IInv, BInv, Careful, NEW t \in Task, ToolIntegrate(t) PROVE BInv'
<1> DEFINE c == Call("tool", t, IF row[t].strategy = "none" THEN "patch" ELSE row[t].strategy)
<1>1. /\ Fault /\ HasRow(t) /\ tool' = [pc |-> "integrating", task |-> t, row |-> NoRow] /\ queue' = Append(queue, c)
      /\ UNCHANGED <<contract, task, row, disk, patch, journal, dest, work, op, boot>>
  BY DEF ToolIntegrate
<1>2. ~Active(t) /\ tool.pc = "idle" /\ boot.pc # "listing"
  BY <1>1, ToolMayCall
<1>3. c \in CallSet /\ c.by = "tool" /\ c.task = t
  BY TaskFacts DEF Call, CallSet, Strategies, RowSet
<1> HIDE DEF c
<1>4. \A u \in Task : (OpOn(u)' <=> OpOn(u)) /\ (BootOn(u)' <=> BootOn(u)) /\ (Sole(u)' <=> Sole(u))
                      /\ (Reaches(u)' <=> Reaches(u)) /\ (Active(u)' <=> Active(u)) /\ (Fresh(u)' <=> Fresh(u))
  BY <1>1, <1>3, JoinedBehind DEF Sole, JournalsOf, Reaches, Last, Active, Fresh
<1>5. op.pc # "none" => Head(queue') = Head(queue)
  BY <1>1, <1>3, JoinedBehind
<1>6. tool'.pc = "integrating" /\ tool'.task = t
  BY <1>1
<1>7. ASSUME NEW u \in Task PROVE TaskReplays(u)'
  <2>1. EditsAgree(u) /\ PhaseAgrees(u) /\ AppliedIsNoticed(u) /\ ComesAfterReplay(u) /\ BlockedIsAbsent(u)
    BY DEF BInv, TaskReplays
  <2>2. EditsAgree(u)'
    BY <1>1, <1>4, <1>6, <2>1 DEF EditsAgree, StoredOf, JournalsOf, Last
  <2>3. PhaseAgrees(u)'
    BY <1>1, <1>2, <1>4, <1>6, <2>1 DEF PhaseAgrees, Last
  <2>4. AppliedIsNoticed(u)' /\ BlockedIsAbsent(u)'
    BY <1>1, <1>4, <2>1 DEF AppliedIsNoticed, BlockedIsAbsent, JournalsOf
  <2>5. OpOn(u) => Head(queue') = Head(queue)
    BY <1>5 DEF OpOn
  <2>6. ComesAfterReplay(u)'
    BY <1>1, <1>4, <2>1, <2>5 DEF ComesAfterReplay
  <2> QED BY <2>2, <2>3, <2>4, <2>6 DEF TaskReplays
<1>8. CallsAgree'
  <2>1. /\ Len(queue') = Len(queue) + 1 /\ queue'[Len(queue) + 1] = c /\ Len(queue) \in Nat
        /\ \A k \in 1..Len(queue) : queue'[k] = queue[k]
    BY <1>1, <1>3, CallJoins
  <2>2. \A k \in 1..Len(queue) : queue[k].by # "tool"
    BY <1>2 DEF BInv, CallsAgree
  <2>3. \A k \in 1..Len(queue') : \/ k \in 1..Len(queue) /\ queue'[k] = queue[k]
                                  \/ k = Len(queue) + 1 /\ queue'[k] = c
    BY <2>1
  <2>4. ASSUME NEW k \in 1..Len(queue'), queue'[k].by = "tool"
        PROVE  /\ tool'.pc = "integrating" /\ tool'.task = queue'[k].task
               /\ \A l \in 1..Len(queue') : queue'[l].by = "tool" => k = l
    <3>1. \A l \in 1..Len(queue') : queue'[l].by = "tool" => l = Len(queue) + 1 /\ queue'[l] = c
      BY <2>2, <2>3
    <3> QED BY <1>3, <1>6, <2>4, <3>1
  <2>5. ASSUME NEW k \in 1..Len(queue'), queue'[k].by = "boot"
        PROVE  /\ boot'.pc = "waiting" /\ \E i \in JournalsOf(queue[k].task)' : i \notin boot'.replay
               /\ \A l \in 1..Len(queue') : queue'[l].by = "boot" => k = l
    <3>1. \A l \in 1..Len(queue') : queue'[l].by = "boot" => l \in 1..Len(queue) /\ queue'[l] = queue[l]
      BY <1>3, <2>3
    <3>2. k \in 1..Len(queue) /\ queue'[k] = queue[k] /\ queue[k].by = "boot"
      BY <2>5, <3>1
    <3>3. /\ boot.pc = "waiting" /\ \E i \in JournalsOf(queue[k].task) : i \notin boot.replay
          /\ \A l \in 1..Len(queue) : queue[l].by = "boot" => k = l
      BY <3>2 DEF BInv, CallsAgree
    <3>4. JournalsOf(queue[k].task)' = JournalsOf(queue[k].task) /\ boot' = boot
      BY <1>1, <3>2 DEF JournalsOf
    <3>5. \A l \in 1..Len(queue') : queue'[l].by = "boot" => k = l
      BY <3>1, <3>3
    <3> QED BY <3>3, <3>4, <3>5
  <2>6. \A k \in 1..Len(queue') : queue'[k].by = "tool" =>
          /\ tool'.pc = "integrating" /\ tool'.task = queue'[k].task
          /\ \A l \in 1..Len(queue') : queue'[l].by = "tool" => k = l
    BY <2>4
  <2>7. \A k \in 1..Len(queue') : queue'[k].by = "boot" =>
          /\ boot'.pc = "waiting" /\ \E i \in JournalsOf(queue[k].task)' : i \notin boot'.replay
          /\ \A l \in 1..Len(queue') : queue'[l].by = "boot" => k = l
    BY <2>5
  <2> QED BY <2>6, <2>7 DEF CallsAgree
<1>9. OpAgrees' /\ ListingAlone'
  BY <1>1, <1>2, <1>5 DEF BInv, OpAgrees, ListingAlone
<1>10. ASSUME NEW i \in boot'.settle PROVE SettledIsAbsent(i)'
  <2>1. SettledIsAbsent(i) /\ journal[i].task \in Task
    BY <1>1, QueueTypes DEF BInv
  <2> QED BY <1>1, <1>4, <2>1 DEF SettledIsAbsent, Stuck, Open
<1> QED BY <1>7, <1>8, <1>9, <1>10 DEF BInv

-----------------------------------------------------------------------------
(***************************************************************************)
(* Steps of the integration in progress.                                   *)
(***************************************************************************)
\* A Task that the step of another Task's integration has nothing to do with.
Untouched(u) ==
  /\ Aside(u) /\ dest'.edits[u] = dest.edits[u] /\ dest'.touched[u] = dest.touched[u] /\ (dest.dirty => dest'.dirty)
  /\ JournalsOf(u)' = JournalsOf(u) /\ \A i \in JournalsOf(u) : journal'[i] = journal[i]
  /\ BootOn(u)' <=> BootOn(u)
  /\ ~OpOn(u) /\ ~OpOn(u)'
  /\ tool' = tool \/ tool'.pc = "idle"

LEMMA Elsewhere ==
  ASSUME IInv, BInv, NEW u \in Task, Untouched(u)
  PROVE  TaskReplays(u)' /\ \A i \in boot.settle : journal[i].task = u => SettledIsAbsent(i)'
<1>1. EditsAgree(u) /\ PhaseAgrees(u) /\ AppliedIsNoticed(u) /\ ComesAfterReplay(u) /\ BlockedIsAbsent(u)
  BY DEF BInv, TaskReplays
<1>2. /\ (Sole(u)' <=> Sole(u)) /\ (Reaches(u)' <=> Reaches(u)) /\ (Active(u)' <=> Active(u))
      /\ (Fresh(u)' <=> Fresh(u)) /\ Last(u)' = Last(u)
  BY DEF Untouched, Aside, Sole, Reaches, Last, Active, Fresh
<1>3. EditsAgree(u)'
  BY <1>1, <1>2 DEF EditsAgree, StoredOf, Untouched, Aside
<1>4. PhaseAgrees(u)'
  BY <1>1, <1>2 DEF PhaseAgrees, Untouched, Aside
<1>5. AppliedIsNoticed(u)' /\ BlockedIsAbsent(u)' /\ ComesAfterReplay(u)'
  BY <1>1, <1>2 DEF AppliedIsNoticed, BlockedIsAbsent, ComesAfterReplay, Untouched, Aside
<1>6. ASSUME NEW i \in boot.settle, journal[i].task = u PROVE SettledIsAbsent(i)'
  <2>1. i \in JournalsOf(u) /\ SettledIsAbsent(i)
    BY <1>6, QueueTypes DEF JournalsOf, BInv
  <2>2. journal'[i] = journal[i] /\ (Stuck(i) => Stuck(i)')
    BY <1>6, <2>1 DEF Stuck, Untouched, Aside
  <2> QED BY <1>2, <1>6, <2>1, <2>2 DEF SettledIsAbsent, Open, Untouched, Aside
<1> QED BY <1>3, <1>4, <1>5, <1>6 DEF TaskReplays

\* Journals keep what they are about, and those of the other Tasks stay as they are.
SameJournals(t) ==
  /\ Len(journal') = Len(journal)
  /\ \A i \in 1..Len(journal) :
       /\ journal'[i].task = journal[i].task /\ journal'[i].strategy = journal[i].strategy
       /\ journal'[i].artifact = journal[i].artifact
       /\ journal[i].task # t => journal'[i] = journal[i]

LEMMA SetJournalSame ==
  ASSUME IInv, BInv, op.pc # "none", NEW s, SetJournal(s)
  PROVE  /\ SameJournals(Head(queue).task) /\ journal'[op.journal].status = s
         /\ \A i \in 1..Len(journal) : i # op.journal => journal'[i] = journal[i]
<1>1. /\ op.journal \in 1..Len(journal) /\ journal[op.journal].task = Head(queue).task
      /\ journal \in Seq(JournalSet)
  BY OpTypes DEF BInv, OpAgrees, IInv, Shape
<1>2. journal[op.journal] \in JournalSet
  BY <1>1
<1>3. /\ Len(journal') = Len(journal) /\ journal'[op.journal] = [journal[op.journal] EXCEPT !.status = s]
      /\ \A i \in 1..Len(journal) : i # op.journal => journal'[i] = journal[i]
  BY <1>1 DEF SetJournal
<1> QED BY <1>1, <1>2, <1>3 DEF SameJournals, JournalSet

LEMMA SameJournalsSame ==
  ASSUME NEW t, SameJournals(t), NEW u
  PROVE  /\ JournalsOf(u)' = JournalsOf(u) /\ (Sole(u)' <=> Sole(u))
         /\ \A i \in JournalsOf(u) : journal'[i].artifact = journal[i].artifact /\ journal'[i].task = journal[i].task
         /\ u # t => \A i \in JournalsOf(u) : journal'[i] = journal[i]
<1>1. JournalsOf(u)' = JournalsOf(u)
  BY DEF SameJournals, JournalsOf
<1> QED BY <1>1 DEF Sole, SameJournals, JournalsOf

\* The call at the head of the queue that a Task which goes on has.
LEMMA WhoIntegrates ==
  ASSUME IInv, BInv, queue # <<>>, NEW t \in Task, Head(queue).task = t
  PROVE  /\ Head(queue).by = "work" => work[t].pc = "integrating"
         /\ Active(t) => Head(queue).by # "tool"
         /\ Head(queue).by = "boot" => BootOn(t) /\ boot.pc = "waiting" /\ JournalsOf(t) # {}
         /\ Head(queue).by \in {"work", "tool", "boot"}
         /\ Head(queue) = queue[1] /\ 1 \in 1..Len(queue)
<1>1. queue \in Seq(CallSet)
  BY DEF IInv, Shape
<1>2. Head(queue) = queue[1] /\ 1 \in 1..Len(queue) /\ queue[1] \in CallSet
  BY <1>1
<1>3. Head(queue).by = "work" => work[t].pc = "integrating"
  BY <1>2 DEF IInv, CallsAreAwaited
<1>4. Active(t) => Head(queue).by # "tool"
  BY <1>2 DEF BInv, CallsAgree, TaskReplays, PhaseAgrees
<1>5. Head(queue).by = "boot" => BootOn(t) /\ boot.pc = "waiting" /\ JournalsOf(t) # {}
  BY <1>2 DEF BInv, CallsAgree, BootOn
<1> QED BY <1>2, <1>3, <1>4, <1>5 DEF CallSet

\* The integration goes on: what there is to show for its Task.
LEMMA OpGoesOn ==
  ASSUME IInv, BInv, Quiet, op.pc # "none", op'.pc # "none", NEW t \in Task, t = Head(queue).task,
         op'.artifact = op.artifact, op'.journal = op.journal, op'.strategy = op.strategy,
         SameJournals(t), journal'[op.journal].status # "recorded",
         op'.pc = "applying" => journal'[op.journal].status = "applying",
         \A u \in Task \ {t} : row'[u] = row[u] /\ dest'.edits[u] = dest.edits[u] /\ dest'.touched[u] = dest.touched[u],
         dest.dirty => dest'.dirty,
         TaskReplays(t)', \A i \in boot.settle : journal[i].task = t => SettledIsAbsent(i)'
  PROVE  BInv'
<1> USE DEF Quiet
<1>1. op.journal \in 1..Len(journal) /\ journal[op.journal].task = t /\ op.journal \in JournalsOf(t)
  BY OpTypes DEF BInv, OpAgrees, JournalsOf
<1>2. \A u \in Task : BootOn(u)' <=> BootOn(u)
  <2>1. \A i \in boot.replay : journal'[i].task = journal[i].task
    BY QueueTypes DEF SameJournals
  <2> QED BY <2>1 DEF BootOn
<1>3. ASSUME NEW u \in Task \ {t} PROVE Untouched(u)
  BY <1>2, SameJournalsSame DEF Untouched, Aside, OpOn
<1>4. \A u \in Task : TaskReplays(u)'
  BY <1>3, Elsewhere
<1>5. CallsAgree'
  BY SameJournalsSame DEF BInv, CallsAgree
<1>6. OpAgrees'
  BY <1>1 DEF BInv, OpAgrees, SameJournals
<1>7. ListingAlone'
  BY DEF BInv, ListingAlone
<1>8. ASSUME NEW i \in boot'.settle PROVE SettledIsAbsent(i)'
  BY <1>3, Elsewhere, QueueTypes
<1> QED BY <1>4, <1>5, <1>6, <1>7, <1>8 DEF BInv

\* ... where the destination stays as it is, and what is written in a row is the artifact that is integrated.
LEMMA OpMoves ==
  ASSUME IInv, BInv, Quiet, UNCHANGED dest, op.pc # "none", op'.pc # "none", NEW t \in Task, t = Head(queue).task,
         op'.artifact = op.artifact, op'.journal = op.journal, op'.strategy = op.strategy,
         SameJournals(t), journal'[op.journal].status # "recorded",
         op'.pc = "applying" => journal'[op.journal].status = "applying",
         \A u \in Task \ {t} : row'[u] = row[u],
         \/ row'[t] = row[t] /\ op.pc # "recording"
         \/ row'[t].artifact = op.artifact /\ op'.pc = "recording",
         AppliedIsNoticed(t)'
  PROVE  BInv'
<1> USE DEF Quiet
<1>1. EditsAgree(t) /\ PhaseAgrees(t) /\ ComesAfterReplay(t) /\ BlockedIsAbsent(t) /\ OpOn(t) /\ OpOn(t)'
      /\ op.artifact.kind = "changed" /\ op.artifact # NoArtifact
  BY OpTypes DEF BInv, TaskReplays, OpOn, NoArtifact
<1>2. /\ JournalsOf(t)' = JournalsOf(t) /\ (Sole(t)' <=> Sole(t)) /\ (Reaches(t)' <=> Reaches(t))
      /\ (Active(t)' <=> Active(t)) /\ Last(t)' = Last(t)
      /\ \A i \in JournalsOf(t) : journal'[i].artifact = journal[i].artifact
  <2>1. /\ JournalsOf(t)' = JournalsOf(t) /\ (Sole(t)' <=> Sole(t))
        /\ \A i \in JournalsOf(t) : journal'[i].artifact = journal[i].artifact
    BY SameJournalsSame
  <2>2. (Reaches(t)' <=> Reaches(t)) /\ (Active(t)' <=> Active(t)) /\ Last(t)' = Last(t)
    BY DEF Reaches, Active, Last
  <2> QED BY <2>1, <2>2
<1>3. BootOn(t)' <=> BootOn(t)
  <2>1. \A i \in boot.replay : journal'[i].task = journal[i].task
    BY QueueTypes DEF SameJournals
  <2> QED BY <2>1 DEF BootOn
<1>4. EditsAgree(t)'
  <2>1. EditsAgree(t)
    BY <1>1
  <2>2. \A a : StoredOf(t, a)' <=> StoredOf(t, a)
    BY <1>2 DEF StoredOf
  <2>3. StoredOf(t, row[t].artifact)' /\ StoredOf(t, work[t].row.artifact)'
    BY <1>1, <1>2, <2>1, <2>2 DEF EditsAgree
  <2>4. tool'.pc \in {"looking", "removing"} /\ tool'.task = t => StoredOf(t, tool.row.artifact)'
    BY <1>1, <1>2, <2>1, <2>2 DEF EditsAgree
  <2>5. OpOn(t)' => StoredOf(t, op.artifact)'
    BY <1>1, <2>1, <2>2 DEF EditsAgree
  <2>6. \A i \in JournalsOf(t)' : journal'[i].artifact.n <= patch'[t].n
    BY <1>2, <2>1 DEF EditsAgree
  <2> QED BY <1>2, <2>1, <2>3, <2>4, <2>5, <2>6 DEF EditsAgree
<1>5. PhaseAgrees(t)'
  BY <1>1, <1>2 DEF PhaseAgrees
<1>6. BlockedIsAbsent(t)'
  BY <1>1, <1>2 DEF BlockedIsAbsent
<1>7. row'[t] = row[t] => (Fresh(t)' <=> Fresh(t))
  BY <1>2 DEF Fresh
<1>8. ComesAfterReplay(t)'
  BY <1>1, <1>2, <1>3, <1>7 DEF ComesAfterReplay
<1>9. ASSUME NEW i \in boot.settle, journal[i].task = t PROVE SettledIsAbsent(i)'
  <2>1. SettledIsAbsent(i) /\ i \in 1..Len(journal)
    BY QueueTypes DEF BInv
  <2>2. journal'[i].task = t /\ (Stuck(i)' <=> Stuck(i))
    BY <1>9, <2>1 DEF Stuck, SameJournals
  <2>3. CASE Open(i)
    BY <1>1, <1>2, <1>3, <1>9, <2>1, <2>2, <2>3 DEF SettledIsAbsent
  <2>4. CASE ~Open(i)
    <3>1. SUFFICES ASSUME Sole(t), Open(i)' PROVE FALSE
      BY <1>2, <2>2 DEF SettledIsAbsent
    <3>2. i = op.journal
      BY <1>9, <2>1, <3>1, OpTypes DEF Sole, JournalsOf, BInv, OpAgrees
    <3> QED BY <2>4, <3>2, OpTypes DEF Open, BInv, OpAgrees
  <2> QED BY <2>3, <2>4
<1> QED BY <1>4, <1>5, <1>6, <1>8, <1>9, OpGoesOn DEF TaskReplays

\* The integration's journal is the Task's only one.
LEMMA SoleIsOp ==
  ASSUME IInv, BInv, op.pc # "none", NEW t, t = Head(queue).task, Sole(t)
  PROVE  op.journal \in JournalsOf(t) /\ \A i \in JournalsOf(t) : i = op.journal
BY OpTypes DEF BInv, OpAgrees, JournalsOf, Sole

LEMMA DetectReplays == ASSUME IInv, BInv, Detect PROVE BInv'
<1> DEFINE found == IsApplied(Head(queue).task, op.artifact)
<1>1. /\ op.pc = "detecting" /\ SetJournal(IF found THEN "applied" ELSE "prepared")
      /\ op' = [op EXCEPT !.pc = IF found THEN "applied" ELSE "prepared"] /\ Quiet /\ UNCHANGED <<row, dest>>
  BY DEF Detect
<1>2. PICK t \in Task : t = Head(queue).task
  BY <1>1, OpTypes
<1>3. found <=> Reverses(t)
  BY <1>1, <1>2, OpTypes DEF IsApplied
<1> HIDE DEF found
<1>4. SameJournals(t) /\ journal'[op.journal].status = IF found THEN "applied" ELSE "prepared"
  BY <1>1, <1>2, SetJournalSame
<1>5. /\ op'.pc = IF found THEN "applied" ELSE "prepared"
      /\ op'.artifact = op.artifact /\ op'.journal = op.journal /\ op'.strategy = op.strategy
  BY <1>1 DEF IInv, Shape, OpSet
<1>6. AppliedIsNoticed(t)'
  <2> SUFFICES ASSUME Sole(t)', dest.touched[t] = "no", Reaches(t)'
               PROVE  /\ JournalsOf(t)' # {} /\ \A i \in JournalsOf(t)' : journal'[i].status # "prepared"
                      /\ op'.pc \notin {"prepared", "applying"}
    BY <1>1 DEF AppliedIsNoticed
  <2>1. Sole(t) /\ JournalsOf(t)' = JournalsOf(t)
    BY <1>4, SameJournalsSame
  <2>2. Reaches(t) /\ EditsAgree(t)
    BY <1>1 DEF Quiet, Reaches, Last, BInv, TaskReplays
  <2>3. found
    BY <1>3, <2>2 DEF Reverses, EditsAgree
  <2> QED BY <1>1, <1>2, <1>4, <1>5, <2>1, <2>3, SoleIsOp
<1> QED BY <1>1, <1>2, <1>4, <1>5, <1>6, OpMoves

LEMMA MarkApplyingReplays == ASSUME IInv, BInv, MarkApplying PROVE BInv'
<1>1. /\ op.pc = "prepared" /\ SetJournal("applying") /\ op' = [op EXCEPT !.pc = "applying"]
      /\ Quiet /\ UNCHANGED <<row, dest>>
  BY DEF MarkApplying
<1>2. PICK t \in Task : t = Head(queue).task
  BY <1>1, OpTypes
<1>3. SameJournals(t) /\ journal'[op.journal].status = "applying"
  BY <1>1, <1>2, SetJournalSame
<1>4. /\ op'.pc = "applying" /\ op'.artifact = op.artifact /\ op'.journal = op.journal /\ op'.strategy = op.strategy
  BY <1>1 DEF IInv, Shape, OpSet
<1>5. AppliedIsNoticed(t)'
  <2>1. (Sole(t)' <=> Sole(t)) /\ (Reaches(t)' <=> Reaches(t))
    BY <1>1, <1>3, SameJournalsSame DEF Quiet, Reaches, Last
  <2>2. ~(Sole(t) /\ dest.touched[t] = "no" /\ Reaches(t))
    BY <1>1, <1>2 DEF BInv, TaskReplays, AppliedIsNoticed, OpOn
  <2> QED BY <1>1, <2>1, <2>2 DEF AppliedIsNoticed
<1> QED BY <1>1, <1>2, <1>3, <1>4, <1>5, OpMoves

LEMMA MarkAppliedReplays == ASSUME IInv, BInv, MarkApplied PROVE BInv'
<1>1. /\ op.pc = "marking" /\ SetJournal("applied") /\ op' = [op EXCEPT !.pc = "applied"]
      /\ Quiet /\ UNCHANGED <<row, dest>>
  BY DEF MarkApplied
<1>2. PICK t \in Task : t = Head(queue).task
  BY <1>1, OpTypes
<1>3. SameJournals(t) /\ journal'[op.journal].status = "applied"
  BY <1>1, <1>2, SetJournalSame
<1>4. /\ op'.pc = "applied" /\ op'.artifact = op.artifact /\ op'.journal = op.journal /\ op'.strategy = op.strategy
  BY <1>1 DEF IInv, Shape, OpSet
<1>5. AppliedIsNoticed(t)'
  <2>1. (Sole(t)' <=> Sole(t)) /\ JournalsOf(t)' = JournalsOf(t)
    BY <1>3, SameJournalsSame
  <2> QED BY <1>1, <1>2, <1>3, <1>4, <2>1, SoleIsOp DEF AppliedIsNoticed
<1> QED BY <1>1, <1>2, <1>3, <1>4, <1>5, OpMoves

LEMMA RecordReplays == ASSUME IInv, BInv, Record PROVE BInv'
<1> DEFINE r == [op.row EXCEPT !.status = "integrated", !.artifact = op.artifact,
                               !.strategy = op.strategy, !.journal = op.journal]
<1>1. /\ op.pc = "applied" /\ row' = [row EXCEPT ![Head(queue).task] = r]
      /\ op' = [op EXCEPT !.pc = "recording"] /\ Quiet /\ UNCHANGED <<journal, dest>>
  BY DEF Record
<1>2. PICK t \in Task : t = Head(queue).task
  BY <1>1, OpTypes
<1>3. r.artifact = op.artifact
  BY DEF IInv, Shape, OpSet, RowSet
<1> HIDE DEF r
<1>4. row'[t].artifact = op.artifact /\ \A u \in Task \ {t} : row'[u] = row[u]
  BY <1>1, <1>2, <1>3 DEF IInv, Shape
<1>5. /\ op'.pc = "recording" /\ op'.artifact = op.artifact /\ op'.journal = op.journal /\ op'.strategy = op.strategy
  BY <1>1 DEF IInv, Shape, OpSet
<1>6. SameJournals(t) /\ journal'[op.journal].status # "recorded"
  BY <1>1 DEF SameJournals, BInv, OpAgrees
<1>7. AppliedIsNoticed(t)'
  <2>1. (Sole(t)' <=> Sole(t)) /\ (Reaches(t)' <=> Reaches(t)) /\ JournalsOf(t)' = JournalsOf(t)
    BY <1>1, <1>6, SameJournalsSame DEF Quiet, Reaches, Last
  <2> QED BY <1>1, <1>5, <2>1 DEF BInv, TaskReplays, AppliedIsNoticed
<1> QED BY <1>1, <1>2, <1>4, <1>5, <1>6, <1>7, OpMoves

\* The patch cannot be applied a second time, nor where a worker is about to report it as not applied.
LEMMA ApplyReplays == ASSUME IInv, BInv, Apply PROVE BInv'
<1> DEFINE added == IF op.strategy = "patch" THEN patch[Head(queue).task].edits ELSE op.artifact.edits
<1>1. /\ op.pc = "applying" /\ Applicable(Head(queue).task)
      /\ dest' = [dest EXCEPT !.edits[Head(queue).task] = @ \cup added, !.dirty = @ \/ op.strategy = "patch"]
      /\ op' = [op EXCEPT !.pc = "marking"] /\ Quiet /\ UNCHANGED <<row, journal>>
  BY DEF Apply
<1>2. PICK t \in Task : t = Head(queue).task
  BY <1>1, OpTypes
<1>3. added \in {patch[t].edits, op.artifact.edits}
  BY <1>2
<1> HIDE DEF added
<1>4. /\ dest'.edits[t] = dest.edits[t] \cup added /\ dest'.touched = dest.touched /\ (dest.dirty => dest'.dirty)
      /\ \A u \in Task \ {t} : dest'.edits[u] = dest.edits[u]
  BY <1>1, <1>2 DEF IInv, Shape, DestSet
<1>5. op'.pc = "marking" /\ op'.artifact = op.artifact /\ op'.journal = op.journal /\ op'.strategy = op.strategy
  BY <1>1 DEF IInv, Shape, OpSet
<1>6. SameJournals(t) /\ journal'[op.journal].status = "applying" /\ JournalsOf(t)' = JournalsOf(t)
  BY <1>1 DEF SameJournals, BInv, OpAgrees, JournalsOf
<1>7. EditsAgree(t) /\ PhaseAgrees(t) /\ ComesAfterReplay(t) /\ BlockedIsAbsent(t) /\ OpOn(t) /\ StoredOf(t, op.artifact)
  BY <1>1, <1>2 DEF BInv, TaskReplays, OpOn, EditsAgree
<1>8. /\ (Sole(t)' <=> Sole(t)) /\ (Active(t)' <=> Active(t)) /\ Last(t)' = Last(t) /\ (Fresh(t)' <=> Fresh(t))
      /\ (BootOn(t)' <=> BootOn(t)) /\ OpOn(t)'
  BY <1>1, <1>2, <1>5, <1>6 DEF Quiet, Sole, Active, Last, Fresh, BootOn, OpOn
<1>9. EditsAgree(t)'
  <2>1. dest'.edits[t] \subseteq 1..Last(t)
    BY <1>3, <1>4, <1>7 DEF EditsAgree, StoredOf
  <2>2. ASSUME Last(t) \in dest'.edits[t] PROVE Last(t) \in patch[t].edits /\ patch[t].edits \subseteq dest'.edits[t]
    <3>1. CASE Last(t) \in dest.edits[t]
      BY <1>4, <1>7, <3>1 DEF EditsAgree, Reaches
    <3>2. CASE Last(t) \in added
      BY <1>3, <1>4, <1>7, <3>2 DEF StoredOf
    <3> QED BY <1>4, <2>2, <3>1, <3>2
  <2>3. Reaches(t)' => Last(t)' \in patch'[t].edits /\ patch'[t].edits \subseteq dest'.edits[t]
    BY <1>1, <1>8, <2>2 DEF Reaches, Quiet
  <2>4. \A a : StoredOf(t, a)' <=> StoredOf(t, a)
    BY <1>1, <1>8 DEF StoredOf, Quiet
  <2> QED BY <1>1, <1>5, <1>6, <1>7, <1>8, <2>1, <2>3, <2>4 DEF EditsAgree, Quiet, StoredOf
<1>10. PhaseAgrees(t)'
  BY <1>1, <1>7, <1>8 DEF PhaseAgrees, Quiet
<1>11. AppliedIsNoticed(t)'
  BY <1>1, <1>2, <1>5, <1>6, <1>8, SoleIsOp DEF AppliedIsNoticed
<1>12. ComesAfterReplay(t)'
  BY <1>1, <1>7, <1>8 DEF ComesAfterReplay, Quiet
<1>13. BlockedIsAbsent(t)'
  <2> SUFFICES ASSUME Sole(t), Active(t), work[t].pc = "blocked" PROVE FALSE
    BY <1>1, <1>8 DEF BlockedIsAbsent, Quiet
  <2>1. Head(queue).by = "boot" /\ BootOn(t)
    BY <1>1, <1>2, OpTypes, WhoIntegrates
  <2> QED BY <1>7, <2>1 DEF ComesAfterReplay
<1>14. ASSUME NEW i \in boot.settle, journal[i].task = t PROVE SettledIsAbsent(i)'
  <2> SUFFICES ASSUME Sole(t), dest.touched[t] = "no", task[t].status = "integration_pending", Open(i), ~BootOn(t)
               PROVE  FALSE
    BY <1>1, <1>4, <1>8, <1>14 DEF SettledIsAbsent, Open, Quiet
  <2>1. Active(t)
    BY DEF Active, ActiveStatus
  <2>2. work[t].pc = "integrating"
    BY <1>1, <1>2, <2>1, OpTypes, WhoIntegrates
  <2>3. Stuck(i)
    BY <1>7, <1>14, <2>2 DEF BInv, SettledIsAbsent
  <2>4. i = op.journal
    BY <1>1, <1>2, <1>14, QueueTypes, SoleIsOp DEF JournalsOf
  <2>5. journal[i].strategy = op.strategy
    BY <1>1, <2>4 DEF BInv, OpAgrees
  <2> QED BY <1>1, <1>2, <1>14, <2>3, <2>5 DEF Stuck, Applicable, Applies
<1> QED BY <1>1, <1>2, <1>4, <1>5, <1>6, <1>9, <1>10, <1>11, <1>12, <1>13, <1>14, OpGoesOn DEF TaskReplays

-----------------------------------------------------------------------------
(***************************************************************************)
(* Answers: the call at the head of the queue is over.                     *)
(***************************************************************************)
LEMMA QueueShifts ==
  ASSUME IInv, queue # <<>>, queue' = Tail(queue)
  PROVE  /\ \A k \in 1..Len(queue') : queue'[k] = queue[k + 1] /\ k + 1 \in 2..Len(queue) /\ k + 1 \in 1..Len(queue)
         /\ \A k \in 1..Len(queue) : k # 1 => k - 1 \in 1..Len(queue') /\ queue'[k - 1] = queue[k]
         /\ \A k \in 1..Len(queue') : k \in Nat /\ k + 1 # 1
         /\ \A k, l \in 1..Len(queue') : k + 1 = l + 1 => k = l
<1>1. queue \in Seq(CallSet) /\ Len(queue) \in Nat /\ Len(queue) # 0
  BY DEF IInv, Shape
<1>2. Len(queue') = Len(queue) - 1 /\ \A k \in 1..Len(queue') : queue'[k] = queue[k + 1]
  BY <1>1
<1>3. ASSUME NEW k \in 1..Len(queue), k # 1 PROVE k - 1 \in 1..Len(queue') /\ queue'[k - 1] = queue[k]
  <2>1. k - 1 \in 1..Len(queue') /\ (k - 1) + 1 = k
    BY <1>1, <1>2, <1>3
  <2>2. queue'[k - 1] = queue[(k - 1) + 1]
    BY <1>2, <2>1
  <2> QED BY <2>1, <2>2
<1> QED BY <1>1, <1>2, <1>3

\* Whose replay is still to come: no replay comes up, and the one that is answered was the only journal's.
LEMMA BootAnswered ==
  ASSUME IInv, BInv, queue # <<>>, queue' = Tail(queue), boot'.replay = boot.replay,
         NEW t \in Task, t = Head(queue).task, SameJournals(t), NEW u \in Task
  PROVE  /\ BootOn(u)' => BootOn(u)
         /\ u # t \/ Head(queue).by # "boot" => (BootOn(u)' <=> BootOn(u))
         /\ Head(queue).by = "boot" /\ Sole(t) => ~BootOn(t)'
<1>1. Head(queue) = queue[1] /\ 1 \in 1..Len(queue)
  BY WhoIntegrates
<1>2. \A i \in boot.replay : i \in 1..Len(journal) /\ journal'[i].task = journal[i].task
  BY QueueTypes DEF SameJournals
<1> DEFINE Called(q, v) == \E k \in 1..Len(q) : q[k].by = "boot" /\ q[k].task = v
<1>3. \A v : /\ BootOn(v) <=> Called(queue, v) \/ \E i \in boot.replay : journal[i].task = v
             /\ BootOn(v)' <=> Called(queue', v) \/ \E i \in boot.replay : journal[i].task = v
  BY <1>2 DEF BootOn
<1>4. Called(queue', u) => Called(queue, u)
  BY QueueShifts
<1>5. ASSUME u # t \/ Head(queue).by # "boot", Called(queue, u) PROVE Called(queue', u)
  <2>1. PICK k \in 1..Len(queue) : queue[k].by = "boot" /\ queue[k].task = u
    BY <1>5
  <2>2. k # 1
    BY <1>1, <1>5, <2>1
  <2>3. k - 1 \in 1..Len(queue') /\ queue'[k - 1] = queue[k]
    BY <2>2, QueueShifts
  <2> QED BY <2>1, <2>3
<1>6. ASSUME Head(queue).by = "boot", Sole(t) PROVE ~BootOn(t)'
  <2>1. PICK i \in JournalsOf(t) : i \notin boot.replay
    BY <1>1, <1>6 DEF BInv, CallsAgree
  <2>2. ~ \E j \in boot.replay : journal[j].task = t
    BY <1>2, <1>6, <2>1 DEF Sole, JournalsOf
  <2>3. \A l \in 1..Len(queue) : queue[l].by = "boot" => l = 1
    BY <1>1, <1>6 DEF BInv, CallsAgree
  <2>4. ~Called(queue', t)
    BY <2>3, QueueShifts
  <2> HIDE DEF Called
  <2> QED BY <1>3, <2>2, <2>4
<1> HIDE DEF Called
<1> QED BY <1>3, <1>4, <1>5, <1>6

LEMMA AnswerEffect ==
  ASSUME IInv, BInv, queue # <<>>, NEW ok \in BOOLEAN, Answer(ok), NEW t \in Task, t = Head(queue).task
  PROVE  /\ queue' = Tail(queue) /\ op'.pc = "none" /\ (tool' = tool \/ tool'.pc = "idle")
         /\ boot'.replay = boot.replay /\ boot'.settle = boot.settle
         /\ \A u \in Task \ {t} : work'[u] = work[u]
         /\ work'[t].row = work[t].row /\ (Head(queue).by # "work" => work'[t] = work[t])
         /\ Head(queue).by = "work" => work'[t].pc = IF ok THEN "verifying" ELSE "blocked"
         /\ Head(queue).by = "tool" => tool'.pc = "idle"
         /\ Head(queue).by # "tool" => tool' = tool
         /\ IF Head(queue).by = "boot" THEN boot'.pc = "replaying" ELSE boot' = boot
<1>1. queue' = Tail(queue) /\ op'.pc = "none"
  BY DEF Answer, NoOp
<1>2. Head(queue).by \in {"work", "tool", "boot"} /\ work \in [Task -> WorkSet] /\ boot \in BootSet
  BY WhoIntegrates DEF IInv, Shape
<1>3. CASE Head(queue).by = "work"
  <2>1. work' = [work EXCEPT ![t].pc = IF ok THEN "verifying" ELSE "blocked"] /\ UNCHANGED <<tool, boot>>
    BY <1>3 DEF Answer
  <2> QED BY <1>1, <1>2, <1>3, <2>1 DEF WorkSet
<1>4. CASE Head(queue).by = "tool"
  <2>1. tool' = NoTool /\ UNCHANGED <<work, boot>>
    BY <1>4 DEF Answer
  <2> QED BY <1>1, <1>4, <2>1 DEF NoTool
<1>5. CASE Head(queue).by = "boot"
  <2>1. boot' = [boot EXCEPT !.pc = "replaying"] /\ UNCHANGED <<work, tool>>
    BY <1>5 DEF Answer
  <2> QED BY <1>1, <1>2, <1>5, <2>1 DEF BootSet
<1> QED BY <1>2, <1>3, <1>4, <1>5

LEMMA AnswerAgrees ==
  ASSUME IInv, BInv, queue # <<>>, NEW ok \in BOOLEAN, Answer(ok), NEW t \in Task, t = Head(queue).task,
         SameJournals(t)
  PROVE  CallsAgree' /\ OpAgrees' /\ ListingAlone'
<1>1. Head(queue) = queue[1] /\ 1 \in 1..Len(queue) /\ queue' = Tail(queue) /\ op'.pc = "none"
  BY WhoIntegrates, AnswerEffect
<1>2. ASSUME NEW k \in 1..Len(queue'), queue'[k].by = "tool"
      PROVE  /\ tool'.pc = "integrating" /\ tool'.task = queue'[k].task
             /\ \A l \in 1..Len(queue') : queue'[l].by = "tool" => k = l
  <2>1. queue'[k] = queue[k + 1] /\ k + 1 \in 1..Len(queue) /\ k + 1 # 1
    BY <1>1, QueueShifts
  <2>2. /\ tool.pc = "integrating" /\ tool.task = queue'[k].task
        /\ \A l \in 1..Len(queue) : queue[l].by = "tool" => k + 1 = l
    BY <1>2, <2>1 DEF BInv, CallsAgree
  <2>3. tool' = tool
    BY <1>1, <2>1, <2>2, AnswerEffect
  <2>4. \A l \in 1..Len(queue') : queue'[l].by = "tool" => k = l
    BY <1>1, <2>2, QueueShifts
  <2> QED BY <2>2, <2>3, <2>4
<1>3. ASSUME NEW k \in 1..Len(queue'), queue'[k].by = "boot"
      PROVE  /\ boot'.pc = "waiting" /\ \E i \in JournalsOf(queue[k].task)' : i \notin boot'.replay
             /\ \A l \in 1..Len(queue') : queue'[l].by = "boot" => k = l
  <2>1. queue'[k] = queue[k + 1] /\ k + 1 \in 1..Len(queue) /\ k + 1 # 1
    BY <1>1, QueueShifts
  <2>2. /\ boot.pc = "waiting" /\ \E i \in JournalsOf(queue[k + 1].task) : i \notin boot.replay
        /\ \A l \in 1..Len(queue) : queue[l].by = "boot" => k + 1 = l
    BY <1>3, <2>1 DEF BInv, CallsAgree
  <2>3. boot' = boot
    BY <1>1, <2>1, <2>2, AnswerEffect
  <2>4. \A l \in 1..Len(queue') : queue'[l].by = "boot" => k = l
    BY <1>1, <2>2, QueueShifts
  <2>6. {i \in 1..Len(journal') : journal'[i].task = queue[k + 1].task}
        = {i \in 1..Len(journal) : journal[i].task = queue[k + 1].task}
    BY DEF SameJournals
  <2> QED BY <2>1, <2>2, <2>3, <2>4, <2>6 DEF JournalsOf
<1>4. CallsAgree'
  <2>1. \A k \in 1..Len(queue') : queue'[k].by = "tool" =>
          /\ tool'.pc = "integrating" /\ tool'.task = queue'[k].task
          /\ \A l \in 1..Len(queue') : queue'[l].by = "tool" => k = l
    BY <1>2
  <2>2. \A k \in 1..Len(queue') : queue'[k].by = "boot" =>
          /\ boot'.pc = "waiting" /\ \E i \in JournalsOf(queue[k].task)' : i \notin boot'.replay
          /\ \A l \in 1..Len(queue') : queue'[l].by = "boot" => k = l
    BY <1>3
  <2> QED BY <2>1, <2>2 DEF CallsAgree
<1>5. ListingAlone'
  <2>1. boot.pc # "listing" /\ (boot.pc = "up" => boot.replay = {} /\ boot.settle = {})
    BY DEF BInv, ListingAlone
  <2> QED BY <2>1, AnswerEffect DEF ListingAlone
<1> QED BY <1>1, <1>4, <1>5 DEF OpAgrees

\* An answer, of an integration that went well (ok) or of one that did not and left the patch unapplied.
LEMMA AnswerReplays ==
  ASSUME IInv, BInv, queue # <<>>, NEW ok \in BOOLEAN, Answer(ok), NEW t \in Task, t = Head(queue).task,
         UNCHANGED <<task, disk, patch, dest>>, SameJournals(t),
         \A i \in JournalsOf(t) : journal'[i].status \in {journal[i].status, "recorded"},
         \A u \in Task \ {t} : row'[u] = row[u],
         StoredOf(t, row'[t].artifact), row'[t].artifact = row[t].artifact \/ row'[t].artifact # NoArtifact,
         Active(t) /\ Sole(t) /\ Last(t) \in patch[t].edits => row'[t].artifact.kind = "changed",
         ~ok /\ Head(queue).by = "work" /\ Active(t) /\ Sole(t) =>
           ~BootOn(t) /\ (dest.touched[t] = "no" => ~Reaches(t)),
         ~ok /\ Active(t) /\ Sole(t) /\ dest.touched[t] = "no" => ~Reaches(t),
         \A i \in JournalsOf(t) : Open(i)' /\ Active(t) /\ Sole(t) /\ dest.touched[t] = "no" =>
           ~Reaches(t) /\ (~Fresh(t)' => Stuck(i))
  PROVE  BInv'
<1>1. /\ queue' = Tail(queue) /\ op'.pc = "none" /\ (tool' = tool \/ tool'.pc = "idle")
      /\ boot'.replay = boot.replay /\ boot'.settle = boot.settle
      /\ \A u \in Task \ {t} : work'[u] = work[u]
      /\ work'[t].row = work[t].row /\ (Head(queue).by # "work" => work'[t] = work[t])
      /\ Head(queue).by = "work" => work'[t].pc = IF ok THEN "verifying" ELSE "blocked"
  BY AnswerEffect
<1>2. /\ Head(queue).by = "work" => work[t].pc = "integrating"
      /\ Active(t) => Head(queue).by # "tool"
      /\ Head(queue).by = "boot" => BootOn(t) /\ JournalsOf(t) # {}
      /\ Head(queue).by \in {"work", "tool", "boot"}
  BY WhoIntegrates
<1>3. /\ \A u \in Task : BootOn(u)' => BootOn(u)
      /\ \A u \in Task : u # t \/ Head(queue).by # "boot" => (BootOn(u)' <=> BootOn(u))
      /\ Head(queue).by = "boot" /\ Sole(t) => ~BootOn(t)'
  BY <1>1, BootAnswered
<1>4. ASSUME NEW u \in Task \ {t} PROVE Untouched(u)
  <2>1. ~OpOn(u) /\ ~OpOn(u)'
    BY <1>1 DEF OpOn
  <2> QED BY <1>1, <1>3, <2>1, SameJournalsSame DEF Untouched, Aside
<1>5. EditsAgree(t) /\ PhaseAgrees(t) /\ AppliedIsNoticed(t) /\ ComesAfterReplay(t) /\ BlockedIsAbsent(t)
  BY DEF BInv, TaskReplays
<1>6. /\ JournalsOf(t)' = JournalsOf(t) /\ (Sole(t)' <=> Sole(t)) /\ (Reaches(t)' <=> Reaches(t))
      /\ (Active(t)' <=> Active(t)) /\ Last(t)' = Last(t)
      /\ \A i \in JournalsOf(t) : journal'[i].artifact = journal[i].artifact
  <2>1. /\ JournalsOf(t)' = JournalsOf(t) /\ (Sole(t)' <=> Sole(t))
        /\ \A i \in JournalsOf(t) : journal'[i].artifact = journal[i].artifact
    BY SameJournalsSame
  <2>2. (Reaches(t)' <=> Reaches(t)) /\ (Active(t)' <=> Active(t)) /\ Last(t)' = Last(t)
    BY DEF Reaches, Active, Last
  <2> QED BY <2>1, <2>2
<1>7. ~OpOn(t)'
  BY <1>1 DEF OpOn
<1>8. EditsAgree(t)'
  <2>1. EditsAgree(t)
    BY <1>1, <1>5
  <2>2. \A a : StoredOf(t, a)' <=> StoredOf(t, a)
    BY <1>6 DEF StoredOf
  <2>3. StoredOf(t, row[t].artifact)' /\ StoredOf(t, work[t].row.artifact)'
    BY <1>1, <1>5, <1>6, <2>1, <2>2 DEF EditsAgree
  <2>4. tool'.pc \in {"looking", "removing"} /\ tool'.task = t => StoredOf(t, tool.row.artifact)'
    BY <1>1, <1>5, <1>6, <2>1, <2>2 DEF EditsAgree
  <2>5. OpOn(t)' => StoredOf(t, op.artifact)'
    BY <1>7, <2>1, <2>2 DEF EditsAgree
  <2>6. \A i \in JournalsOf(t)' : journal'[i].artifact.n <= patch'[t].n
    BY <1>6, <2>1 DEF EditsAgree
  <2> QED BY <1>6, <2>1, <2>3, <2>4, <2>5, <2>6 DEF EditsAgree
<1>9. PhaseAgrees(t)'
  <2>1. (task[t].status = "validating" => work'[t].pc \in {"idle", "validating"})
    BY <1>1, <1>2, <1>5 DEF PhaseAgrees
  <2>2. Active(t) => work'[t].pc \notin {"looking", "removing"} /\ (tool'.pc = "idle" \/ tool'.task # t)
    BY <1>1, <1>2, <1>5 DEF PhaseAgrees
  <2>3. Active(t) /\ work'[t].pc = "integrating" => row'[t].artifact # NoArtifact
    BY <1>1, <1>2, <1>5 DEF PhaseAgrees
  <2>4. Active(t) /\ Sole(t) /\ Last(t) \in patch[t].edits =>
          task[t].status = "integration_pending" /\ work'[t].pc \notin {"turn", "validating", "finalizing"}
    BY <1>1, <1>2, <1>5 DEF PhaseAgrees
  <2> QED BY <1>6, <2>1, <2>2, <2>3, <2>4 DEF PhaseAgrees
<1>10. AppliedIsNoticed(t)'
  BY <1>5, <1>6, <1>7 DEF AppliedIsNoticed
<1>11. ComesAfterReplay(t)'
  <2> SUFFICES ASSUME Sole(t), Active(t), work'[t].pc \in {"integrating", "blocked"} PROVE ~BootOn(t)'
    BY <1>6 DEF ComesAfterReplay
  <2>1. CASE Head(queue).by = "work"
    BY <1>1, <1>3, <2>1
  <2>2. CASE Head(queue).by = "boot"
    BY <1>3, <2>2
  <2> QED BY <1>2, <2>1, <2>2
<1>12. BlockedIsAbsent(t)'
  BY <1>1, <1>2, <1>5, <1>6 DEF BlockedIsAbsent
<1>13. ASSUME NEW i \in boot.settle, journal[i].task = t PROVE SettledIsAbsent(i)'
  <2>1. i \in JournalsOf(t) /\ journal'[i].task = t /\ SettledIsAbsent(i) /\ (Stuck(i)' <=> Stuck(i))
    BY <1>13, QueueTypes DEF JournalsOf, SameJournals, BInv, Stuck
  <2> SUFFICES ASSUME Sole(t), dest.touched[t] = "no", task[t].status = "integration_pending", Open(i)', ~BootOn(t)'
               PROVE  ~Reaches(t) /\ (work'[t].pc = "integrating" /\ ~Fresh(t)' => Stuck(i))
    BY <1>6, <1>7, <2>1 DEF SettledIsAbsent
  <2>2. Active(t)
    BY DEF Active, ActiveStatus
  <2> QED BY <2>1, <2>2
<1>14. \A u \in Task : TaskReplays(u)'
  <2>1. TaskReplays(t)'
    BY <1>8, <1>9, <1>10, <1>11, <1>12 DEF TaskReplays
  <2> QED BY <1>4, <2>1, Elsewhere
<1>15. \A i \in boot'.settle : SettledIsAbsent(i)'
  <2>1. \A i \in boot.settle : journal[i].task \in Task
    BY QueueTypes
  <2> QED BY <1>1, <1>4, <1>13, <2>1, Elsewhere
<1> QED BY <1>14, <1>15, AnswerAgrees DEF BInv

LEMMA RecordedReplays == ASSUME IInv, BInv, Recorded PROVE BInv'
<1>1. op.pc = "recording" /\ SetJournal("recorded") /\ Answer(TRUE) /\ UNCHANGED <<task, row, disk, patch, dest>>
  BY DEF Recorded
<1>2. PICK t \in Task : t = Head(queue).task
  BY <1>1, OpTypes
<1>3. queue # <<>> /\ TRUE \in BOOLEAN
  BY <1>1, OpTypes
<1>4. /\ SameJournals(t) /\ journal'[op.journal].status = "recorded"
      /\ \A i \in 1..Len(journal) : i # op.journal => journal'[i] = journal[i]
  BY <1>1, <1>2, SetJournalSame
<1>5. EditsAgree(t) /\ PhaseAgrees(t)
  BY DEF BInv, TaskReplays
<1>6. \A i \in JournalsOf(t) : journal'[i].status \in {journal[i].status, "recorded"}
  BY <1>4 DEF JournalsOf
<1>7. ASSUME NEW i \in JournalsOf(t), Sole(t) PROVE ~Open(i)'
  BY <1>1, <1>2, <1>4, <1>7, SoleIsOp DEF Open
<1>8. StoredOf(t, row'[t].artifact) /\ row'[t].artifact = row[t].artifact
      /\ (Active(t) /\ Sole(t) /\ Last(t) \in patch[t].edits => row'[t].artifact.kind = "changed")
  BY <1>1, <1>5 DEF EditsAgree, PhaseAgrees
<1>9. \A u \in Task \ {t} : row'[u] = row[u]
  BY <1>1
<1> HIDE DEF StoredOf, SameJournals
<1> QED BY <1>1, <1>2, <1>3, <1>4, <1>6, <1>7, <1>8, <1>9, AnswerReplays

LEMMA BlockReplays == ASSUME IInv, BInv, Block PROVE BInv'
<1> DEFINE r == [op.row EXCEPT !.status = "integration_blocked", !.artifact = op.artifact]
<1>1. /\ op.pc = "applying" /\ ~Applicable(Head(queue).task) /\ row' = [row EXCEPT ![Head(queue).task] = r]
      /\ Answer(FALSE) /\ UNCHANGED <<task, disk, patch, journal, dest>>
  BY DEF Block
<1>2. PICK t \in Task : t = Head(queue).task
  BY <1>1, OpTypes
<1>3. queue # <<>> /\ FALSE \in BOOLEAN /\ op.artifact.kind = "changed"
  BY <1>1, OpTypes
<1>4. r.artifact = op.artifact
  BY DEF IInv, Shape, OpSet, RowSet
<1> HIDE DEF r
<1>5. row'[t].artifact = op.artifact /\ \A u \in Task \ {t} : row'[u] = row[u]
  BY <1>1, <1>2, <1>4 DEF IInv, Shape
<1>6. SameJournals(t)
  BY <1>1 DEF SameJournals
<1>7. \A i \in JournalsOf(t) : journal'[i].status \in {journal[i].status, "recorded"}
  BY <1>1
<1>8. OpOn(t) /\ EditsAgree(t) /\ AppliedIsNoticed(t) /\ ComesAfterReplay(t)
  BY <1>1, <1>2 DEF OpOn, BInv, TaskReplays
<1>9. Sole(t) /\ dest.touched[t] = "no" => ~Reaches(t)
  BY <1>1, <1>8 DEF AppliedIsNoticed
<1>10. StoredOf(t, row'[t].artifact) /\ row'[t].artifact # NoArtifact /\ row'[t].artifact.kind = "changed"
  BY <1>3, <1>5, <1>8 DEF EditsAgree, NoArtifact
<1>11. Head(queue).by = "work" /\ Active(t) /\ Sole(t) => ~BootOn(t)
  <2>1. Head(queue).by = "work" => work[t].pc = "integrating"
    BY <1>2, <1>3, WhoIntegrates
  <2> QED BY <1>8, <2>1 DEF ComesAfterReplay
<1>12. ASSUME NEW i \in JournalsOf(t), Sole(t), dest.touched[t] = "no" PROVE Stuck(i)
  <2>1. i = op.journal /\ journal[i].task = t /\ journal[i].strategy = op.strategy
    BY <1>1, <1>2, <1>12, SoleIsOp DEF BInv, OpAgrees, JournalsOf
  <2> QED BY <1>1, <1>2, <1>12, <2>1 DEF Stuck, Applicable, Applies
<1> HIDE DEF StoredOf, SameJournals
<1> QED BY <1>1, <1>2, <1>3, <1>5, <1>6, <1>7, <1>9, <1>10, <1>11, <1>12, AnswerReplays

\* The journal of an integration that begins is one of the Task's, for an artifact as new as it, or a new one.
LEMMA BeginJournals ==
  ASSUME IInv, NEW c \in CallSet, NEW a \in Artifacts, NEW j \in 1..Len(Journalled(c, a)),
         KeyOf(Journalled(c, a)[j], Journalled(c, a)[j].artifact) = KeyOf(c, a)
  PROVE  \/ /\ Journalled(c, a) = journal
            /\ j \in JournalsOf(c.task) /\ journal[j].strategy = c.strategy /\ journal[j].artifact.n = a.n
         \/ /\ Journalled(c, a) = Append(journal, [task |-> c.task, strategy |-> c.strategy, artifact |-> a,
                                                   status |-> "prepared"])
            /\ j = Len(journal) + 1 /\ \A i \in JournalsOf(c.task) : journal[i].strategy = c.strategy =>
                                                                       journal[i].artifact.n # a.n
<1>1. journal \in Seq(JournalSet) /\ Len(journal) \in Nat
  BY DEF IInv, Shape
<1> DEFINE new == [task |-> c.task, strategy |-> c.strategy, artifact |-> a, status |-> "prepared"]
<1>2. CASE Known(KeyOf(c, a)) # {}
  BY <1>2 DEF Journalled, KeyOf, JournalsOf
<1>3. CASE Known(KeyOf(c, a)) = {}
  <2>1. Journalled(c, a) = Append(journal, new)
    BY <1>3 DEF Journalled
  <2>2. \A i \in 1..Len(journal) : KeyOf(journal[i], journal[i].artifact) # KeyOf(c, a)
    BY <1>3 DEF Known
  <2> HIDE DEF new
  <2>3. /\ \A i \in 1..Len(journal) : Append(journal, new)[i] = journal[i]
        /\ j \in 1..Len(journal) \/ j = Len(journal) + 1
    BY <1>1, <2>1
  <2>4. j = Len(journal) + 1
    BY <2>1, <2>2, <2>3
  <2> QED BY <2>1, <2>2, <2>4 DEF new, KeyOf, JournalsOf
<1> QED BY <1>2, <1>3

-----------------------------------------------------------------------------
(***************************************************************************)
(* The beginning of an integration.                                        *)
(***************************************************************************)
LEMMA BeginThrows ==
  ASSUME IInv, BInv, queue # <<>>, NEW t \in Task, t = Head(queue).task, row[t].artifact = NoArtifact,
         Answer(FALSE), UNCHANGED <<task, row, disk, patch, journal, dest>>
  PROVE  BInv'
<1>1. EditsAgree(t) /\ PhaseAgrees(t) /\ row[t].artifact.kind = "none"
  BY DEF BInv, TaskReplays, NoArtifact
<1>2. ~(Active(t) /\ Sole(t) /\ Last(t) \in patch[t].edits)
  BY <1>1 DEF PhaseAgrees
<1>3. ~(Active(t) /\ Sole(t) /\ Reaches(t))
  BY <1>1, <1>2 DEF EditsAgree
<1>4. ~(Head(queue).by = "work" /\ Active(t))
  BY <1>1, WhoIntegrates DEF PhaseAgrees
<1>5. SameJournals(t) /\ Fresh(t)'
  BY <1>1 DEF SameJournals, Fresh
<1>6. StoredOf(t, row'[t].artifact)
  BY <1>1 DEF EditsAgree
<1>7. FALSE \in BOOLEAN /\ \A i \in JournalsOf(t) : journal'[i].status \in {journal[i].status, "recorded"}
  OBVIOUS
<1>8. \A u \in Task \ {t} : row'[u] = row[u]
  OBVIOUS
<1> HIDE DEF StoredOf, SameJournals
<1> QED BY <1>2, <1>3, <1>4, <1>5, <1>6, <1>7, <1>8, AnswerReplays

LEMMA BeginUnchanged ==
  ASSUME IInv, BInv, queue # <<>>, NEW t \in Task, t = Head(queue).task, NEW a, a.kind = "unchanged",
         row[t].artifact \in {NoArtifact, a}, StoredOf(t, a), row'[t].artifact = a,
         \A u \in Task \ {t} : row'[u] = row[u], Answer(TRUE), UNCHANGED <<task, disk, patch, journal, dest>>
  PROVE  BInv'
<1>1. EditsAgree(t) /\ PhaseAgrees(t) /\ row[t].artifact.kind # "changed" /\ a # NoArtifact
  BY DEF BInv, TaskReplays, NoArtifact
<1>2. ~(Active(t) /\ Sole(t) /\ Last(t) \in patch[t].edits)
  BY <1>1 DEF PhaseAgrees
<1>3. ~(Active(t) /\ Sole(t) /\ Reaches(t))
  BY <1>1, <1>2 DEF EditsAgree
<1>4. SameJournals(t) /\ Fresh(t)'
  BY DEF SameJournals, Fresh
<1>5. TRUE \in BOOLEAN /\ \A i \in JournalsOf(t) : journal'[i].status \in {journal[i].status, "recorded"}
  OBVIOUS
<1> HIDE DEF StoredOf, SameJournals
<1> QED BY <1>1, <1>2, <1>3, <1>4, <1>5, AnswerReplays

\* The journal had been recorded.
LEMMA BeginRecorded ==
  ASSUME IInv, BInv, queue # <<>>, NEW t \in Task, t = Head(queue).task, NEW j \in JournalsOf(t),
         journal[j].status = "recorded", Answer(TRUE), UNCHANGED <<task, row, disk, patch, journal, dest>>
  PROVE  BInv'
<1>1. EditsAgree(t) /\ PhaseAgrees(t)
  BY DEF BInv, TaskReplays
<1>2. SameJournals(t)
  BY DEF SameJournals
<1>3. TRUE \in BOOLEAN /\ \A i \in JournalsOf(t) : journal'[i].status \in {journal[i].status, "recorded"}
  OBVIOUS
<1>4. ASSUME NEW i \in JournalsOf(t), Sole(t) PROVE ~Open(i)'
  BY <1>4 DEF Sole, Open
<1>5. StoredOf(t, row'[t].artifact) /\ (Active(t) /\ Sole(t) /\ Last(t) \in patch[t].edits => row'[t].artifact.kind = "changed")
  BY <1>1 DEF EditsAgree, PhaseAgrees
<1>6. \A u \in Task \ {t} : row'[u] = row[u]
  OBVIOUS
<1> HIDE DEF StoredOf, SameJournals
<1> QED BY <1>2, <1>3, <1>4, <1>5, <1>6, AnswerReplays

\* The journals that were there stay, and one of the Task may be new.
Longer(t) ==
  /\ Len(journal') \in Nat /\ Len(journal) <= Len(journal')
  /\ \A i \in 1..Len(journal) : journal'[i] = journal[i]
  /\ \A i \in 1..Len(journal') : i \in 1..Len(journal) \/ journal'[i].task = t

LEMMA LongerJournals ==
  ASSUME IInv, NEW t \in Task, Longer(t), NEW u \in Task
  PROVE  /\ JournalsOf(u) \subseteq JournalsOf(u)' /\ (u # t => JournalsOf(u)' = JournalsOf(u))
         /\ \A i \in 1..Len(journal) : i \in 1..Len(journal')
         /\ boot' = boot /\ queue' = queue => (BootOn(u)' <=> BootOn(u))
<1>1. Len(journal) \in Nat /\ boot.replay \subseteq 1..Len(journal)
  BY QueueTypes
<1>2. \A i \in 1..Len(journal) : i \in 1..Len(journal')
  BY <1>1 DEF Longer
<1> QED BY <1>1, <1>2 DEF Longer, JournalsOf, BootOn

LEMMA OpBegins ==
  ASSUME IInv, BInv, op.pc = "none", queue # <<>>, NEW t \in Task, t = Head(queue).task,
         UNCHANGED <<task, disk, dest, work, tool, boot, queue>>,
         \A u \in Task \ {t} : row'[u] = row[u] /\ patch'[u] = patch[u],
         Longer(t), OpAgrees', TaskReplays(t)',
         \A i \in boot.settle : journal[i].task = t => SettledIsAbsent(i)'
  PROVE  BInv'
<1>1. ASSUME NEW u \in Task \ {t} PROVE Untouched(u)
  BY <1>1, LongerJournals DEF Untouched, Aside, OpOn, Longer, JournalsOf
<1>2. \A u \in Task : TaskReplays(u)'
  BY <1>1, Elsewhere
<1>3. ASSUME NEW i \in boot'.settle PROVE SettledIsAbsent(i)'
  BY <1>1, <1>3, Elsewhere, QueueTypes
<1>4. CallsAgree'
  <2>1. \A k \in 1..Len(queue) : JournalsOf(queue[k].task) \subseteq JournalsOf(queue[k].task)'
    BY LongerJournals, QueueTypes
  <2> QED BY <2>1 DEF BInv, CallsAgree
<1>5. ListingAlone'
  BY DEF BInv, ListingAlone
<1> QED BY <1>2, <1>3, <1>4, <1>5 DEF BInv

\* The artifact has a journal: where the worker waits for this integration, no replay of it is to come.
LEMMA BeginKnown ==
  ASSUME IInv, BInv, op.pc = "none", queue # <<>>, NEW t \in Task, t = Head(queue).task,
         row[t].artifact.kind = "changed", NEW j \in JournalsOf(t), journal[j].artifact.n = row[t].artifact.n,
         journal[j].strategy = Head(queue).strategy, journal[j].status # "recorded",
         UNCHANGED <<task, row, disk, patch, journal, dest, work, tool, boot, queue>>,
         op'.pc = CASE journal[j].status = "prepared" -> "prepared"
                    [] journal[j].status = "applying" -> "detecting" [] OTHER -> "applied",
         op'.artifact = row[t].artifact, op'.strategy = Head(queue).strategy, op'.journal = j
  PROVE  BInv'
<1>1. EditsAgree(t) /\ PhaseAgrees(t) /\ AppliedIsNoticed(t) /\ ComesAfterReplay(t) /\ BlockedIsAbsent(t) /\ ~OpOn(t)
  BY DEF BInv, TaskReplays, OpOn
<1>2. op'.pc # "applying" /\ (op'.pc = "prepared" => journal[j].status = "prepared")
  OBVIOUS
<1>3. j \in 1..Len(journal) /\ journal[j].task = t
  BY DEF JournalsOf
<1>4. Longer(t)
  BY QueueTypes DEF Longer
<1>5. OpAgrees'
  BY <1>2, <1>3 DEF OpAgrees
<1>6. ~Fresh(t)
  <2>1. journal[j].artifact.n \in Nat /\ row[t].artifact.n \in Nat
    BY <1>3, QueueTypes, Types
  <2> QED BY <2>1 DEF Fresh
<1>7. /\ JournalsOf(t)' = JournalsOf(t) /\ (Sole(t)' <=> Sole(t)) /\ (Reaches(t)' <=> Reaches(t))
      /\ (Active(t)' <=> Active(t)) /\ Last(t)' = Last(t) /\ (BootOn(t)' <=> BootOn(t)) /\ (Fresh(t)' <=> Fresh(t))
  BY DEF JournalsOf, Sole, Reaches, Active, Last, BootOn, Fresh
<1>8. EditsAgree(t)'
  BY <1>1, <1>7 DEF EditsAgree, StoredOf
<1>9. PhaseAgrees(t)' /\ BlockedIsAbsent(t)' /\ ComesAfterReplay(t)'
  BY <1>1, <1>6, <1>7 DEF PhaseAgrees, BlockedIsAbsent, ComesAfterReplay
<1>10. AppliedIsNoticed(t)'
  BY <1>1, <1>2, <1>7 DEF AppliedIsNoticed
<1>11. ASSUME NEW i \in boot.settle, journal[i].task = t PROVE SettledIsAbsent(i)'
  <2>1. SettledIsAbsent(i) /\ (Stuck(i)' <=> Stuck(i)) /\ (Open(i)' <=> Open(i))
    BY DEF BInv, Stuck, Open
  <2> QED BY <1>6, <1>7, <1>11, <2>1 DEF SettledIsAbsent
<1> QED BY <1>4, <1>5, <1>8, <1>9, <1>10, <1>11, OpBegins DEF TaskReplays

\* A new journal: where it is the Task's only one, nothing has been applied and there is nothing to replay.
LEMMA BeginNew ==
  ASSUME IInv, BInv, op.pc = "none", queue # <<>>, NEW t \in Task, t = Head(queue).task,
         NEW a \in Artifacts, a.kind = "changed", NEW x, x.task = t, x.strategy = Head(queue).strategy,
         x.artifact = a, x.status = "prepared", journal' = Append(journal, x),
         UNCHANGED <<task, disk, dest, work, tool, boot, queue>>,
         \A u \in Task \ {t} : row'[u] = row[u] /\ patch'[u] = patch[u],
         row'[t].artifact = a, op'.pc = "prepared", op'.artifact = a, op'.strategy = Head(queue).strategy,
         op'.journal = Len(journal) + 1,
         \/ row'[t] = row[t] /\ patch' = patch
         \/ row[t].artifact = NoArtifact /\ a = ArtifactOf(t) /\ Finalize(t)
  PROVE  BInv'
<1>1. EditsAgree(t) /\ PhaseAgrees(t) /\ AppliedIsNoticed(t) /\ ComesAfterReplay(t) /\ BlockedIsAbsent(t) /\ ~OpOn(t)
  BY DEF BInv, TaskReplays, OpOn
<1>2. /\ journal \in Seq(JournalSet) /\ Len(journal) \in Nat /\ Len(journal') = Len(journal) + 1
      /\ journal'[Len(journal) + 1] = x /\ \A i \in 1..Len(journal) : journal'[i] = journal[i]
  BY DEF IInv, Shape
<1>3. Longer(t)
  BY <1>2 DEF Longer
<1>4. OpAgrees'
  BY <1>2 DEF OpAgrees
<1>5. /\ JournalsOf(t)' = JournalsOf(t) \cup {Len(journal) + 1} /\ \A i \in JournalsOf(t) : i # Len(journal) + 1
      /\ (Sole(t)' => JournalsOf(t) = {} /\ Sole(t))
  <2>1. JournalsOf(t)' = JournalsOf(t) \cup {Len(journal) + 1} /\ \A i \in JournalsOf(t) : i # Len(journal) + 1
    BY <1>2 DEF JournalsOf
  <2> QED BY <2>1 DEF Sole
<1>6. /\ (Reaches(t)' <=> Reaches(t)) /\ (Active(t)' <=> Active(t)) /\ Last(t)' = Last(t) /\ (BootOn(t)' <=> BootOn(t))
  BY <1>3, LongerJournals DEF Reaches, Active, Last
<1>7. JournalsOf(t) = {} => ~BootOn(t)
  <2>1. boot.replay \subseteq 1..Len(journal)
    BY QueueTypes
  <2> QED BY <2>1 DEF BootOn, BInv, CallsAgree, JournalsOf
<1>8. ASSUME row[t].artifact = NoArtifact, Active(t) PROVE JournalsOf(t) # {}
  BY <1>1, <1>8, WhoIntegrates DEF PhaseAgrees
<1>9. AppliedIsNoticed(t)'
  BY <1>1, <1>5, <1>6 DEF AppliedIsNoticed
<1>10. ComesAfterReplay(t)'
  BY <1>5, <1>6, <1>7 DEF ComesAfterReplay
<1>11. BlockedIsAbsent(t)'
  BY <1>1, <1>5, <1>6 DEF BlockedIsAbsent
<1>12. a # NoArtifact
  BY DEF NoArtifact
<1>13. PhaseAgrees(t)'
  <2>1. Active(t) /\ Sole(t)' => row'[t] = row[t] /\ patch' = patch
    BY <1>5, <1>8
  <2> QED BY <1>1, <1>5, <1>6, <1>12, <2>1 DEF PhaseAgrees
<1>14. EditsAgree(t)'
  <2>1. CASE row'[t] = row[t] /\ patch' = patch
    <3>1. StoredOf(t, a)
      BY <1>1, <2>1 DEF EditsAgree
    <3>2. \A b : StoredOf(t, b)' <=> StoredOf(t, b)
      BY <1>6, <2>1 DEF StoredOf
    <3>3. \A i \in JournalsOf(t)' : journal'[i].artifact.n <= patch'[t].n
      <4>1. \A i \in JournalsOf(t) : journal[i].artifact.n <= patch[t].n /\ journal'[i] = journal[i]
        BY <1>1, <1>2 DEF EditsAgree, JournalsOf
      <4>2. journal'[Len(journal) + 1].artifact.n <= patch[t].n
        BY <1>2, <3>1 DEF StoredOf
      <4> QED BY <1>5, <2>1, <4>1, <4>2
    <3> QED BY <1>1, <1>6, <2>1, <3>1, <3>2, <3>3 DEF EditsAgree, StoredOf
  <2>2. CASE Finalize(t) /\ a = ArtifactOf(t)
    <3>1. UNCHANGED <<task, disk, dest>>
      OBVIOUS
    <3>2. /\ StoredOf(t, row[t].artifact)' /\ \A b \in Artifacts : StoredOf(t, b) => StoredOf(t, b)'
          /\ patch'[t].n \in Nat /\ patch[t].n <= patch'[t].n /\ patch'[t].edits \subseteq 1..Last(t)'
          /\ Last(t) \in patch[t].edits => patch'[t].edits = patch[t].edits
          /\ Last(t) \in patch'[t].edits => disk[t].edits \in {{}, patch'[t].edits}
          /\ task[t].status = "running" /\ task[t].result = NoResult => Last(t) \notin disk[t].edits \cup patch'[t].edits
      BY <1>1, <2>2, <3>1, FinalizeEdits
    <3>3. work[t].row.artifact \in Artifacts /\ tool.row.artifact \in Artifacts /\ patch[t].n \in Nat
      BY Types DEF IInv, Shape, ToolSet, RowSet
    <3>4. StoredOf(t, work[t].row.artifact)'
      BY <1>1, <3>2, <3>3 DEF EditsAgree, StoredOf
    <3>5. tool'.pc \in {"looking", "removing"} /\ tool'.task = t => StoredOf(t, tool.row.artifact)'
      BY <1>1, <3>2, <3>3 DEF EditsAgree, StoredOf
    <3>6. StoredOf(t, op.artifact)'
      BY <3>2 DEF StoredOf
    <3>7. \A i \in JournalsOf(t)' : journal'[i].artifact.n <= patch'[t].n
      <4>1. \A i \in JournalsOf(t) : journal[i].artifact.n \in Nat /\ journal[i].artifact.n <= patch[t].n
        BY <1>1, QueueTypes DEF EditsAgree, JournalsOf
      <4>2. a.n <= patch'[t].n
        BY <3>2 DEF StoredOf
      <4>3. \A i \in JournalsOf(t) : journal'[i] = journal[i]
        BY <1>2 DEF JournalsOf
      <4>4. ASSUME NEW i \in JournalsOf(t) PROVE journal'[i].artifact.n <= patch'[t].n
        <5>1. patch[t].n \in Nat /\ patch'[t].n \in Nat /\ patch[t].n <= patch'[t].n
          BY <3>2, <3>3
        <5>2. journal[i].artifact.n \in Nat /\ journal[i].artifact.n <= patch'[t].n
          BY <4>1, <5>1
        <5> QED BY <4>3, <5>2
      <4>5. journal'[Len(journal) + 1].artifact.n <= patch'[t].n
        BY <1>2, <4>2
      <4> QED BY <1>5, <4>4, <4>5
    <3>8. Reaches(t)' => Last(t)' \in patch'[t].edits /\ patch'[t].edits \subseteq dest'.edits[t]
      BY <1>1, <1>6, <3>2 DEF EditsAgree
    <3> QED BY <1>1, <1>6, <3>2, <3>4, <3>5, <3>6, <3>7, <3>8 DEF EditsAgree
  <2> QED BY <2>1, <2>2
<1>15. ASSUME NEW i \in boot.settle, journal[i].task = t PROVE SettledIsAbsent(i)'
  <2>1. i \in JournalsOf(t) /\ journal'[i].task = t
    BY <1>2, <1>15, QueueTypes DEF JournalsOf
  <2> QED BY <1>5, <2>1 DEF SettledIsAbsent
<1> QED BY <1>3, <1>4, <1>9, <1>10, <1>11, <1>13, <1>14, <1>15, OpBegins DEF TaskReplays

LEMMA BeginReplays == ASSUME IInv, BInv, Begin PROVE BInv'
<1> DEFINE c == Head(queue)
<1>1. op.pc = "none" /\ queue # <<>> /\ UNCHANGED <<contract, task, disk, dest, faults>>
  BY DEF Begin
<1>2. PICK t \in Task : t = c.task
  BY <1>1, HeadOfQueue DEF IInv
<1>3. c \in CallSet /\ row[t].artifact \in Artifacts
  BY <1>1, HeadOfQueue, Types DEF IInv
<1> DEFINE early == row[t].artifact = NoArtifact
           a == IF early THEN ArtifactOf(t) ELSE row[t].artifact
<1>4. \/ early /\ Answer(FALSE) /\ UNCHANGED <<row, patch, journal>>
      \/ /\ a.kind = "unchanged" /\ row' = [row EXCEPT ![t] = [@ EXCEPT !.status = "integrated", !.artifact = a]]
         /\ Answer(TRUE) /\ UNCHANGED <<patch, journal>>
      \/ /\ a.kind = "changed" /\ (IF early THEN Finalize(t) ELSE UNCHANGED <<row, patch>>)
         /\ journal' = Journalled(c, a)
         /\ \E j \in 1..Len(journal') :
              /\ KeyOf(journal'[j], journal'[j].artifact) = KeyOf(c, a)
              /\ IF journal'[j].status = "recorded" THEN Answer(TRUE)
                 ELSE /\ op' = [pc |-> CASE journal'[j].status = "prepared" -> "prepared"
                                          [] journal'[j].status = "applying" -> "detecting"
                                          [] OTHER -> "applied",
                                row |-> row[t], artifact |-> a, strategy |-> c.strategy, journal |-> j]
                      /\ UNCHANGED <<work, tool, boot, queue>>
  BY <1>2 DEF Begin
<1>5. a \in Artifacts /\ ArtifactOf(t) \in Artifacts
  BY <1>3, ArtifactOfTyped DEF IInv
<1>6. early => a = ArtifactOf(t)
  OBVIOUS
<1>7. ~early => a = row[t].artifact
  OBVIOUS
<1>8. EditsAgree(t) /\ row \in [Task -> RowSet]
  BY DEF BInv, TaskReplays, IInv, Shape
<1>9. CASE early /\ Answer(FALSE) /\ UNCHANGED <<row, patch, journal>>
  BY <1>1, <1>2, <1>9, BeginThrows
<1>10. CASE /\ a.kind = "unchanged" /\ row' = [row EXCEPT ![t] = [@ EXCEPT !.status = "integrated", !.artifact = a]]
            /\ Answer(TRUE) /\ UNCHANGED <<patch, journal>>
  <2>1. row[t].artifact \in {NoArtifact, a}
    OBVIOUS
  <2>2. StoredOf(t, a)
    <3>1. ASSUME early PROVE a.n = 0 /\ a.edits = {}
      BY <1>10, <3>1 DEF ArtifactOf
    <3>2. early => StoredOf(t, a)
      BY <3>1, Types DEF StoredOf
    <3> QED BY <1>7, <1>8, <3>2 DEF EditsAgree
  <2>3. row'[t].artifact = a /\ \A u \in Task \ {t} : row'[u] = row[u]
    BY <1>8, <1>10 DEF RowSet
  <2> HIDE DEF a
  <2> QED BY <1>1, <1>2, <1>10, <2>1, <2>2, <2>3, BeginUnchanged
<1>11. CASE /\ a.kind = "changed" /\ (IF early THEN Finalize(t) ELSE UNCHANGED <<row, patch>>)
            /\ journal' = Journalled(c, a)
            /\ \E j \in 1..Len(journal') :
                 /\ KeyOf(journal'[j], journal'[j].artifact) = KeyOf(c, a)
                 /\ IF journal'[j].status = "recorded" THEN Answer(TRUE)
                    ELSE /\ op' = [pc |-> CASE journal'[j].status = "prepared" -> "prepared"
                                             [] journal'[j].status = "applying" -> "detecting"
                                             [] OTHER -> "applied",
                                   row |-> row[t], artifact |-> a, strategy |-> c.strategy, journal |-> j]
                         /\ UNCHANGED <<work, tool, boot, queue>>
  <2> HIDE DEF c, a
  <2>1. PICK j \in 1..Len(journal') :
          /\ KeyOf(journal'[j], journal'[j].artifact) = KeyOf(c, a)
          /\ IF journal'[j].status = "recorded" THEN Answer(TRUE)
             ELSE /\ op' = [pc |-> CASE journal'[j].status = "prepared" -> "prepared"
                                      [] journal'[j].status = "applying" -> "detecting"
                                      [] OTHER -> "applied",
                            row |-> row[t], artifact |-> a, strategy |-> c.strategy, journal |-> j]
                  /\ UNCHANGED <<work, tool, boot, queue>>
    BY <1>11
  <2> DEFINE x == [task |-> c.task, strategy |-> c.strategy, artifact |-> a, status |-> "prepared"]
  <2>2. \/ /\ journal' = journal
           /\ j \in JournalsOf(t) /\ journal[j].strategy = c.strategy /\ journal[j].artifact.n = a.n
        \/ /\ journal' = Append(journal, x) /\ j = Len(journal) + 1
    BY <1>2, <1>3, <1>5, <1>11, <2>1, BeginJournals
  <2>3. CASE /\ journal' = journal
             /\ j \in JournalsOf(t) /\ journal[j].strategy = c.strategy /\ journal[j].artifact.n = a.n
    <3>1. ~early
      <4> SUFFICES ASSUME early PROVE FALSE
        OBVIOUS
      <4>1. a.n = patch[t].n + 1
        BY <1>6, <1>11 DEF ArtifactOf
      <4>2. patch[t].n \in Nat /\ journal[j].artifact.n \in Nat /\ journal[j].artifact.n <= patch[t].n
        BY <1>8, <2>3, Types, QueueTypes DEF EditsAgree, JournalsOf
      <4> QED BY <2>3, <4>1, <4>2
    <3>2. UNCHANGED <<row, patch>> /\ a = row[t].artifact
      BY <1>7, <1>11, <3>1
    <3>3. CASE journal[j].status = "recorded"
      BY <1>1, <1>2, <2>1, <2>3, <3>2, <3>3, BeginRecorded DEF c
    <3>4. CASE journal[j].status # "recorded"
      <4>1. /\ op'.pc = CASE journal[j].status = "prepared" -> "prepared"
                          [] journal[j].status = "applying" -> "detecting" [] OTHER -> "applied"
            /\ op'.artifact = a /\ op'.strategy = c.strategy /\ op'.journal = j
            /\ UNCHANGED <<work, tool, boot, queue>>
        BY <2>1, <2>3, <3>4
      <4> QED BY <1>1, <1>2, <1>11, <2>3, <3>2, <3>4, <4>1, BeginKnown DEF c
    <3> QED BY <3>3, <3>4
  <2>4. CASE journal' = Append(journal, x) /\ j = Len(journal) + 1
    <3>1. journal'[j] = x
      BY <2>4 DEF IInv, Shape
    <3>2. x.task = t /\ x.strategy = c.strategy /\ x.artifact = a /\ x.status = "prepared"
      BY <1>2
    <3> HIDE DEF x
    <3>3. /\ op'.pc = "prepared" /\ op'.artifact = a /\ op'.strategy = c.strategy /\ op'.journal = j
          /\ UNCHANGED <<work, tool, boot, queue>>
      BY <2>1, <3>1, <3>2
    <3>4. CASE early
      <4>1. Finalize(t) /\ a = ArtifactOf(t) /\ UNCHANGED <<task, disk, dest>>
        BY <1>1, <1>6, <1>11, <3>4
      <4>2. row'[t].artifact = a /\ \A u \in Task \ {t} : row'[u] = row[u] /\ patch'[u] = patch[u]
        BY <1>8, <4>1, FinalizeEdits
      <4> QED BY <1>1, <1>2, <1>5, <1>11, <2>4, <3>2, <3>3, <3>4, <4>1, <4>2, BeginNew DEF c
    <3>5. CASE ~early
      <4>1. UNCHANGED <<row, patch>> /\ a = row[t].artifact
        BY <1>7, <1>11, <3>5
      <4>2. row'[t].artifact = a /\ \A u \in Task \ {t} : row'[u] = row[u] /\ patch'[u] = patch[u]
        BY <4>1
      <4> QED BY <1>1, <1>2, <1>5, <1>11, <2>4, <3>2, <3>3, <4>1, <4>2, BeginNew DEF c
    <3> QED BY <3>4, <3>5
  <2> QED BY <2>2, <2>3, <2>4
<1> HIDE DEF c, a, early
<1> QED BY <1>4, <1>9, <1>10, <1>11

LEMMA IntegrateReplays == ASSUME IInv, BInv, Integrate PROVE BInv'
BY BeginReplays, DetectReplays, MarkApplyingReplays, ApplyReplays, BlockReplays, MarkAppliedReplays, RecordReplays,
   RecordedReplays DEF Integrate

-----------------------------------------------------------------------------
(***************************************************************************)
(* Restart                                                                 *)
(***************************************************************************)
LEMMA ListingGrows ==
  ASSUME NEW n \in Nat, NEW s \in SUBSET (1..n), NEW i \in s, i \in Listing(1..n)
  PROVE  i \in Listing(s)
<1>1. IsFiniteSet(1..n)
  BY FS_Interval
<1>2. IsFiniteSet({j \in 1..n : j <= i})
  BY <1>1, FS_Subset
<1>3. {j \in s : j <= i} \in SUBSET {j \in 1..n : j <= i}
  OBVIOUS
<1>4. /\ IsFiniteSet({j \in s : j <= i})
      /\ Cardinality({j \in s : j <= i}) <= Cardinality({j \in 1..n : j <= i})
  BY <1>2, <1>3, FS_Subset
<1>5. Cardinality({j \in s : j <= i}) \in Nat /\ Cardinality({j \in 1..n : j <= i}) \in Nat
  BY <1>2, <1>4, FS_CardinalityType
<1>6. Cardinality({j \in 1..n : j <= i}) <= Listed /\ Listed \in Nat
  BY IntegrationAssumption DEF Listing
<1>7. Cardinality({j \in s : j <= i}) <= Listed
  BY <1>4, <1>5, <1>6
<1> QED BY <1>7 DEF Listing

\* Every journal that is to be settled while it is open is replayed before.
LEMMA BootListsReplays == ASSUME IInv, BInv, BootLists PROVE BInv'
<1> DEFINE all == 1..Len(journal)
           settle == {i \in Listing(all) : Awaited(i)}
           replay == IF \E i \in Listing(all) : Open(i) THEN Listing({i \in all : Open(i)}) ELSE {}
<1>1. /\ boot.pc = "listing"
      /\ boot' = IF settle = {} THEN NoBoot ELSE [pc |-> "replaying", replay |-> replay, settle |-> settle]
      /\ UNCHANGED <<contract, task, row, disk, patch, journal, dest, work, tool, queue, op, faults>>
  BY DEF BootLists
<1>2. queue = <<>> /\ \A t \in Task : work[t].pc = "idle"
  BY <1>1 DEF BInv, ListingAlone
<1>3. op.pc = "none"
  BY <1>2, OpTypes
<1>4. ASSUME NEW t \in Task PROVE TaskReplays(t)'
  <2>1. EditsAgree(t) /\ PhaseAgrees(t) /\ AppliedIsNoticed(t)
    BY DEF BInv, TaskReplays
  <2>2. EditsAgree(t)'
    BY <1>1, <2>1 DEF EditsAgree, StoredOf, Reaches, Last, OpOn, JournalsOf
  <2>3. PhaseAgrees(t)'
    BY <1>1, <2>1 DEF PhaseAgrees, Active, Sole, Last, JournalsOf
  <2>4. AppliedIsNoticed(t)'
    BY <1>1, <2>1 DEF AppliedIsNoticed, Sole, Reaches, Last, OpOn, JournalsOf
  <2>5. BlockedIsAbsent(t)' /\ ComesAfterReplay(t)'
    BY <1>1, <1>2 DEF BlockedIsAbsent, ComesAfterReplay
  <2> QED BY <2>2, <2>3, <2>4, <2>5 DEF TaskReplays
<1>5. CallsAgree'
  BY <1>1, <1>2 DEF CallsAgree
<1>6. OpAgrees'
  BY <1>1, <1>3 DEF OpAgrees
<1>7. ListingAlone'
  BY <1>1 DEF ListingAlone, NoBoot
<1>8. ASSUME NEW i \in boot'.settle PROVE SettledIsAbsent(i)'
  <2>1. settle # {}
    BY <1>1, <1>8 DEF NoBoot
  <2>2. boot'.settle = settle /\ boot'.replay = replay
    BY <1>1, <2>1
  <2>3. i \in Listing(all) /\ i \in all
    BY <1>8, <2>2 DEF Listing
  <2>4. ASSUME Open(i) PROVE i \in boot'.replay
    <3>1. Len(journal) \in Nat /\ {j \in all : Open(j)} \in SUBSET all /\ i \in {j \in all : Open(j)}
      BY <2>3, <2>4, QueueTypes
    <3>2. i \in Listing({j \in all : Open(j)})
      BY <2>3, <3>1, ListingGrows
    <3> QED BY <2>2, <2>3, <2>4, <3>2
  <2>5. (Open(i)' <=> Open(i)) /\ journal'[i] = journal[i]
    BY <1>1 DEF Open
  <2> HIDE DEF settle, replay
  <2>6. PICK t \in Task : t = journal[i].task
    BY <2>3, QueueTypes
  <2>7. Open(i) => BootOn(t)'
    BY <2>4, <2>5, <2>6 DEF BootOn
  <2> QED BY <2>5, <2>6, <2>7 DEF SettledIsAbsent
<1> QED BY <1>4, <1>5, <1>6, <1>7, <1>8 DEF BInv

LEMMA BootReplaysReplays == ASSUME IInv, BInv, BootReplays PROVE BInv'
<1>1. PICK i \in boot.replay :
        /\ boot.pc = "replaying" /\ queue' = Append(queue, Call("boot", journal[i].task, journal[i].strategy))
        /\ boot' = [boot EXCEPT !.pc = "waiting", !.replay = boot.replay \ {i}]
        /\ UNCHANGED <<contract, task, row, disk, patch, journal, dest, work, tool, op, faults>>
  BY DEF BootReplays
<1> DEFINE c == Call("boot", journal[i].task, journal[i].strategy)
<1>2. i \in 1..Len(journal) /\ journal[i] \in JournalSet
  BY QueueTypes
<1>3. c \in CallSet /\ c.by = "boot" /\ c.task = journal[i].task
  BY <1>2 DEF Call, CallSet, JournalSet
<1>4. queue' = Append(queue, c)
  BY <1>1
<1> HIDE DEF c
<1>5. boot'.pc = "waiting" /\ boot'.replay = boot.replay \ {i} /\ boot'.settle = boot.settle
  BY <1>1 DEF IInv, Shape, BootSet
<1>6. /\ Len(queue') = Len(queue) + 1 /\ queue'[Len(queue) + 1] = c /\ Len(queue) \in Nat
      /\ \A k \in 1..Len(queue) : queue'[k] = queue[k]
      /\ queue # <<>> => Head(queue') = Head(queue)
  BY <1>3, <1>4, CallJoins
<1>7. op.pc # "none" => Head(queue') = Head(queue)
  BY <1>6, OpTypes
<1>8. \A k \in 1..Len(queue') : \/ k \in 1..Len(queue) /\ queue'[k] = queue[k]
                                \/ k = Len(queue) + 1 /\ queue'[k] = c
  BY <1>6
<1>9. \A k \in 1..Len(queue) : queue[k].by # "boot"
  BY <1>1 DEF BInv, CallsAgree
<1>10. Len(queue) + 1 \in 1..Len(queue')
  BY <1>6
<1>11. ASSUME NEW t \in Task PROVE BootOn(t)' <=> BootOn(t)
  <2>1. BootOn(t) <=> \E j \in boot.replay : journal[j].task = t
    BY <1>9 DEF BootOn
  <2>2. (\E k \in 1..Len(queue') : queue'[k].by = "boot" /\ queue'[k].task = t) <=> journal[i].task = t
    BY <1>3, <1>6, <1>8, <1>9, <1>10
  <2>3. BootOn(t)' <=> (journal[i].task = t \/ \E j \in boot.replay \ {i} : journal[j].task = t)
    BY <1>1, <1>5, <2>2 DEF BootOn
  <2> QED BY <2>1, <2>3
<1>12. ASSUME NEW t \in Task
       PROVE  /\ OpOn(t)' <=> OpOn(t)
              /\ (Sole(t)' <=> Sole(t)) /\ (Reaches(t)' <=> Reaches(t)) /\ (Active(t)' <=> Active(t))
              /\ (Fresh(t)' <=> Fresh(t)) /\ Last(t)' = Last(t) /\ JournalsOf(t)' = JournalsOf(t)
  BY <1>1, <1>7 DEF OpOn, Sole, Reaches, Active, Fresh, Last, JournalsOf
<1>13. ASSUME NEW t \in Task PROVE TaskReplays(t)'
  <2>1. EditsAgree(t) /\ PhaseAgrees(t) /\ AppliedIsNoticed(t) /\ ComesAfterReplay(t) /\ BlockedIsAbsent(t)
    BY DEF BInv, TaskReplays
  <2>2. EditsAgree(t)'
    BY <1>1, <1>12, <2>1 DEF EditsAgree, StoredOf
  <2>3. PhaseAgrees(t)'
    BY <1>1, <1>12, <2>1 DEF PhaseAgrees
  <2>4. AppliedIsNoticed(t)' /\ BlockedIsAbsent(t)'
    BY <1>1, <1>12, <2>1 DEF AppliedIsNoticed, BlockedIsAbsent
  <2>5. OpOn(t) => Head(queue') = Head(queue)
    BY <1>7 DEF OpOn
  <2>6. ComesAfterReplay(t)'
    BY <1>1, <1>11, <1>12, <2>1, <2>5 DEF ComesAfterReplay
  <2> QED BY <2>2, <2>3, <2>4, <2>6 DEF TaskReplays
<1>14. CallsAgree'
  <2>1. ASSUME NEW k \in 1..Len(queue'), queue'[k].by = "tool"
        PROVE  /\ tool'.pc = "integrating" /\ tool'.task = queue'[k].task
               /\ \A l \in 1..Len(queue') : queue'[l].by = "tool" => k = l
    <3>1. \A l \in 1..Len(queue') : queue'[l].by = "tool" => l \in 1..Len(queue) /\ queue'[l] = queue[l]
      BY <1>3, <1>8
    <3>2. k \in 1..Len(queue) /\ queue'[k] = queue[k] /\ queue[k].by = "tool"
      BY <2>1, <3>1
    <3>3. /\ tool.pc = "integrating" /\ tool.task = queue[k].task
          /\ \A l \in 1..Len(queue) : queue[l].by = "tool" => k = l
      BY <3>2 DEF BInv, CallsAgree
    <3> QED BY <1>1, <3>1, <3>2, <3>3
  <2>2. ASSUME NEW k \in 1..Len(queue'), queue'[k].by = "boot"
        PROVE  /\ boot'.pc = "waiting" /\ \E j \in JournalsOf(queue[k].task)' : j \notin boot'.replay
               /\ \A l \in 1..Len(queue') : queue'[l].by = "boot" => k = l
    <3>1. \A l \in 1..Len(queue') : queue'[l].by = "boot" => l = Len(queue) + 1 /\ queue'[l] = c
      BY <1>8, <1>9
    <3>2. i \in JournalsOf(queue[k].task)'
      BY <1>1, <1>2, <1>3, <2>2, <3>1 DEF JournalsOf
    <3> QED BY <1>5, <2>2, <3>1, <3>2
  <2>3. \A k \in 1..Len(queue') : queue'[k].by = "tool" =>
          /\ tool'.pc = "integrating" /\ tool'.task = queue'[k].task
          /\ \A l \in 1..Len(queue') : queue'[l].by = "tool" => k = l
    BY <2>1
  <2>4. \A k \in 1..Len(queue') : queue'[k].by = "boot" =>
          /\ boot'.pc = "waiting" /\ \E j \in JournalsOf(queue[k].task)' : j \notin boot'.replay
          /\ \A l \in 1..Len(queue') : queue'[l].by = "boot" => k = l
    BY <2>2
  <2> QED BY <2>3, <2>4 DEF CallsAgree
<1>15. OpAgrees' /\ ListingAlone'
  BY <1>1, <1>5, <1>7 DEF BInv, OpAgrees, ListingAlone
<1>16. ASSUME NEW j \in boot'.settle PROVE SettledIsAbsent(j)'
  <2>1. SettledIsAbsent(j) /\ journal[j].task \in Task
    BY <1>5, QueueTypes DEF BInv
  <2> QED BY <1>1, <1>11, <1>12, <2>1 DEF SettledIsAbsent, Stuck, Open
<1> QED BY <1>13, <1>14, <1>15, <1>16 DEF BInv

LEMMA BootSettlesReplays == ASSUME IInv, BInv, BootSettles PROVE BInv'
<1>1. PICK i \in boot.settle :
        /\ task' = IF task[journal[i].task].status = "integration_pending"
                   THEN [task EXCEPT ![journal[i].task] = SettledRow(journal[i].task, i)] ELSE task
        /\ boot' = IF boot.settle = {i} THEN NoBoot ELSE [boot EXCEPT !.settle = boot.settle \ {i}]
  BY DEF BootSettles
<1>2. /\ boot.pc = "replaying" /\ boot.replay = {}
      /\ UNCHANGED <<contract, row, disk, patch, journal, dest, work, tool, queue, op, faults>>
  BY DEF BootSettles
<1>3. PICK t \in Task : t = journal[i].task
  BY QueueTypes
<1>4. /\ boot'.replay = {} /\ boot'.settle \subseteq boot.settle
      /\ (boot'.pc = "up" /\ boot'.settle = {}) \/ boot'.pc = "replaying"
  BY <1>1, <1>2 DEF NoBoot, IInv, Shape, BootSet
<1>5. \A u \in Task \ {t} : task'[u] = task[u]
  BY <1>1, <1>3 DEF IInv, Shape
<1>6. /\ task'[t].attempt = task[t].attempt
      /\ task'[t] = task[t] \/ task'[t].status \notin ActiveStatus
  <2>1. CASE task[t].status = "integration_pending"
    <3>1. task'[t] = SettledRow(t, i)
      BY <1>1, <1>3, <2>1 DEF IInv, Shape
    <3> QED BY <3>1, Settled
  <2>2. CASE task[t].status # "integration_pending"
    BY <1>1, <1>3, <2>2
  <2> QED BY <2>1, <2>2
<1>7. \A k \in 1..Len(queue) : queue[k].by # "boot"
  BY <1>2 DEF BInv, CallsAgree
<1>8. ASSUME NEW u \in Task
      PROVE  /\ ~BootOn(u) /\ ~BootOn(u)' /\ (OpOn(u)' <=> OpOn(u))
             /\ (Sole(u)' <=> Sole(u)) /\ (Reaches(u)' <=> Reaches(u)) /\ (Fresh(u)' <=> Fresh(u))
             /\ Last(u)' = Last(u) /\ JournalsOf(u)' = JournalsOf(u)
             /\ task'[u] = task[u] \/ ~Active(u)'
  <2>1. ~BootOn(u) /\ ~BootOn(u)'
    BY <1>2, <1>4, <1>7 DEF BootOn
  <2>2. Last(u)' = Last(u)
    BY <1>5, <1>6 DEF Last
  <2>3. task'[u] = task[u] \/ ~Active(u)'
    BY <1>5, <1>6 DEF Active
  <2> QED BY <1>2, <2>1, <2>2, <2>3 DEF OpOn, Sole, Reaches, Fresh, JournalsOf
<1>9. ASSUME NEW u \in Task PROVE TaskReplays(u)'
  <2>1. EditsAgree(u) /\ PhaseAgrees(u) /\ AppliedIsNoticed(u) /\ ComesAfterReplay(u) /\ BlockedIsAbsent(u)
    BY DEF BInv, TaskReplays
  <2>2. task'[u] = task[u] => (Active(u)' <=> Active(u))
    BY DEF Active
  <2>3. ~Active(u)' => task'[u].status \notin {"running", "validating"}
    BY DEF Active, ActiveStatus
  <2>4. EditsAgree(u)'
    BY <1>2, <1>8, <2>1, <2>3 DEF EditsAgree, StoredOf
  <2>5. PhaseAgrees(u)'
    BY <1>2, <1>8, <2>1, <2>2, <2>3 DEF PhaseAgrees
  <2>6. AppliedIsNoticed(u)'
    BY <1>2, <1>8, <2>1 DEF AppliedIsNoticed
  <2>7. BlockedIsAbsent(u)' /\ ComesAfterReplay(u)'
    BY <1>2, <1>8, <2>1, <2>2 DEF BlockedIsAbsent, ComesAfterReplay
  <2> QED BY <2>4, <2>5, <2>6, <2>7 DEF TaskReplays
<1>10. CallsAgree'
  BY <1>2, <1>7 DEF BInv, CallsAgree
<1>11. OpAgrees' /\ ListingAlone'
  BY <1>2, <1>4 DEF BInv, OpAgrees, ListingAlone
<1>12. ASSUME NEW j \in boot'.settle PROVE SettledIsAbsent(j)'
  <2>1. PICK u \in Task : u = journal[j].task
    BY <1>4, QueueTypes
  <2>2. SettledIsAbsent(j) /\ (Stuck(j)' <=> Stuck(j)) /\ (Open(j)' <=> Open(j))
    BY <1>2, <1>4 DEF BInv, Stuck, Open
  <2>3. task'[u].status = "integration_pending" => task[u].status = "integration_pending"
    BY <1>8 DEF Active, ActiveStatus
  <2> QED BY <1>2, <1>8, <2>1, <2>2, <2>3 DEF SettledIsAbsent
<1> QED BY <1>9, <1>10, <1>11, <1>12 DEF BInv

LEMMA CrashReplays == ASSUME IInv, BInv, Crash PROVE BInv'
<1>1. /\ task' = [t \in Task |-> [task[t] EXCEPT !.claim = IF @ = "live" THEN "gone" ELSE @,
                                                !.review = IF task[t].status \in Success THEN @ ELSE NoResult]]
      /\ work' = [t \in Task |-> Idle] /\ tool' = NoTool /\ queue' = <<>> /\ op' = NoOp
      /\ boot' = [NoBoot EXCEPT !.pc = "listing"] /\ UNCHANGED <<contract, row, disk, patch, journal, dest>>
  BY DEF Crash
<1>2. /\ boot'.replay = {} /\ boot'.settle = {} /\ boot'.pc = "listing" /\ op'.pc = "none" /\ tool'.pc = "idle"
      /\ \A t \in Task : work'[t].pc = "idle" /\ work'[t].row = NoRow
  BY <1>1 DEF NoBoot, NoOp, NoTool, Idle
<1>3. ASSUME NEW t \in Task PROVE TaskReplays(t)'
  <2>1. EditsAgree(t) /\ PhaseAgrees(t) /\ AppliedIsNoticed(t)
    BY DEF BInv, TaskReplays
  <2>2. /\ task'[t].status = task[t].status /\ task'[t].attempt = task[t].attempt /\ task'[t].result = task[t].result
    BY <1>1, TaskFacts DEF TaskSet
  <2>3. /\ (Sole(t)' <=> Sole(t)) /\ (Reaches(t)' <=> Reaches(t)) /\ (Active(t)' <=> Active(t))
        /\ Last(t)' = Last(t) /\ JournalsOf(t)' = JournalsOf(t) /\ ~OpOn(t)'
    BY <1>1, <1>2, <2>2 DEF Sole, Reaches, Active, Last, JournalsOf, OpOn
  <2>4. StoredOf(t, NoRow.artifact)
    BY NothingStored DEF NoRow
  <2>5. EditsAgree(t)'
    BY <1>1, <1>2, <2>1, <2>2, <2>3, <2>4 DEF EditsAgree, StoredOf
  <2>6. PhaseAgrees(t)'
    BY <1>1, <1>2, <2>1, <2>2, <2>3 DEF PhaseAgrees
  <2>7. AppliedIsNoticed(t)'
    BY <1>1, <2>1, <2>3 DEF AppliedIsNoticed
  <2>8. BlockedIsAbsent(t)' /\ ComesAfterReplay(t)'
    BY <1>2 DEF BlockedIsAbsent, ComesAfterReplay
  <2> QED BY <2>5, <2>6, <2>7, <2>8 DEF TaskReplays
<1>4. CallsAgree' /\ OpAgrees' /\ ListingAlone'
  <2>1. queue' = <<>>
    BY <1>1
  <2> QED BY <1>2, <2>1 DEF CallsAgree, OpAgrees, ListingAlone
<1> QED BY <1>2, <1>3, <1>4 DEF BInv

-----------------------------------------------------------------------------
LEMMA InitReplays == Init => BInv
<1> SUFFICES ASSUME Init PROVE BInv
  OBVIOUS
<1>1. IInv
  BY InitKeeps
<1>2. ASSUME NEW t \in Task PROVE TaskReplays(t)
  <2>1. /\ task[t].status = "queued" /\ disk[t].edits = {} /\ patch[t].edits = {} /\ dest.edits[t] = {}
        /\ row[t].artifact = NoArtifact /\ work[t].pc = "idle" /\ work[t].row.artifact = NoArtifact
        /\ op.pc = "none" /\ tool.pc = "idle" /\ JournalsOf(t) = {}
    BY DEF Init, NoRow, Idle, NoOp, NoTool, JournalsOf
  <2>2. StoredOf(t, NoArtifact) /\ ~Reaches(t) /\ ~OpOn(t) /\ ~Active(t)
    BY <1>1, <2>1, NothingStored DEF Reaches, OpOn, Active, ActiveStatus
  <2>3. EditsAgree(t)
    BY <2>1, <2>2 DEF EditsAgree
  <2> QED BY <2>1, <2>2, <2>3 DEF TaskReplays, PhaseAgrees, AppliedIsNoticed, ComesAfterReplay, BlockedIsAbsent
<1>3. queue = <<>> /\ op.pc = "none" /\ boot.pc = "up" /\ boot.replay = {} /\ boot.settle = {}
  BY DEF Init, NoOp, NoBoot
<1>4. CallsAgree /\ OpAgrees /\ ListingAlone
  BY <1>3 DEF CallsAgree, OpAgrees, ListingAlone
<1> QED BY <1>2, <1>3, <1>4 DEF BInv

LEMMA SameReplays == ASSUME IInv, BInv, UNCHANGED vars PROVE BInv'
<1> USE DEF vars
<1>2. ASSUME NEW t \in Task
      PROVE  /\ (OpOn(t)' <=> OpOn(t)) /\ (BootOn(t)' <=> BootOn(t))
             /\ (Sole(t)' <=> Sole(t)) /\ (Reaches(t)' <=> Reaches(t)) /\ (Active(t)' <=> Active(t))
             /\ (Fresh(t)' <=> Fresh(t)) /\ Last(t)' = Last(t) /\ JournalsOf(t)' = JournalsOf(t)
  BY DEF OpOn, BootOn, Sole, Reaches, Active, Fresh, Last, JournalsOf
<1>3. ASSUME NEW t \in Task PROVE TaskReplays(t)'
  <2>1. EditsAgree(t) /\ PhaseAgrees(t) /\ AppliedIsNoticed(t) /\ ComesAfterReplay(t) /\ BlockedIsAbsent(t)
    BY DEF BInv, TaskReplays
  <2>2. EditsAgree(t)'
    BY <1>2, <2>1 DEF EditsAgree, StoredOf
  <2>3. PhaseAgrees(t)'
    BY <1>2, <2>1 DEF PhaseAgrees
  <2>4. AppliedIsNoticed(t)' /\ BlockedIsAbsent(t)' /\ ComesAfterReplay(t)'
    BY <1>2, <2>1 DEF AppliedIsNoticed, BlockedIsAbsent, ComesAfterReplay
  <2> QED BY <2>2, <2>3, <2>4 DEF TaskReplays
<1>4. CallsAgree' /\ OpAgrees' /\ ListingAlone'
  BY DEF BInv, CallsAgree, OpAgrees, ListingAlone, JournalsOf
<1>5. ASSUME NEW i \in boot'.settle PROVE SettledIsAbsent(i)'
  <2>1. SettledIsAbsent(i) /\ journal[i].task \in Task
    BY QueueTypes DEF BInv
  <2> QED BY <1>2, <2>1 DEF SettledIsAbsent, Stuck, Open
<1> QED BY <1>3, <1>4, <1>5 DEF BInv

LEMMA NextReplays == Careful /\ IInv /\ BInv /\ [Next]_vars => BInv'
<1> SUFFICES ASSUME Careful, IInv, BInv, [Next]_vars PROVE BInv'
  OBVIOUS
<1>1. CASE Integrate BY <1>1, IntegrateReplays
<1>2. CASE Boot BY <1>2, BootListsReplays, BootReplaysReplays, BootSettlesReplays DEF Boot
<1>3. CASE User
  BY <1>3, ToolLookReplays, ToolRemoveReplays, ToolCleanupReplays, ToolIntegrateReplays, ToolFinalizeReplays,
     ToolQuarantineReplays, UserEditsReplays, EndsReplays DEF User
<1>4. CASE Crash BY <1>4, CrashReplays
<1>5. ASSUME NEW t \in Task, Worker(t) PROVE BInv'
  BY <1>5, ClaimReplays, JudgeReplays, ValidateReplays, FinalizeArtifactReplays, FinalizeThrowsReplays, FinishReplays,
     CatchReplays, StaleTakesReplays, EndsReplays, StaleThrowsReplays, LookReplays, RemoveReplays DEF Worker
<1>6. ASSUME NEW t \in Task, TurnEnds(t) \/ PrepareFails(t) PROVE BInv'
  BY <1>6, TurnEndsReplays, PrepareFailsReplays
<1>7. CASE UNCHANGED vars BY <1>7, SameReplays
<1> QED BY <1>1, <1>2, <1>3, <1>4, <1>5, <1>6, <1>7 DEF Next

-----------------------------------------------------------------------------
(***************************************************************************)
(* Who reports a Task as blocked: its worker, and start-up's recovery.     *)
(***************************************************************************)
SoleOrAbsent(t) == ~Sole(t) \/ ~Reaches(t) \/ dest.touched[t] # "no"
BlockedAreAbsent ==
  \A t \in Task : task'[t].status = "integration_blocked" /\ task[t].status # "integration_blocked" => SoleOrAbsent(t)

LEMMA RowIsAbsent ==
  ASSUME IInv, NEW t \in Task, NEW k, task' = [task EXCEPT ![t] = k],
         k.status = "integration_blocked" => task[t].status = "integration_blocked" \/ SoleOrAbsent(t)
  PROVE  BlockedAreAbsent
<1>1. \A u \in Task : task'[u] = IF u = t THEN k ELSE task[u]
  BY DEF IInv, Shape
<1> QED BY <1>1 DEF BlockedAreAbsent

LEMMA NoneIsAbsent == ASSUME \A t \in Task : task'[t].status = task[t].status PROVE BlockedAreAbsent
BY DEF BlockedAreAbsent

LEMMA VerdictIsOther ==
  ASSUME NEW k \in TaskSet, NEW verdict, NEW good \in Success, NEW warned \in Success
  PROVE  Verdicts(k, verdict, good, warned).status # "integration_blocked"
<1> DEFINE r == Verdicts(k, verdict, good, warned)
<1>1. CASE verdict.decision \in Accepting
  <2>1. r = Ended(k, good) \/ r = Ended(k, warned)
    BY <1>1 DEF Accepting, Verdicts
  <2>2. good \in Statuses \ ActiveStatus /\ warned \in Statuses \ ActiveStatus
    BY Vocabulary
  <2>3. r.status \in {good, warned}
    BY <2>1, <2>2, EndedRow
  <2> QED BY <2>3 DEF Success
<1>2. CASE verdict.decision \notin Accepting
  <2>1. r = FailedRow(k, verdict.failure, TerminalOf(verdict), {}) /\ {} \in SUBSET Opinions
    BY <1>2 DEF Accepting, Verdicts
  <2>2. r.status \in {"retry_waiting", TerminalOf(verdict)}
    BY <2>1, TerminalIsRepairable, FailedRowEnds
  <2> QED BY <2>2 DEF TerminalOf
<1> QED BY <1>1, <1>2

LEMMA OnwardIsAbsent ==
  ASSUME IInv, NEW t \in Task, NEW r \in TaskSet, Onward(t, r)
  PROVE  BlockedAreAbsent
<1>1. CASE HasTree(t)
  <2> DEFINE k == [r EXCEPT !.status = "integration_pending"]
  <2>1. task' = [task EXCEPT ![t] = k]
    BY <1>1 DEF Onward
  <2>2. k.status # "integration_blocked"
    BY DEF TaskSet
  <2> HIDE DEF k
  <2> QED BY <2>1, <2>2, RowIsAbsent
<1>2. CASE ~HasTree(t)
  <2>1. PICK verdict :
          task' = [task EXCEPT ![t] =
               CASE verdict.decision = "accept" -> Ended(r, "completed")
                 [] verdict.decision = "accept_with_warnings" ->
                      Ended(r, IF contract[t].criteria THEN "completed_with_warnings" ELSE "completed")
                 [] OTHER -> FailedRow(r, verdict.failure, TerminalOf(verdict), {})]
    BY <1>2 DEF Onward
  <2> DEFINE warned == IF contract[t].criteria THEN "completed_with_warnings" ELSE "completed"
             k == Verdicts(r, verdict, "completed", warned)
  <2>2. task' = [task EXCEPT ![t] = k]
    BY <2>1 DEF Verdicts
  <2>3. warned \in Success /\ "completed" \in Success
    BY DEF Success
  <2> HIDE DEF warned
  <2>4. k.status # "integration_blocked"
    <3>1. r \in TaskSet
      OBVIOUS
    <3>2. \A g \in Success, h \in Success : Verdicts(r, verdict, g, h).status # "integration_blocked"
      BY ONLY <3>1, VerdictIsOther
    <3> QED BY <2>3, <3>2
  <2> HIDE DEF k
  <2> QED BY <2>2, <2>4, RowIsAbsent
<1> QED BY <1>1, <1>2

LEMMA JudgeIsAbsent == ASSUME IInv, NEW t \in Task, Judge(t) PROVE BlockedAreAbsent
<1> DEFINE verdict == ExecutionVerdict(Evidence(t))
           s == IF verdict.decision # "attention" /\ task[t].result.turn = "interrupted"
                THEN "interrupted" ELSE TerminalOf(verdict)
           r == FailedRow(task[t], verdict.failure, s, {})
<1>1. CASE verdict.decision # "accept"
  <2>1. task' = [task EXCEPT ![t] = r]
    BY <1>1 DEF Judge
  <2>2. s \in Repairable /\ {} \in SUBSET Opinions /\ s # "integration_blocked"
    BY DEF Repairable, TerminalOf
  <2> HIDE DEF s
  <2>3. r.status \in {"retry_waiting", s}
    BY <2>2, FailedRowEnds, TaskFacts
  <2> HIDE DEF r
  <2> QED BY <2>1, <2>2, <2>3, RowIsAbsent
<1>2. CASE verdict.decision = "accept" /\ contract[t].criteria
  <2> DEFINE k == [task[t] EXCEPT !.status = "validating"]
  <2>1. task' = [task EXCEPT ![t] = k]
    BY <1>2 DEF Judge
  <2>2. k.status # "integration_blocked"
    BY TaskFacts DEF TaskSet
  <2> HIDE DEF k
  <2> QED BY <2>1, <2>2, RowIsAbsent
<1>3. CASE verdict.decision = "accept" /\ ~contract[t].criteria
  <2>1. Onward(t, task[t])
    BY <1>3 DEF Judge
  <2> QED BY <2>1, TaskFacts, OnwardIsAbsent
<1> QED BY <1>1, <1>2, <1>3

LEMMA ValidateIsAbsent == ASSUME IInv, NEW t \in Task, Validate(t) PROVE BlockedAreAbsent
<1>1. PICK v \in Opinions :
        IF v.decision \in Accepting THEN Onward(t, [task[t] EXCEPT !.review = v])
        ELSE task' = [task EXCEPT ![t] = RefusedRow(task[t], v)]
  BY DEF Validate
<1>2. CASE v.decision \in Accepting
  <2> DEFINE k == [task[t] EXCEPT !.review = v]
  <2>1. k \in TaskSet
    BY TaskFacts DEF TaskSet
  <2>2. Onward(t, k)
    BY <1>1, <1>2
  <2> HIDE DEF k
  <2> QED BY <2>1, <2>2, OnwardIsAbsent
<1>3. CASE v.decision \notin Accepting
  <2> DEFINE f == ValidationFailure(v)
             s == CASE f.type = "policy" -> "blocked_by_policy"
                    [] f.type = "validation" -> "rejected"
                    [] OTHER -> "validation_failed"
             feedback == IF f.type = "validation" THEN {v} ELSE {}
             r == FailedRow(task[t], f, s, feedback)
  <2>1. task' = [task EXCEPT ![t] = r]
    BY <1>1, <1>3 DEF RefusedRow
  <2>2. s \in Repairable /\ feedback \in SUBSET Opinions /\ s # "integration_blocked"
    BY DEF Repairable
  <2> HIDE DEF s, feedback, f
  <2>3. r.status \in {"retry_waiting", s}
    BY <2>2, FailedRowEnds, TaskFacts
  <2> HIDE DEF r
  <2> QED BY <2>1, <2>2, <2>3, RowIsAbsent
<1> QED BY <1>2, <1>3

LEMMA FinishIsAbsent == ASSUME IInv, NEW t \in Task, Finish(t) PROVE BlockedAreAbsent
<1> DEFINE verdict == Verdict(Integrated(t, Evidence(t)))
           r == Verdicts(task[t], verdict, "completed", "completed_with_warnings")
<1>1. task' = [task EXCEPT ![t] = r]
  BY DEF Finish, Verdicts
<1>2. r.status # "integration_blocked"
  <2>1. task[t] \in TaskSet /\ "completed" \in Success /\ "completed_with_warnings" \in Success
    BY TaskFacts DEF Success
  <2>2. \A k \in TaskSet, g \in Success, h \in Success : Verdicts(k, verdict, g, h).status # "integration_blocked"
    BY ONLY VerdictIsOther
  <2> QED BY <2>1, <2>2
<1> HIDE DEF r
<1> QED BY <1>1, <1>2, RowIsAbsent

\* The worker reports what the integration told it.
LEMMA CatchIsAbsent == ASSUME IInv, BInv, NEW t \in Task, Catch(t) PROVE BlockedAreAbsent
<1>1. CASE Owned(t) /\ work[t].pc = "blocked"
  <2>1. task' = [task EXCEPT ![t] = Ended(task[t], "integration_blocked")]
    BY <1>1 DEF Catch
  <2>2. Active(t) /\ BlockedIsAbsent(t)
    BY <1>1, OwnedIsActive DEF Active, BInv, TaskReplays
  <2>3. SoleOrAbsent(t)
    BY <1>1, <2>2 DEF BlockedIsAbsent, SoleOrAbsent
  <2> QED BY <2>1, <2>3, RowIsAbsent
<1>2. CASE Owned(t) /\ work[t].pc # "blocked"
  <2> DEFINE k == Ended(task[t], "failed")
  <2>1. task' = [task EXCEPT ![t] = k]
    BY <1>2 DEF Catch
  <2>2. k.status = "failed"
    BY TaskFacts DEF Ended, TaskSet
  <2> HIDE DEF k
  <2> QED BY <2>1, <2>2, RowIsAbsent
<1>3. CASE ~Owned(t)
  BY <1>3, NoneIsAbsent DEF Catch
<1> QED BY <1>1, <1>2, <1>3

\* Start-up reports a journal that is still open after all have been replayed.
LEMMA BootSettlesIsAbsent == ASSUME IInv, BInv, BootSettles PROVE BlockedAreAbsent
<1>1. PICK i \in boot.settle :
        task' = IF task[journal[i].task].status = "integration_pending"
                THEN [task EXCEPT ![journal[i].task] = SettledRow(journal[i].task, i)] ELSE task
  BY DEF BootSettles
<1>2. boot.pc = "replaying" /\ boot.replay = {} /\ SettledIsAbsent(i)
  BY DEF BootSettles, BInv
<1>3. PICK t \in Task : t = journal[i].task
  BY QueueTypes
<1>4. ~BootOn(t)
  BY <1>2 DEF BootOn, BInv, CallsAgree
<1>5. CASE task[t].status # "integration_pending"
  BY <1>1, <1>3, <1>5, NoneIsAbsent
<1>6. CASE task[t].status = "integration_pending" /\ Open(i)
  <2>1. SoleOrAbsent(t)
    BY <1>2, <1>3, <1>4, <1>6 DEF SettledIsAbsent, SoleOrAbsent
  <2> QED BY <1>1, <1>3, <1>6, <2>1, RowIsAbsent
<1>7. CASE task[t].status = "integration_pending" /\ ~Open(i)
  <2> DEFINE verdict == Verdict(Integrated(t, Evidence(t)))
             f == FailedRow(task[t], verdict.failure, TerminalOf(verdict), {})
             k == SettledRow(t, i)
  <2>1. k \in {Ended(task[t], "completed"), f}
    BY <1>7 DEF SettledRow
  <2>2. f.status \in {"retry_waiting", TerminalOf(verdict)} /\ {} \in SUBSET Opinions
    <3>1. {} \in SUBSET Opinions
      OBVIOUS
    <3> QED BY <3>1, TaskFacts, TerminalIsRepairable, FailedRowEnds
  <2>3. Ended(task[t], "completed").status = "completed"
    BY TaskFacts DEF Ended, TaskSet
  <2> HIDE DEF f
  <2>4. k.status # "integration_blocked"
    BY <2>1, <2>2, <2>3 DEF TerminalOf
  <2> QED BY <1>1, <1>3, <1>7, <2>4, RowIsAbsent
<1> QED BY <1>5, <1>6, <1>7

LEMMA OthersAreAbsent ==
  ASSUME IInv, NEW t \in Task,
         Claim(t) \/ PrepareFails(t) \/ TurnEnds(t) \/ StaleRecovers(t) \/ Cancel(t) \/ Repair(t)
  PROVE  BlockedAreAbsent
<1> DEFINE claimed == [task[t] EXCEPT !.status = "running", !.claim = "live", !.attempt = task[t].attempt + 1,
                                      !.result = NoResult, !.review = NoResult]
           failed == [Ended(task[t], "failed") EXCEPT !.attempt = task[t].attempt + 1, !.result = NoResult]
           queued == [Ended(task[t], "queued") EXCEPT !.result = NoResult, !.review = NoResult, !.heard = {}]
<1>1. task[t] \in TaskSet
  BY TaskFacts
<1>2. CASE Claim(t)
  <2>1. task' = [task EXCEPT ![t] = claimed] /\ claimed.status = "running"
    BY <1>1, <1>2 DEF Claim, TaskSet
  <2> HIDE DEF claimed
  <2> QED BY <2>1, RowIsAbsent
<1>3. CASE PrepareFails(t)
  <2>1. task' = [task EXCEPT ![t] = failed] /\ failed.status = "failed"
    BY <1>1, <1>3 DEF PrepareFails, TaskSet, Ended
  <2> HIDE DEF failed
  <2> QED BY <2>1, RowIsAbsent
<1>4. CASE TurnEnds(t)
  <2>1. PICK r \in Outcomes : task' = [task EXCEPT ![t].result = r]
    BY <1>4 DEF TurnEnds
  <2>2. \A u \in Task : task'[u].status = task[u].status
    BY <1>1, <2>1 DEF IInv, Shape, TaskSet
  <2> QED BY <2>2, NoneIsAbsent
<1>5. CASE StaleRecovers(t) \/ Cancel(t)
  <2>1. PICK s \in {"recovery_attention", "canceled"} : task' = [task EXCEPT ![t] = Ended(task[t], s)]
    BY <1>5 DEF StaleRecovers, Cancel
  <2>2. Ended(task[t], s).status = s
    BY <1>1 DEF Ended, TaskSet
  <2> QED BY <2>1, <2>2, RowIsAbsent
<1>6. CASE Repair(t)
  <2>1. task' = [task EXCEPT ![t] = queued] /\ queued.status = "queued"
    BY <1>1, <1>6 DEF Repair, TaskSet, Ended
  <2> HIDE DEF queued
  <2> QED BY <2>1, RowIsAbsent
<1> QED BY <1>2, <1>3, <1>4, <1>5, <1>6

LEMMA ElsewhereIsAbsent ==
  ASSUME IInv,
         \/ Integrate \/ BootLists \/ BootReplays \/ ToolLook \/ ToolRemove \/ UNCHANGED vars \/ Crash
         \/ \E t \in Task : \/ FinalizeArtifact(t) \/ FinalizeThrows(t) \/ StaleThrows(t) \/ Look(t) \/ Remove(t)
                            \/ ToolCleanup(t) \/ ToolIntegrate(t) \/ ToolFinalize(t) \/ ToolQuarantine(t) \/ UserEdits(t)
                            \/ StaleTakes(t)
  PROVE  BlockedAreAbsent
<1>1. CASE Integrate
  <2>1. UNCHANGED task
    BY <1>1 DEF Integrate, Begin, Detect, MarkApplying, Apply, Block, MarkApplied, Record, Recorded, Quiet
  <2> QED BY <2>1, NoneIsAbsent
<1>2. CASE BootLists \/ BootReplays \/ ToolLook \/ ToolRemove \/ UNCHANGED vars
  BY <1>2, NoneIsAbsent DEF BootLists, BootReplays, ToolLook, ToolRemove, CleanupSame, vars
<1>3. ASSUME NEW t \in Task, FinalizeArtifact(t) \/ FinalizeThrows(t) \/ StaleThrows(t) \/ Look(t) \/ Remove(t)
      PROVE  BlockedAreAbsent
  BY <1>3, NoneIsAbsent DEF FinalizeArtifact, FinalizeThrows, StaleThrows, Look, Remove, CleanupSame
<1>4. ASSUME NEW t \in Task, \/ ToolCleanup(t) \/ ToolIntegrate(t) \/ ToolFinalize(t) \/ ToolQuarantine(t)
                             \/ UserEdits(t)
      PROVE  BlockedAreAbsent
  BY <1>4, NoneIsAbsent DEF ToolCleanup, ToolIntegrate, ToolFinalize, ToolQuarantine, UserEdits
<1>5. ASSUME NEW t \in Task, StaleTakes(t) PROVE BlockedAreAbsent
  <2>1. CASE task' = task
    BY <2>1, NoneIsAbsent
  <2>2. CASE task' = [task EXCEPT ![t].result.hydrated = "complete"]
    <3>1. \A u \in Task : task'[u].status = task[u].status
      BY <2>2, TaskFacts DEF Shape, TaskSet
    <3> QED BY <3>1, NoneIsAbsent
  <2> QED BY <1>5, <2>1, <2>2 DEF StaleTakes
<1>6. CASE Crash
  <2>1. task' = [t \in Task |-> [task[t] EXCEPT !.claim = IF @ = "live" THEN "gone" ELSE @,
                                               !.review = IF task[t].status \in Success THEN @ ELSE NoResult]]
    BY <1>6 DEF Crash
  <2>2. ASSUME NEW t \in Task PROVE task'[t].status = task[t].status
    BY <2>1, TaskFacts DEF TaskSet
  <2> QED BY <2>2, NoneIsAbsent
<1> QED BY <1>1, <1>2, <1>3, <1>4, <1>5, <1>6

LEMMA Couple == ASSUME NEW i, NEW j, i # j PROVE Cardinality({i} \cup {j}) = 2
<1>1. IsFiniteSet({i}) /\ Cardinality({i}) = 1
  BY FS_Singleton
<1>2. Cardinality({i} \cup {j}) = Cardinality({i}) + 1
  BY <1>1, FS_AddElement
<1> QED BY <1>1, <1>2

\* Two journals are more than one.
LEMMA SoleOrMore == ASSUME IInv, NEW t \in Task PROVE Sole(t) \/ Cardinality(JournalsOf(t)) > 1
<1> SUFFICES ASSUME NEW i \in JournalsOf(t), NEW j \in JournalsOf(t), i # j PROVE Cardinality(JournalsOf(t)) > 1
  BY DEF Sole
<1>1. IsFiniteSet(JournalsOf(t))
  <2>1. Len(journal) \in Int /\ 1 \in Int
    BY QueueTypes
  <2>2. IsFiniteSet(1..Len(journal)) /\ JournalsOf(t) \in SUBSET (1..Len(journal))
    BY <2>1, FS_Interval DEF JournalsOf
  <2> QED BY <2>2, FS_Subset
<1>3. Cardinality({i} \cup {j}) = 2
  BY Couple
<1>4. {i} \cup {j} \in SUBSET JournalsOf(t)
  OBVIOUS
<1>5. 2 <= Cardinality(JournalsOf(t)) /\ Cardinality(JournalsOf(t)) \in Nat
  BY <1>1, <1>3, <1>4, FS_Subset, FS_CardinalityType
<1> QED BY <1>5

\* A Task is reported as blocked - by its worker or by the recovery of integrations at start-up - only while
\* the edits of its last attempt are not in the destination, whatever call of git a crash fell into; two
\* journals and the user's own edits of the lines apart.  Careful: the user's tool calls and the attempts of
\* a Task do not overlap.
THEOREM BlockedAreUnapplied == Careful => (Spec => BlockedIsUnapplied)
<1> SUFFICES ASSUME Careful PROVE Spec => BlockedIsUnapplied
  OBVIOUS
<1>1. ASSUME IInv, BInv, [Next]_vars PROVE BlockedAreAbsent
  <2>1. CASE Integrate BY <1>1, <2>1, ElsewhereIsAbsent
  <2>2. CASE Boot BY <1>1, <2>2, ElsewhereIsAbsent, BootSettlesIsAbsent DEF Boot
  <2>3. CASE User BY <1>1, <2>3, ElsewhereIsAbsent, OthersAreAbsent DEF User
  <2>4. CASE Crash BY <1>1, <2>4, ElsewhereIsAbsent
  <2>5. ASSUME NEW t \in Task, Worker(t) PROVE BlockedAreAbsent
    BY <1>1, <2>5, ElsewhereIsAbsent, OthersAreAbsent, JudgeIsAbsent, ValidateIsAbsent, FinishIsAbsent,
       CatchIsAbsent DEF Worker
  <2>6. ASSUME NEW t \in Task, TurnEnds(t) \/ PrepareFails(t) PROVE BlockedAreAbsent
    BY <1>1, <2>6, OthersAreAbsent
  <2>7. CASE UNCHANGED vars BY <1>1, <2>7, ElsewhereIsAbsent
  <2> QED BY <1>1, <2>1, <2>2, <2>3, <2>4, <2>5, <2>6, <2>7 DEF Next
<1>2. IInv /\ BInv /\ [Next]_vars =>
        [\A t \in Task : task'[t].status = "integration_blocked" /\ task[t].status # "integration_blocked" =>
           Cardinality(JournalsOf(t)) > 1 \/ task[t].attempt \notin dest.edits[t] \/ dest.touched[t] # "no"]_vars
  <2> SUFFICES ASSUME IInv, BInv, [Next]_vars, NEW t \in Task, task'[t].status = "integration_blocked",
                      task[t].status # "integration_blocked"
               PROVE  Cardinality(JournalsOf(t)) > 1 \/ task[t].attempt \notin dest.edits[t] \/ dest.touched[t] # "no"
    OBVIOUS
  <2>1. SoleOrAbsent(t)
    BY <1>1 DEF BlockedAreAbsent
  <2> QED BY <2>1, SoleOrMore DEF SoleOrAbsent, Reaches, Last
<1>3. IInv /\ BInv /\ [Next]_vars => BInv'
  BY NextReplays
<1> QED BY <1>2, <1>3, InitReplays, IInvHolds, PTL DEF Spec, BlockedIsUnapplied
=============================================================================
