------------------------------- MODULE Leases -------------------------------
(***************************************************************************)
(* Who may use a directory and a thread.  A worker (#runTask) takes three  *)
(* leases on its way to a turn: the allocation lease of its directory      *)
(* while it selects or creates a thread, the writer lease of its           *)
(* workspace, and the lease of the thread.  They are rows that survive the *)
(* daemon; a row names its owner and the token of the claim that took it.  *)
(* Time is abstracted to whether a row is past its expires_at: a Stall     *)
(* lets every active row run out, a heartbeat that comes in time renews it.*)
(***************************************************************************)
EXTENDS Naturals, FiniteSets

CONSTANTS
  Task,
  Thread,         \* threads of the directory; unknown ones can be created
  Managed,        \* the threads registered at the start
  KeyOf,          \* the workspace lease a Task needs, NoKey for none
  NoKey,
  NoThread,
  NoTask,
  Worktree,       \* Tasks whose worktree is cleaned up at the end
  Ephemeral,      \* Tasks that run in a thread of their own, archived afterwards
  Pinned,         \* the thread a Task names itself, NoThread for the router's choice
  MaxFaults       \* bound: crashes, stalls, cancellations, repairs, rows freed by hand, archivals

ASSUME LeasesAssumption ==
  /\ Managed \subseteq Thread /\ NoThread \notin Thread /\ NoTask \notin Task
  /\ KeyOf \in [Task -> STRING] /\ NoKey \in STRING /\ \A t \in Task : KeyOf[t] # "allocation"
  /\ Worktree \subseteq Task /\ Ephemeral \subseteq Task /\ MaxFaults \in Nat
  /\ Pinned \in [Task -> Thread \cup {NoThread}]

VARIABLES
  task,       \* the tasks table: status, whether claimed, bound thread, waitingSince
  lease,      \* worktree_leases: the allocation lease and the workspace leases
  tlease,     \* agent_leases
  thread,     \* agents and thread_lifecycle
  work,       \* #runTask calls of this process
  moving,     \* #setAgentArchived calls that wait for the App Server
  faults      \* how many of the MaxFaults there were

vars == <<task, lease, tlease, thread, work, moving, faults>>

Key == {"allocation"} \cup ({KeyOf[t] : t \in Task} \ {NoKey})
RunningStatus == {"running"}      \* stands for every ACTIVE_TASK_STATUSES
Claimables == {"queued", "retry_waiting", "waiting_for_lease"}
TerminalStatus == {"completed", "failed", "canceled", "recovery_attention"}
Claims == {"claimed", "inspecting", "routing", "opening", "running", "settling",
           "yielding", "cleaning", "tidying"}

\* The token of a row: that of the last claim of its owner, taken by this process ("live")
\* or by one that is gone, or that of an earlier claim ("stale").
Lease == [status : {"active", "released", "expired"}, owner : Task \cup {NoTask},
          token : {"none", "live", "gone", "stale"}, past : BOOLEAN]
Free == [status |-> "released", owner |-> NoTask, token |-> "none", past |-> FALSE]
IdleWork == [pc |-> "idle", agent |-> NoThread, lost |-> FALSE, final |-> FALSE]

TypeOK ==
  /\ task \in [Task -> [status : Claimables \cup RunningStatus \cup TerminalStatus,
                        claimed : BOOLEAN, agent : Thread \cup {NoThread},
                        since : {"none", "recent", "old"}]]
  /\ lease \in [Key -> Lease] /\ tlease \in [Thread -> Lease]
  /\ thread \in [Thread -> [known : BOOLEAN, busy : BOOLEAN, archived : BOOLEAN, ephemeral : BOOLEAN,
                            life : {"candidate", "active", "idle", "compacted", "archived"}]]
  /\ work \in [Task -> [pc : {"idle"} \cup Claims, agent : Thread \cup {NoThread},
                        lost : BOOLEAN, final : BOOLEAN]]
  /\ moving \in [Thread -> {"no", "archive", "unarchive"}]
  /\ faults \in 0..MaxFaults

Init ==
  /\ task = [t \in Task |-> [status |-> "queued", claimed |-> FALSE, agent |-> NoThread, since |-> "none"]]
  /\ lease = [k \in Key |-> Free] /\ tlease = [a \in Thread |-> Free]
  /\ thread = [a \in Thread |-> [known |-> a \in Managed, busy |-> FALSE, archived |-> FALSE,
                                 ephemeral |-> FALSE,
                                 life |-> IF a \in Managed THEN "idle" ELSE "candidate"]]
  /\ work = [t \in Task |-> IdleWork]
  /\ moving = [a \in Thread |-> "no"]
  /\ faults = 0

-----------------------------------------------------------------------------
\* Lease rows

Held(row) == row.status \in {"active", "expired"}
Current(row) == row.status = "active" /\ ~row.past
TakenBy(t) == [status |-> "active", owner |-> t, token |-> "live", past |-> FALSE]
Of(row, t) == row.owner = t /\ row.token \in {"live", "gone"}      \* its token is that of t's last claim

GivenUpOrExpired(row) == row.status # "active"      \* mutant: an expired row is taken over

\* acquireLease takes a row over only when its owner has released it.
GivenUp(row) == row.status = "released"

\* acquireAgentLease also takes over a row that is past its time.
Available(row) == row.status # "active" \/ row.past

\* releaseLease names the owner and its token; releaseAgentLease leaves an expired row alone.
ReleasedBy(t) == [x \in Key |-> IF Of(lease[x], t) /\ Held(lease[x]) THEN Free ELSE lease[x]]
ReleasedThreads(t) ==
  [a \in Thread |-> IF Of(tlease[a], t) /\ tlease[a].status = "active" THEN Free ELSE tlease[a]]
ReleasedAllocation(t) ==
  [lease EXCEPT !["allocation"] = IF Of(@, t) /\ Held(@) THEN Free ELSE @]

Lost(row) == [row EXCEPT !.status = "lost"]      \* mutant: a status assertLeaseStatus refuses

Expire(row) == [row EXCEPT !.status = "expired", !.past = FALSE]

\* listLeases turns every active row that is past its time into an expired one.
Listed(rows) ==
  [x \in DOMAIN rows |-> IF rows[x].status = "active" /\ rows[x].past THEN Expire(rows[x]) ELSE rows[x]]

Renewable(row, t) == row.status = "active" /\ Of(row, t)

Renewed(rows, x, t) ==
  IF x \in DOMAIN rows /\ Renewable(rows[x], t) THEN [rows EXCEPT ![x].past = FALSE] ELSE rows

-----------------------------------------------------------------------------
\* Threads

\* updateAgent: the lifecycle follows the status as long as the thread is not retired.
WithStatus(row, busy) ==
  [row EXCEPT !.busy = busy,
              !.life = IF @ \in {"candidate", "active", "idle"} THEN IF busy THEN "active" ELSE "idle" ELSE @]

SetIdle(threads, as) ==
  [a \in Thread |-> IF a \in as /\ threads[a].known THEN WithStatus(threads[a], FALSE) ELSE threads[a]]

\* recoverExpiredAgentLeases
Overdue == {a \in Thread : tlease[a].status = "active" /\ tlease[a].past}
Lapsed == [a \in Thread |-> IF a \in Overdue THEN Expire(tlease[a]) ELSE tlease[a]]
Recovered == SetIdle(thread, {a \in Overdue : thread[a].busy})

Unresolved(a) ==
  \E t \in Task : task[t].agent = a /\ task[t].status \notin {"completed", "failed", "canceled"}
Working(a) == \E t \in Task : task[t].agent = a /\ task[t].status \in RunningStatus

\* The refusals of archiveAgent, after it has called recoverExpiredAgentLeases.
MayArchive(a) ==
  /\ ~Current(tlease[a])
  /\ ~Unresolved(a)
  /\ ~Recovered[a].busy
  /\ Recovered[a].life \in {"candidate", "idle", "compacted"}

MayUnarchive(a) == ~Current(tlease[a]) /\ ~thread[a].busy /\ ~Working(a)

-----------------------------------------------------------------------------
\* Claims

Owns(t) == work[t].pc # "idle" /\ task[t].claimed

\* A new claim has a new token: what an earlier claim has left is no longer its own.
Outdated(rows, t) ==
  [x \in DOMAIN rows |-> IF rows[x].owner = t THEN [rows[x] EXCEPT !.token = "stale"] ELSE rows[x]]

Claim(t) ==
  /\ work[t].pc = "idle" /\ task[t].status \in Claimables
  /\ task' = [task EXCEPT ![t].status = "running", ![t].claimed = TRUE]
  /\ work' = [work EXCEPT ![t].pc = "claimed"]
  /\ lease' = Outdated(lease, t) /\ tlease' = Outdated(tlease, t)
  /\ UNCHANGED <<thread, moving>>

Restarted(since) == "recent"      \* mutant: every wait starts its deadline anew

\* waitClaimForLease stores the beginning of the first wait, and keeps it.
Since(since) == IF since = "none" THEN "recent" ELSE since

WaitingRow(row) ==
  LET since == Since(row.since)
  IN  IF since = "old" THEN [row EXCEPT !.status = "recovery_attention", !.claimed = FALSE]
      ELSE [row EXCEPT !.status = "waiting_for_lease", !.claimed = FALSE, !.since = since]

Waited(t) == IF Owns(t) THEN [task EXCEPT ![t] = WaitingRow(@)] ELSE task

\* The worker gives its Task back to the queue; finally releases the allocation lease.
Wait(t) ==
  /\ task' = Waited(t)
  /\ lease' = ReleasedBy(t)
  /\ work' = [work EXCEPT ![t] = IdleWork]
  /\ UNCHANGED <<tlease, thread, moving>>

\* transitionThreadLifecycle compacts a thread only when nothing is open on it.
Settled == {a \in Thread : ~Current(tlease[a]) /\ ~Unresolved(a)}

\* #settleAgentAfterTask: the thread becomes idle, the ephemeral thread of a Task that has
\* ended is compacted, and its archival begins.
SettleThread(threads, a, final) ==
  LET idle == SetIdle(threads, {a})
      retire == /\ a # NoThread /\ final
                /\ idle[a].ephemeral /\ idle[a].life \in {"idle", "compacted"} /\ a \in Settled'
  IN  /\ thread' = IF retire THEN [idle EXCEPT ![a].life = "compacted"] ELSE idle
      /\ moving' = IF retire THEN [moving EXCEPT ![a] = "archive"] ELSE moving

\* The catch of #runTask for a worker that has thread a, given the tables so far.  Without
\* the claim it leaves the workspace lease alone.  A worktree is cleaned up before finally
\* releases the allocation lease.
Fail(t, a, threads, rows) ==
  /\ tlease' = ReleasedThreads(t)
  /\ \E s \in {"failed", "retry_waiting"} :
       LET tidy == t \in Worktree /\ (Owns(t) => s # "retry_waiting")
           kept == (IF tidy THEN {"allocation"} ELSE {}) \cup (IF Owns(t) THEN {} ELSE {KeyOf[t]})
           final == Owns(t) /\ s = "failed"
       IN  /\ task' = IF Owns(t) THEN [task EXCEPT ![t].status = s, ![t].claimed = FALSE] ELSE task
           /\ lease' = [x \in Key |-> IF x \in kept THEN rows[x] ELSE ReleasedBy(t)[x]]
           /\ IF tidy
                THEN /\ work' = [work EXCEPT ![t] = [IdleWork EXCEPT !.pc = "tidying", !.agent = a,
                                                                     !.final = final]]
                     /\ thread' = threads /\ UNCHANGED moving
                ELSE /\ work' = [work EXCEPT ![t] = IdleWork]
                     /\ SettleThread(threads, a, final)

Throw(t) == Fail(t, NoThread, thread, lease)
ThrowWith(t) == Fail(t, work[t].agent, thread, lease)

Tidy(t) ==
  /\ work[t].pc = "tidying"
  /\ UNCHANGED <<task, tlease>>
  /\ SettleThread(thread, work[t].agent, work[t].final)
  /\ lease' = ReleasedAllocation(t)
  /\ work' = [work EXCEPT ![t] = IdleWork]

-----------------------------------------------------------------------------
\* The worker, from await to await

TakeAllocation(t) ==
  /\ work[t].pc = "claimed"
  /\ IF GivenUp(lease["allocation"])
       THEN /\ lease' = [lease EXCEPT !["allocation"] = TakenBy(t)]
            /\ work' = [work EXCEPT ![t].pc = "inspecting"]
            /\ UNCHANGED <<task, tlease, thread, moving>>
       ELSE Wait(t)

TakeWorkspace(t) ==
  /\ work[t].pc = "inspecting"
  /\ \/ /\ KeyOf[t] = NoKey
        /\ work' = [work EXCEPT ![t].pc = "routing"]
        /\ UNCHANGED <<task, lease, tlease, thread, moving>>
     \/ /\ KeyOf[t] # NoKey /\ Owns(t) /\ GivenUp(lease[KeyOf[t]])
        /\ lease' = [lease EXCEPT ![KeyOf[t]] = TakenBy(t)]
        /\ work' = [work EXCEPT ![t].pc = "routing"]
        /\ UNCHANGED <<task, tlease, thread, moving>>
     \/ KeyOf[t] # NoKey /\ Owns(t) /\ ~GivenUp(lease[KeyOf[t]]) /\ Wait(t)
     \/ KeyOf[t] # NoKey /\ ~Owns(t) /\ Throw(t)
     \/ Throw(t)      \* the worktree cannot be prepared

Take(t, a) ==
  /\ tlease' = [tlease EXCEPT ![a] = TakenBy(t)]
  /\ work' = [work EXCEPT ![t].pc = "opening", ![t].agent = a]
  /\ UNCHANGED <<task, lease, thread, moving>>

\* The router considers the threads that are not archived or retired; between its answer
\* and the thread lease nothing is awaited.
Reuse(t) ==
  \E a \in Thread :
    /\ thread[a].known /\ ~thread[a].archived /\ ~thread[a].busy
    /\ thread[a].life \notin {"compacted", "archived"} /\ t \notin Ephemeral
    /\ Available(tlease[a]) /\ Take(t, a)

\* A thread the Task names is leased whatever has become of it.
ReusePinned(t) == thread[Pinned[t]].known /\ Available(tlease[Pinned[t]]) /\ Take(t, Pinned[t])

\* spawn, or fork of a thread that is busy
Create(t) ==
  \E a \in Thread :
    /\ ~thread[a].known /\ \A u \in Task : work[u].agent # a
    /\ work' = [work EXCEPT ![t].pc = "opening", ![t].agent = a]
    /\ UNCHANGED <<task, lease, tlease, thread, moving>>

\* No capacity: the workspace lease is released before the cleanup of the worktree.
Yield(t) ==
  IF t \in Worktree
  THEN /\ lease' = [x \in Key |-> IF x = "allocation" THEN lease[x] ELSE ReleasedBy(t)[x]]
       /\ work' = [work EXCEPT ![t].pc = "yielding"]
       /\ UNCHANGED <<task, tlease, thread, moving>>
  ELSE Wait(t)

Route(t) ==
  /\ work[t].pc = "routing"
  /\ \/ /\ task[t].status \notin TerminalStatus
        /\ IF Pinned[t] = NoThread THEN Reuse(t) \/ Create(t) ELSE ReusePinned(t) \/ Create(t)
     \/ Pinned[t] = NoThread /\ Yield(t)
     \/ Throw(t)      \* blocked, or beginThreadAcquisition finds the Task terminal

Yielded(t) == work[t].pc = "yielding" /\ Wait(t)

\* The thread is there: it is stored, the allocation lease is released, a new thread is
\* leased, and the claim is bound to it; or the claim or the new thread is lost.
Opened(t) ==
  LET a == work[t].agent
      new == ~thread[a].known
      stored == IF ~new THEN thread
                ELSE [thread EXCEPT ![a].known = TRUE, ![a].ephemeral = t \in Ephemeral, ![a].life = "idle"]
  IN  IF Owns(t) /\ (new => Available(tlease[a]))
      THEN /\ lease' = ReleasedAllocation(t)
           /\ tlease' = IF new THEN [tlease EXCEPT ![a] = TakenBy(t)] ELSE tlease
           /\ thread' = [stored EXCEPT ![a] = WithStatus(@, TRUE)]
           /\ task' = [task EXCEPT ![t].agent = a]
           /\ work' = [work EXCEPT ![t].pc = "running"]
           /\ UNCHANGED moving
      ELSE Fail(t, a, stored, ReleasedAllocation(t))

\* acquireThread rejects or finds its dispatch cancelled, the allocation was lost while it
\* ran, or the worker goes on with the thread.
Open(t) ==
  /\ work[t].pc = "opening"
  /\ \/ Throw(t)
     \/ work[t].lost /\ thread[work[t].agent].known /\ ThrowWith(t)
     \/ ~work[t].lost /\ Opened(t)

\* Every 15 seconds while the allocation lease is held; "lost" stops the worker later.
AllocationBeat(t) ==
  /\ work[t].pc \in {"inspecting", "routing", "opening"}
  /\ lease' = Renewed(lease, "allocation", t)
  /\ work' = [work EXCEPT ![t].lost = @ \/ ~Owns(t) \/ ~Renewable(lease["allocation"], t)]
  /\ UNCHANGED <<task, tlease, thread, moving>>

\* Every 15 seconds from the binding to the end.  Each renewal asks for the one before.
Beat(t) ==
  LET a == work[t].agent
      space == KeyOf[t] = NoKey \/ Renewable(lease[KeyOf[t]], t)
  IN  /\ work[t].pc \in {"running", "settling"}
      /\ lease' = IF Owns(t) THEN Renewed(lease, KeyOf[t], t) ELSE lease
      /\ tlease' = IF Owns(t) /\ space THEN Renewed(tlease, a, t) ELSE tlease
      /\ work' = [work EXCEPT ![t].lost = @ \/ ~Owns(t) \/ ~space \/ ~Renewable(tlease[a], t)]
      /\ UNCHANGED <<task, thread, moving>>

\* The claim is settled, then the leases are released; a worktree that is not kept for a
\* later attempt is removed in between.
Settle(t, statuses, keep) ==
  IF ~Owns(t) THEN ThrowWith(t)
  ELSE \E s \in statuses :
         LET final == s \in TerminalStatus
         IN  /\ task' = [task EXCEPT ![t].status = s, ![t].claimed = FALSE]
             /\ lease' = ReleasedBy(t)
             /\ IF t \in Worktree /\ s \notin keep
                  THEN /\ work' = [work EXCEPT ![t].pc = "cleaning", ![t].final = final]
                       /\ UNCHANGED <<tlease, thread, moving>>
                  ELSE /\ work' = [work EXCEPT ![t] = IdleWork]
                       /\ tlease' = ReleasedThreads(t)
                       /\ SettleThread(thread, work[t].agent, final)

Orphaned(rows, ts) ==
  [x \in DOMAIN rows |-> IF rows[x].token = "live" /\ rows[x].owner \in ts
                         THEN [rows[x] EXCEPT !.token = "gone"] ELSE rows[x]]

\* The dispatcher finds a Turn of this Task that is still active: the worker goes and leaves
\* the claim and the leases to the reconciliation.
Defer(t) ==
  /\ work' = [work EXCEPT ![t] = IdleWork]
  /\ lease' = Orphaned(lease, {t}) /\ tlease' = Orphaned(tlease, {t})
  /\ UNCHANGED <<task, thread, moving>>

\* The turn returns, or fails.  A worker whose heartbeat was refused does not look at it.
TurnEnds(t) ==
  /\ work[t].pc = "running"
  /\ \/ ThrowWith(t) \/ Defer(t)
     \/ /\ ~work[t].lost
        /\ \/ Settle(t, {"failed", "retry_waiting", "recovery_attention"}, {"retry_waiting", "recovery_attention"})
           \/ /\ work' = [work EXCEPT ![t].pc = "settling"]
              /\ UNCHANGED <<task, lease, tlease, thread, moving>>

\* After validation and integration.
Complete(t) ==
  /\ work[t].pc = "settling"
  /\ \/ Settle(t, {"completed", "failed", "retry_waiting", "recovery_attention"}, {"retry_waiting"})
     \/ ThrowWith(t)

Clean(t) ==
  /\ work[t].pc = "cleaning"
  /\ tlease' = ReleasedThreads(t)
  /\ UNCHANGED <<task, lease>>
  /\ SettleThread(thread, work[t].agent, work[t].final)
  /\ work' = [work EXCEPT ![t] = IdleWork]

Worker(t) ==
  \/ TakeAllocation(t) \/ TakeWorkspace(t) \/ Route(t) \/ Yielded(t) \/ Open(t)
  \/ TurnEnds(t) \/ Complete(t) \/ Clean(t) \/ Tidy(t)

-----------------------------------------------------------------------------
\* The user and the operator

ForgetsLeases(rows, t) == rows      \* mutant: a cancelled Task keeps its leases

\* cancelTask releases every lease of the Task, also of earlier claims, and its threads become idle.
CancelledRows(rows, t) ==
  [x \in DOMAIN rows |-> IF rows[x].owner = t /\ Held(rows[x]) THEN Free ELSE rows[x]]

Cancel(t) ==
  LET own == {a \in Thread : tlease[a].status = "active" /\ tlease[a].owner = t}
  IN  /\ task[t].status \notin TerminalStatus
      /\ task' = [task EXCEPT ![t].status = "canceled", ![t].claimed = FALSE]
      /\ lease' = CancelledRows(Listed(lease), t)
      /\ tlease' = [a \in Thread |-> IF a \in own THEN Free ELSE tlease[a]]
      /\ thread' = SetIdle(thread, own \cup ({task[t].agent} \ {NoThread}))
      /\ UNCHANGED <<work, moving>>

Repair(t) ==
  /\ task[t].status \in {"failed", "canceled", "recovery_attention"}
  /\ task' = [task EXCEPT ![t].status = "queued"]
  /\ UNCHANGED <<lease, tlease, thread, work, moving>>

\* list_worktree_leases
List == lease' = Listed(lease) /\ UNCHANGED <<task, tlease, thread, work, moving>>

\* release_worktree_lease: an operator frees what a process that is gone has left.
OperatorRelease(k) ==
  /\ Held(lease[k]) /\ lease[k].token \in {"gone", "stale"}
  /\ lease' = [lease EXCEPT ![k] = Free]
  /\ UNCHANGED <<task, tlease, thread, work, moving>>

\* #setAgentArchived: the checks, the call to the App Server, the checks again.
BeginArchive(a) ==
  /\ thread[a].known /\ ~thread[a].archived /\ moving[a] = "no" /\ MayArchive(a)
  /\ tlease' = Lapsed /\ thread' = Recovered
  /\ moving' = [moving EXCEPT ![a] = "archive"]
  /\ UNCHANGED <<task, lease, work>>

Unchecked(a) == TRUE      \* mutant: nothing is looked at after the App Server's answer

StillArchivable(a) == MayArchive(a)

FinishArchive(a) ==
  /\ moving[a] = "archive"
  /\ moving' = [moving EXCEPT ![a] = "no"]
  /\ \/ UNCHANGED <<tlease, thread>>      \* the App Server refuses
     \/ /\ tlease' = Lapsed
        /\ thread' = IF thread[a].archived \/ ~StillArchivable(a) THEN Recovered
                     ELSE [Recovered EXCEPT ![a].archived = TRUE, ![a].life = "archived"]
  /\ UNCHANGED <<task, lease, work>>

BeginUnarchive(a) ==
  /\ thread[a].archived /\ moving[a] = "no" /\ MayUnarchive(a)
  /\ moving' = [moving EXCEPT ![a] = "unarchive"]
  /\ UNCHANGED <<task, lease, tlease, thread, work>>

FinishUnarchive(a) ==
  /\ moving[a] = "unarchive"
  /\ moving' = [moving EXCEPT ![a] = "no"]
  /\ thread' = IF thread[a].archived /\ MayUnarchive(a)
               THEN [thread EXCEPT ![a].archived = FALSE, ![a].life = "idle"] ELSE thread
  /\ UNCHANGED <<task, lease, tlease, work>>

-----------------------------------------------------------------------------
\* Time, crashes and recovery

Stall ==
  /\ lease' = [k \in Key |-> IF lease[k].status = "active" THEN [lease[k] EXCEPT !.past = TRUE] ELSE lease[k]]
  /\ tlease' = [a \in Thread |-> IF tlease[a].status = "active" THEN [tlease[a] EXCEPT !.past = TRUE] ELSE tlease[a]]
  /\ UNCHANGED <<task, thread, work, moving>>

\* A wait reaches the execution timeout of its Task.
Age(t) ==
  /\ task[t].since = "recent"
  /\ task' = [task EXCEPT ![t].since = "old"]
  /\ UNCHANGED <<lease, tlease, thread, work, moving>>

\* The first step of a poll, and of a constructor.
ExpireThreads ==
  /\ tlease' = Lapsed /\ thread' = Recovered
  /\ UNCHANGED <<task, lease, work, moving>>

Crash ==
  /\ work' = [t \in Task |-> IdleWork]
  /\ moving' = [a \in Thread |-> "no"]
  /\ lease' = Orphaned(lease, Task) /\ tlease' = Orphaned(tlease, Task)
  /\ UNCHANGED <<task, thread>>

\* recoverInterruptedTasks, or reconcileStaleTasks that has read the end of the turn: only
\* the latter releases a lease, that of the thread.
Recover(t) ==
  /\ work[t].pc = "idle" /\ task[t].status \in RunningStatus
  /\ \/ /\ \E s \in {"queued", "recovery_attention", "failed"} :
             task' = [task EXCEPT ![t].status = s, ![t].claimed = FALSE]
        /\ UNCHANGED <<tlease, thread>>
     \/ /\ task[t].agent # NoThread
        /\ \E s \in {"completed", "failed", "retry_waiting", "recovery_attention"} :
             task' = [task EXCEPT ![t].status = s, ![t].claimed = FALSE]
        /\ tlease' = [tlease EXCEPT ![task[t].agent] =
             IF @.status = "active" /\ Of(@, t) THEN Free ELSE @]
        /\ thread' = SetIdle(thread, {task[t].agent})
  /\ UNCHANGED <<lease, work, moving>>

Fault ==
  /\ faults < MaxFaults /\ faults' = faults + 1
  /\ \/ Stall \/ Crash
     \/ \E t \in Task : Cancel(t) \/ Repair(t)
     \/ \E k \in Key : OperatorRelease(k)
     \/ \E a \in Thread : BeginArchive(a) \/ BeginUnarchive(a)

Calm ==
  /\ UNCHANGED faults
  /\ \/ \E t \in Task : \/ Claim(t) \/ Worker(t) \/ AllocationBeat(t) \/ Beat(t)
                        \/ Age(t) \/ Recover(t)
     \/ \E a \in Thread : FinishArchive(a) \/ FinishUnarchive(a)
     \/ List \/ ExpireThreads

Next == Fault \/ Calm

Spec == Init /\ [][Next]_vars

\* The scheduler polls, a worker goes on, and time passes.
FairSpec ==
  /\ Spec
  /\ \A t \in Task : /\ WF_vars(Claim(t) /\ UNCHANGED faults) /\ WF_vars(Worker(t) /\ UNCHANGED faults)
                     /\ WF_vars(Age(t) /\ UNCHANGED faults)

-----------------------------------------------------------------------------
\* Properties

Allocating(t) == work[t].pc \in {"inspecting", "routing", "opening", "yielding"}
Writing(t) == KeyOf[t] # NoKey /\ work[t].pc \in {"routing", "opening", "running", "settling"}

\* Of the workers that still own their claims, one at a time selects or creates a thread in
\* the directory, and one at a time has a workspace: whatever was cancelled, has expired,
\* was recovered or was freed by hand in between (acquireLease, cancelTask).
RightfulHoldersAreAlone ==
  \A t, u \in Task :
    t # u /\ Owns(t) /\ Owns(u) =>
      /\ ~(Allocating(t) /\ Allocating(u))
      /\ ~(Writing(t) /\ Writing(u) /\ KeyOf[t] = KeyOf[u])

\* Every way out of #runTask, with or without the claim, gives back what the worker took:
\* as long as the daemon lives, a lease names a worker that is still there.
EndedWorkerHoldsNothing ==
  /\ \A k \in Key : Held(lease[k]) /\ lease[k].token = "live" => work[lease[k].owner].pc # "idle"
  /\ \A a \in Thread :
       tlease[a].status = "active" /\ tlease[a].token = "live" => work[tlease[a].owner].pc # "idle"

\* An archived thread is leased to nobody and its lifecycle says so, although the checks
\* of archiveAgent and the App Server's answer are far apart (#setAgentArchived).
ArchivedIsFree ==
  \A a \in Thread : thread[a].archived => thread[a].life = "archived" /\ ~Current(tlease[a])

\* A Task does not wait for leases without end: also a lease that nobody will ever release
\* is given up at the deadline of the first wait (waitClaimForLease).
WaitsAreBounded ==
  \A t \in Task : <>[](task[t].status # "waiting_for_lease")

\* docs/contracts/STABILITY_BOUNDARIES.md:12: a restart recovers the reservation of an
\* allocation through the expiry of its lease.
ReservationRecovers ==
  (lease["allocation"].token \in {"gone", "stale"} /\ lease["allocation"].past)
    ~> lease["allocation"].token \notin {"gone", "stale"}
=============================================================================
