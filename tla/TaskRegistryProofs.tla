------------------------- MODULE TaskRegistryProofs -------------------------
(***************************************************************************)
(* Theorems about TaskRegistry for every value of its constants.  The      *)
(* argument is about rows: Quiet says what one step may do to a row when   *)
(* it neither claims nor repairs it, every action but Poll and Repair is   *)
(* shown to be quiet, and the invariants and the refinement of             *)
(* ClaimLifecycle follow from that.                                        *)
(***************************************************************************)
EXTENDS TaskRegistry, TLAPS

Waiting(row) == row.status \in WaitingTaskStatuses

\* A claim that stands goes on, or gives the Task up.
Ongoing(old, new) == Active(new) /\ new.token = old.token /\ new.attempt = old.attempt

Ending(old, new) ==
  /\ new.token = 0 /\ new.attempt <= old.attempt
  /\ new.status \in (WaitingTaskStatuses \cup TerminalTaskStatuses) \ {"skipped"}

May(old, new) ==
  /\ new \in Row
  /\ Ongoing(old, new) \/ Ending(old, new)
  /\ new.status = "retry_waiting" => new.attempt < new.max

\* A Task that waits is queued, skipped, failed or refused, and stays unowned.
Placed(old, new) ==
  /\ new \in Row /\ new.attempt = old.attempt
  /\ new.token = 0 \/ new.token = old.token
  /\ new.status \in {"blocked", "queued", "skipped"} \cup RepairableTaskStatuses

Quiet(old, new) ==
  \/ new = old
  \/ Active(old) /\ May(old, new)
  \/ Waiting(old) /\ Placed(old, new)

Owned(row) == row.token # 0 <=> Active(row)

\* The invariant: an attempt is counted per token, so attempts stay within their bound.
Rows == \A t \in Task : Owned(task[t]) /\ task[t].attempt <= tok

IInv == TypeOK /\ Rows

-----------------------------------------------------------------------------
\* Statuses and rows

LEMMA Kinds ==
  ASSUME NEW row \in Row
  PROVE  /\ Active(row) \/ Waiting(row) \/ Terminal(row)
         /\ ~ (Active(row) /\ Waiting(row)) /\ ~ (Active(row) /\ Terminal(row))
         /\ ~ (Waiting(row) /\ Terminal(row))
         /\ Terminal(row) <=> Succeeded(row) \/ HasFailed(row) \/ row.status = "skipped"
         /\ ~ (Succeeded(row) /\ HasFailed(row)) /\ ~ (Succeeded(row) /\ row.status = "skipped")
         /\ ~ (HasFailed(row) /\ row.status = "skipped")
<1>1. row.status \in TaskStatuses
  BY DEF Row
<1> QED BY <1>1 DEF Active, Waiting, Terminal, Succeeded, HasFailed, TaskStatuses, ActiveTaskStatuses,
     WaitingTaskStatuses, TerminalTaskStatuses, SuccessfulTaskStatuses, FailedTaskStatuses,
     RepairableTaskStatuses

LEMMA Bounds == Token \subseteq Nat /\ Attempt \subseteq Nat /\ 0 \in Token /\ 0 \in Attempt
BY RegistryAssumption DEF Token, Attempt

LEMMA StatusRow ==
  ASSUME NEW row \in Row, NEW status \in TaskStatuses
  PROVE  LET new == [row EXCEPT !.status = status]
         IN  /\ new \in Row /\ new.status = status /\ new.token = row.token
             /\ new.attempt = row.attempt /\ new.max = row.max
BY DEF Row

LEMMA TurnRow ==
  ASSUME NEW row \in Row, NEW turn \in Token
  PROVE  LET new == [row EXCEPT !.turn = turn]
         IN  /\ new \in Row /\ new.status = row.status /\ new.token = row.token
             /\ new.attempt = row.attempt /\ new.max = row.max
BY DEF Row

LEMMA ReleasedRow ==
  ASSUME NEW row \in Row, NEW status \in TaskStatuses
  PROVE  LET new == Released(row, status)
         IN  /\ new \in Row /\ new.status = status /\ new.token = 0
             /\ new.attempt = row.attempt /\ new.max = row.max
BY Bounds DEF Row, Released

\* Giving the claim up with an end that asks for no retry is always allowed.
LEMMA ReleasedMay ==
  ASSUME NEW row \in Row, NEW status \in (WaitingTaskStatuses \cup TerminalTaskStatuses) \ {"skipped"},
         status = "retry_waiting" => row.attempt < row.max
  PROVE  May(row, Released(row, status))
<1>1. status \in TaskStatuses
  BY DEF TaskStatuses
<1>2. row.attempt \in Nat
  BY Bounds DEF Row
<1> QED BY <1>1, <1>2, ReleasedRow DEF May, Ending

LEMMA FailureMay ==
  ASSUME NEW row \in Row, NEW terminals \in SUBSET FailedTaskStatuses, NEW new \in FailureRows(row, terminals)
  PROVE  May(row, new)
<1>1. CASE new \in RetryRows(row)
  <2>1. row.attempt < row.max /\ new = Released(row, "retry_waiting")
    BY <1>1 DEF RetryRows
  <2> QED BY <2>1, ReleasedMay DEF WaitingTaskStatuses
<1>2. CASE new \in {Released(row, s) : s \in terminals}
  <2>1. PICK s \in terminals : new = Released(row, s)
    BY <1>2
  <2>2. s \in TerminalTaskStatuses \ {"skipped"} /\ s # "retry_waiting"
    BY DEF FailedTaskStatuses, TerminalTaskStatuses
  <2> QED BY <2>1, <2>2, ReleasedMay
<1> QED BY <1>1, <1>2 DEF FailureRows

\* The same after the turn was stored.
LEMMA MayAfterTurn ==
  ASSUME NEW row \in Row, NEW turn \in Token, NEW new, May([row EXCEPT !.turn = turn], new)
  PROVE  May(row, new)
BY TurnRow DEF May, Ongoing, Ending

LEMMA WaitMay == ASSUME NEW row \in Row PROVE May(row, WaitRow(row))
<1> DEFINE r == Released(row, "waiting_for_lease")
<1>1. /\ r \in Row /\ r.status = "waiting_for_lease" /\ r.token = 0 /\ r.attempt = row.attempt
  BY ReleasedRow DEF TaskStatuses, WaitingTaskStatuses
<1>2. WaitRow(row) = [r EXCEPT !.attempt = IF r.attempt > 0 THEN r.attempt - 1 ELSE 0]
  BY <1>1 DEF WaitRow, Row
<1>3. r.attempt \in Attempt
  BY <1>1 DEF Row
<1>4. (IF r.attempt > 0 THEN r.attempt - 1 ELSE 0) \in Attempt
  BY <1>3, RegistryAssumption DEF Attempt
<1>5. (IF r.attempt > 0 THEN r.attempt - 1 ELSE 0) <= r.attempt
  BY <1>3, RegistryAssumption DEF Attempt
<1> HIDE DEF r
<1>6. WaitRow(row) \in Row /\ WaitRow(row).status = "waiting_for_lease" /\ WaitRow(row).token = 0
      /\ WaitRow(row).attempt <= row.attempt
  BY <1>1, <1>2, <1>4, <1>5 DEF Row
<1> QED BY <1>6 DEF May, Ending, WaitingTaskStatuses

-----------------------------------------------------------------------------
\* Outcomes

LivePc == {"agent_done", "validating", "integrating", "finishing"}

Sound(row, o) == o.pc \in LivePc /\ May(row, o.row)

LEMMA OngoingMay ==
  ASSUME NEW row \in Row, NEW status \in ActiveTaskStatuses
  PROVE  May(row, [row EXCEPT !.status = status])
<1>1. status \in TaskStatuses /\ status # "retry_waiting"
  BY DEF TaskStatuses, ActiveTaskStatuses
<1> DEFINE new == [row EXCEPT !.status = status]
<1>2. new \in Row /\ new.status = status /\ new.token = row.token /\ new.attempt = row.attempt
  BY <1>1, StatusRow
<1> HIDE DEF new
<1>3. May(row, new)
  BY <1>1, <1>2 DEF May, Ongoing, Active
<1> QED BY <1>3 DEF new

LEMMA EndsSound ==
  ASSUME NEW row, NEW rows, \A new \in rows : May(row, new), NEW o \in Ends(rows)
  PROVE  Sound(row, o)
BY DEF Ends, Outcome, Sound, LivePc

LEMMA DoneMay ==
  ASSUME NEW row \in Row, NEW t, NEW status \in Done(t)
  PROVE  May(row, Released(row, status))
<1>1. /\ status \in (WaitingTaskStatuses \cup TerminalTaskStatuses) \ {"skipped"}
      /\ status # "retry_waiting"
  BY DEF Done, TerminalTaskStatuses, SuccessfulTaskStatuses
<1> QED BY <1>1, ReleasedMay

LEMMA AcceptedSound ==
  ASSUME NEW row \in Row, NEW t, NEW o \in Accepted(t, row, Done(t))
  PROVE  Sound(row, o)
<1>1. CASE t \in Integrates
  <2>1. o = Outcome([row EXCEPT !.status = "integration_pending"], "integrating")
    BY <1>1 DEF Accepted
  <2>2. May(row, [row EXCEPT !.status = "integration_pending"])
    BY OngoingMay DEF ActiveTaskStatuses
  <2> QED BY <2>1, <2>2 DEF Outcome, Sound, LivePc
<1>2. CASE t \notin Integrates
  <2>1. o \in Ends({Released(row, s) : s \in Done(t)})
    BY <1>2 DEF Accepted
  <2>2. \A new \in {Released(row, s) : s \in Done(t)} : May(row, new)
    BY DoneMay
  <2> QED BY <2>1, <2>2, EndsSound
<1> QED BY <1>1, <1>2

LEMMA JudgedSound ==
  ASSUME NEW row \in Row, NEW t, NEW turn \in Token, NEW o \in Judged(t, row, turn)
  PROVE  Sound(row, o)
<1> DEFINE judged == [row EXCEPT !.turn = turn]
<1>1. judged \in Row
  BY TurnRow
<1>2. \A new : May(judged, new) => May(row, new)
  BY MayAfterTurn
<1>3. \A out : Sound(judged, out) => Sound(row, out)
  BY <1>2 DEF Sound
<1>4. CASE o \in Ends(FailureRows(judged, {"failed", "interrupted", "recovery_attention"}))
  <2>1. \A new \in FailureRows(judged, {"failed", "interrupted", "recovery_attention"}) : May(judged, new)
    BY <1>1, FailureMay DEF FailedTaskStatuses
  <2> QED BY <2>1, <1>3, <1>4, EndsSound
<1>5. CASE t \in Criteria /\ o = Outcome([judged EXCEPT !.status = "agent_done"], "agent_done")
  <2>1. May(judged, [judged EXCEPT !.status = "agent_done"])
    BY <1>1, OngoingMay DEF ActiveTaskStatuses
  <2>2. Sound(judged, o)
    BY <2>1, <1>5 DEF Outcome, Sound, LivePc
  <2> QED BY <2>2, <1>3
<1>6. CASE t \notin Criteria /\ o \in Accepted(t, IF t \in Integrates THEN row ELSE judged, Done(t))
  <2>1. CASE t \in Integrates
    BY <2>1, <1>6, AcceptedSound
  <2>2. CASE t \notin Integrates
    <3>1. Sound(judged, o)
      BY <2>2, <1>1, <1>6, AcceptedSound
    <3> QED BY <3>1, <1>3
  <2> QED BY <2>1, <2>2
<1>7. o \in Ends(FailureRows(judged, {"failed", "interrupted", "recovery_attention"}))
             \cup IF t \in Criteria THEN {Outcome([judged EXCEPT !.status = "agent_done"], "agent_done")}
                  ELSE Accepted(t, IF t \in Integrates THEN row ELSE judged, Done(t))
  BY DEF Judged
<1> HIDE DEF judged
<1> QED BY <1>4, <1>5, <1>6, <1>7

LEMMA ValidatedSound ==
  ASSUME NEW row \in Row, NEW t, NEW o \in Validated(t, row)
  PROVE  Sound(row, o)
<1> DEFINE ends == {"rejected", "validation_failed", "blocked_by_policy", "failed", "recovery_attention"}
<1>1. \A new \in FailureRows(row, ends) : May(row, new)
  BY FailureMay DEF FailedTaskStatuses
<1>2. CASE o \in Ends(FailureRows(row, ends))
  BY <1>1, <1>2, EndsSound
<1>3. CASE o \in Accepted(t, row, Done(t))
  BY <1>3, AcceptedSound
<1> QED BY <1>2, <1>3 DEF Validated

LEMMA IntegratedSound ==
  ASSUME NEW row \in Row, NEW t, NEW turn \in Token, NEW o \in Integrated(t, row, turn)
  PROVE  Sound(row, o)
<1> DEFINE kept == IF t \in Criteria THEN row ELSE [row EXCEPT !.turn = turn]
<1>1. kept \in Row
  BY TurnRow
<1>2. \A new : May(kept, new) => May(row, new)
  BY MayAfterTurn
<1> DEFINE rows == FailureRows(kept, {"failed", "recovery_attention"}) \cup {Released(kept, s) : s \in Done(t)}
<1> HIDE DEF kept
<1>3. \A new \in rows : May(kept, new)
  BY <1>1, FailureMay, DoneMay DEF FailedTaskStatuses
<1>4. \A new \in rows : May(row, new)
  BY <1>2, <1>3
<1>5. o \in Ends(rows)
  BY DEF Integrated, kept
<1> QED BY <1>4, <1>5, EndsSound

-----------------------------------------------------------------------------
\* Dependencies and the Run

LEMMA DecideValues ==
  ASSUME NEW t \in Task, NEW rows PROVE Decide(t, rows) \in {"blocked", "queued", "skipped", "failed"}
BY DEF Decide

\* refreshBlockedTasks changes blocked rows only, and only their status.
LEMMA RefreshRows ==
  ASSUME NEW rows \in [Task -> Row], NEW new \in Refreshes(rows)
  PROVE  /\ new \in [Task -> Row]
         /\ \A t \in Task : \/ new[t] = rows[t]
                            \/ /\ rows[t].status = "blocked"
                               /\ Placed(rows[t], new[t]) /\ new[t].token = rows[t].token
<1> DEFINE after(pick) == [t \in Task |-> IF t \in Blocked(rows) THEN [rows[t] EXCEPT !.status = pick[t]]
                                          ELSE rows[t]]
           picks == {p \in [Blocked(rows) -> {"blocked", "queued", "skipped", "failed"}] :
                       \A t \in Blocked(rows) : p[t] = Decide(t, after(p))}
<1>1. PICK pick \in picks : new = after(pick)
  BY DEF Refreshes
<1>2. \A t \in Task : new[t] = IF t \in Blocked(rows) THEN [rows[t] EXCEPT !.status = pick[t]] ELSE rows[t]
  BY <1>1
<1>3. ASSUME NEW t \in Task, t \in Blocked(rows)
      PROVE  new[t] \in Row /\ Placed(rows[t], new[t]) /\ new[t].token = rows[t].token
  <2>1. pick[t] \in {"blocked", "queued", "skipped", "failed"}
    BY <1>3
  <2>2. pick[t] \in TaskStatuses /\ pick[t] \in {"blocked", "queued", "skipped"} \cup RepairableTaskStatuses
    BY <2>1 DEF TaskStatuses, WaitingTaskStatuses, TerminalTaskStatuses, SuccessfulTaskStatuses,
                FailedTaskStatuses, RepairableTaskStatuses
  <2>3. new[t] = [rows[t] EXCEPT !.status = pick[t]]
    BY <1>2, <1>3
  <2>4. /\ new[t] \in Row /\ new[t].status = pick[t] /\ new[t].token = rows[t].token
        /\ new[t].attempt = rows[t].attempt
    BY <2>2, <2>3, StatusRow
  <2> QED BY <2>2, <2>4 DEF Placed
<1>4. \A t \in Task : new[t] \in Row
  BY <1>2, <1>3
<1>5. new \in [Task -> Row]
  BY <1>1, <1>4
<1> QED BY <1>2, <1>3, <1>5 DEF Blocked

\* A Run is derived from Tasks that have all ended.
LEMMA DerivedFacts ==
  ASSUME NEW rows, DerivedRun(rows) # "none"
  PROVE  DerivedRun(rows) \in TerminalRunStatuses /\ \A t \in Task : Terminal(rows[t])
<1>1. {rows[t].status : t \in Task} \subseteq TerminalTaskStatuses
  BY DEF DerivedRun, DeriveRunStatus
<1>2. DerivedRun(rows) \in TerminalRunStatuses
  BY DEF DerivedRun, DeriveRunStatus, TerminalRunStatuses
<1> QED BY <1>1, <1>2 DEF Terminal

LEMMA RefreshedFacts ==
  ASSUME NEW rows, run \in RunStatuses
  PROVE  /\ RefreshedRun(rows) \in RunStatuses
         /\ RefreshedRun(rows) = run \/ \A t \in Task : Terminal(rows[t])
<1>1. TerminalRunStatuses \subseteq RunStatuses
  BY DEF TerminalRunStatuses, RunStatuses
<1> QED BY <1>1, DerivedFacts DEF RefreshedRun

-----------------------------------------------------------------------------
\* Quiet steps

Execs == [Task -> [pc : ExecPc, token : Token, attempt : Attempt]]
Disps == [Task -> [Attempt -> {"none", "unsent", "sent", "cancelling", "closed"}]]
Stales == [Task -> [pc : StalePc, row : Row]]
Dues == [dispatches : SUBSET (Task \X Attempt), integrations : SUBSET Task]

\* TypeOK without the tasks table.
Others ==
  /\ run \in RunStatuses /\ exec \in Execs /\ disp \in Disps /\ journal \in SUBSET Task
  /\ stale \in Stales /\ due \in Dues /\ canc \in BOOLEAN
  /\ tok \in Token /\ repairs \in 0..MaxRepairs /\ boot \in 1..MaxBoots

RowsMove == task' \in [Task -> Row] /\ \A t \in Task : Quiet(task[t], task'[t])

\* The Run ends only with its Tasks.
RunMoves ==
  run' = run \/ run' \notin TerminalRunStatuses \/ \A t \in Task : Terminal(task'[t])

QuietStep == RowsMove /\ RunMoves /\ Others' /\ tok' = tok

LEMMA Parts == ASSUME IInv
               PROVE  task \in [Task -> Row] /\ Others /\ \A t \in Task : task[t] \in Row
BY DEF IInv, TypeOK, Others, Execs, Disps, Stales, Dues

LEMMA SameRows == ASSUME IInv, UNCHANGED task PROVE RowsMove
BY Parts DEF RowsMove, Quiet

LEMMA OneRow ==
  ASSUME IInv, NEW t \in Task, NEW new, Active(task[t]), May(task[t], new),
         task' = [task EXCEPT ![t] = new]
  PROVE  RowsMove
<1>1. task \in [Task -> Row] /\ new \in Row
  BY Parts DEF May
<1>2. task' \in [Task -> Row] /\ task'[t] = new /\ \A u \in Task \ {t} : task'[u] = task[u]
  BY <1>1
<1> QED BY <1>2 DEF RowsMove, Quiet

LEMMA ExecGoes ==
  ASSUME IInv, NEW t \in Task, NEW pc \in ExecPc, exec' = [exec EXCEPT ![t].pc = pc]
  PROVE  exec' \in Execs
BY Parts DEF Others, Execs

LEMMA HeldActive ==
  ASSUME NEW t \in Task, NEW k, NEW statuses \in SUBSET ActiveTaskStatuses, Holds(t, k, statuses)
  PROVE  Active(task[t])
BY DEF Holds, Active

LEMMA FencedMoves ==
  ASSUME IInv, NEW t \in Task, NEW statuses, Fenced(t, statuses)
  PROVE  RowsMove /\ exec' \in Execs
BY SameRows, ExecGoes DEF Fenced, ExecPc

LEMMA WritesMoves ==
  ASSUME IInv, NEW t \in Task, NEW statuses \in SUBSET ActiveTaskStatuses, NEW rows,
         \A new \in rows : May(task[t], new), NEW pc \in ExecPc, Writes(t, statuses, rows, pc)
  PROVE  RowsMove /\ exec' \in Execs
<1>1. Active(task[t])
  BY HeldActive DEF Writes
<1>2. PICK new \in rows : task' = [task EXCEPT ![t] = new]
  BY DEF Writes
<1> QED BY <1>1, <1>2, OneRow, ExecGoes DEF Writes

LEMMA ThrowsMoves ==
  ASSUME IInv, NEW t \in Task, NEW rows, \A new \in rows : May(task[t], new), Throws(t, rows)
  PROVE  RowsMove /\ exec' \in Execs
BY WritesMoves, FencedMoves DEF Throws, ExecPc

LEMMA WaitsMoves ==
  ASSUME IInv, NEW t \in Task, Waits(t)
  PROVE  RowsMove /\ exec' \in Execs
<1> DEFINE rows == {WaitRow(task[t]), Released(task[t], "recovery_attention")}
<1>1. May(task[t], Released(task[t], "recovery_attention"))
  BY Parts, ReleasedMay DEF TerminalTaskStatuses, FailedTaskStatuses
<1>2. \A new \in rows : May(task[t], new)
  BY <1>1, Parts, WaitMay
<1> HIDE DEF rows
<1>3. \/ Writes(t, {"running"}, rows, "finishing")
      \/ Fenced(t, {"running"})
  BY DEF Waits, rows
<1>4. {"running"} \in SUBSET ActiveTaskStatuses /\ "finishing" \in ExecPc
  BY DEF ActiveTaskStatuses, ExecPc
<1> QED BY <1>2, <1>3, <1>4, WritesMoves, FencedMoves

LEMMA SettlesMoves ==
  ASSUME IInv, NEW t \in Task, NEW statuses \in SUBSET ActiveTaskStatuses, NEW outcomes,
         \A o \in outcomes : Sound(task[t], o), Settles(t, statuses, outcomes)
  PROVE  RowsMove /\ exec' \in Execs
<1>1. CASE Fenced(t, statuses)
  BY <1>1, FencedMoves
<1>2. CASE /\ Holds(t, exec[t].token, statuses)
           /\ \E o \in outcomes : task' = [task EXCEPT ![t] = o.row] /\ exec' = [exec EXCEPT ![t].pc = o.pc]
  <2>1. Active(task[t])
    BY <1>2, HeldActive
  <2>2. PICK o \in outcomes : task' = [task EXCEPT ![t] = o.row] /\ exec' = [exec EXCEPT ![t].pc = o.pc]
    BY <1>2
  <2>3. May(task[t], o.row) /\ o.pc \in ExecPc
    BY DEF Sound, LivePc, ExecPc
  <2> QED BY <2>1, <2>2, <2>3, OneRow, ExecGoes
<1> QED BY <1>1, <1>2 DEF Settles

LEMMA NewRowType == ASSUME NEW t \in Task PROVE NewRow(t) \in Row /\ Fresh(t) \in [pc : StalePc, row : Row]
<1>1. "staged" \in TaskStatuses
  BY DEF TaskStatuses, WaitingTaskStatuses
<1>2. MaxAttempts[t] \in Nat
  BY RegistryAssumption
<1> QED BY <1>1, <1>2, Bounds DEF NewRow, Row, Fresh, StalePc

LEMMA StaleGoesType ==
  ASSUME IInv, NEW t \in Task, NEW pc \in LivePc, StaleGoes(t, pc)
  PROVE  stale' \in Stales
BY Parts, NewRowType DEF Others, Stales, StaleGoes, LivePc, StalePc

LEMMA StaleSettlesMoves ==
  ASSUME IInv, NEW t \in Task, NEW statuses \in SUBSET ActiveTaskStatuses, NEW outcomes,
         \A o \in outcomes : Sound(task[t], o), StaleSettles(t, statuses, outcomes)
  PROVE  RowsMove /\ stale' \in Stales
<1>1. CASE ~ Holds(t, stale[t].row.token, statuses) /\ StaleGoes(t, "finishing") /\ UNCHANGED task
  BY <1>1, SameRows, StaleGoesType DEF LivePc
<1>2. CASE /\ Holds(t, stale[t].row.token, statuses)
           /\ \E o \in outcomes : task' = [task EXCEPT ![t] = o.row] /\ StaleGoes(t, o.pc)
  <2>1. Active(task[t])
    BY <1>2, HeldActive
  <2>2. PICK o \in outcomes : task' = [task EXCEPT ![t] = o.row] /\ StaleGoes(t, o.pc)
    BY <1>2
  <2>3. May(task[t], o.row) /\ o.pc \in LivePc
    BY DEF Sound
  <2> QED BY <2>1, <2>2, <2>3, OneRow, StaleGoesType
<1> QED BY <1>1, <1>2 DEF StaleSettles

\* recoverInterruptedTasks recovers active rows only.
LEMMA RecoveredMay ==
  ASSUME IInv, NEW t \in Task PROVE May(task[t], RecoveredRow(t))
<1> DEFINE status == IF task[t].status = "running" /\ t \in ReplaySafe THEN "queued" ELSE "recovery_attention"
<1>1. /\ status \in (WaitingTaskStatuses \cup TerminalTaskStatuses) \ {"skipped"}
      /\ status # "retry_waiting"
  BY DEF WaitingTaskStatuses, TerminalTaskStatuses, FailedTaskStatuses
<1> HIDE DEF status
<1> DEFINE released == Released(task[t], status)
<1>2. May(task[t], released)
  BY <1>1, Parts, ReleasedMay
<1> HIDE DEF released
<1>3. May(task[t], [released EXCEPT !.turn = 0])
  BY <1>2, Bounds, TurnRow DEF May, Ongoing, Ending, Active
<1> QED BY <1>3 DEF RecoveredRow, released, status

LEMMA RecoversMoves ==
  ASSUME IInv, NEW ts, NEW dispatches, Recovers(ts, dispatches)
  PROVE  RowsMove
<1>1. \A t \in Task : task'[t] = IF t \in ts /\ Recoverable(t, dispatches) THEN RecoveredRow(t) ELSE task[t]
  BY DEF Recovers
<1>2. \A t \in Task : Quiet(task[t], task'[t]) /\ task'[t] \in Row
  BY <1>1, RecoveredMay, Parts DEF Quiet, Recoverable, May
<1>3. task' \in [Task -> Row]
  BY <1>2 DEF Recovers
<1> QED BY <1>2, <1>3 DEF RowsMove

LEMMA AttentionMoves ==
  ASSUME IInv, NEW t \in Task, Attention(t)
  PROVE  RowsMove
<1>1. May(task[t], Released(task[t], "recovery_attention"))
  BY Parts, ReleasedMay DEF TerminalTaskStatuses, FailedTaskStatuses
<1> QED BY <1>1, OneRow, SameRows, Parts DEF Attention

LEMMA DispatchType ==
  ASSUME IInv, NEW t \in Task, NEW a \in Attempt,
         NEW status \in {"none", "unsent", "sent", "cancelling", "closed"}, Dispatch(t, a, status)
  PROVE  disp' \in Disps
BY Parts DEF Others, Disps, Dispatch

-----------------------------------------------------------------------------
\* Workers

LEMMA WaitForLeaseQuiet == ASSUME IInv, NEW t \in Task, WaitForLease(t) PROVE QuietStep
<1>1. RowsMove /\ exec' \in Execs
  BY WaitsMoves DEF WaitForLease
<1> QED BY <1>1, Parts DEF WaitForLease, QuietStep, RunMoves, Others

LEMMA FailedMay == ASSUME IInv, NEW t \in Task PROVE May(task[t], Released(task[t], "failed"))
BY Parts, ReleasedMay DEF TerminalTaskStatuses, FailedTaskStatuses

LEMMA AcquireQuiet == ASSUME IInv, NEW t \in Task, Acquire(t) PROVE QuietStep
<1> DEFINE a == task[t].attempt
<1>1. a \in Attempt /\ task[t] \in Row
  BY Parts DEF Row
<1>2. UNCHANGED <<run, journal, stale, due, canc, tok, repairs, boot>>
  BY DEF Acquire
<1>3. RowsMove /\ exec' \in Execs /\ disp' \in Disps
  <2>1. CASE /\ Dispatch(t, a, IF disp[t][a] = "none" THEN "unsent" ELSE disp[t][a])
             /\ Throws(t, {Released(task[t], "failed")})
    <3>1. disp[t][a] \in {"none", "unsent", "sent", "cancelling", "closed"}
      BY <1>1, Parts DEF Others, Disps
    <3>2. disp' \in Disps
      BY <1>1, <2>1, <3>1, DispatchType
    <3> QED BY <2>1, <3>2, FailedMay, ThrowsMoves
  <2>2. CASE Throws(t, {Released(task[t], "failed")}) /\ UNCHANGED disp
    BY <2>2, FailedMay, ThrowsMoves, Parts DEF Others
  <2>3. CASE /\ Dispatch(t, a, "unsent") /\ UNCHANGED task
             /\ exec' = [exec EXCEPT ![t] = [pc |-> "acquiring", token |-> @.token, attempt |-> a]]
    <3>1. exec' \in Execs
      BY <1>1, <2>3, Parts DEF Others, Execs, ExecPc
    <3>2. disp' \in Disps
      BY <1>1, <2>3, DispatchType
    <3> QED BY <2>3, <3>1, <3>2, SameRows
  <2>4. CASE Dispatch(t, a, "closed") /\ Waits(t)
    BY <1>1, <2>4, DispatchType, WaitsMoves
  <2> QED BY <2>1, <2>2, <2>3, <2>4 DEF Acquire
<1> QED BY <1>2, <1>3, Parts DEF QuietStep, RunMoves, Others

LEMMA BindQuiet == ASSUME IInv, NEW t \in Task, Bind(t) PROVE QuietStep
<1> DEFINE a == exec[t].attempt
           statuses == {"running", "integration_pending"}
<1>1. a \in Attempt
  BY Parts DEF Others, Execs
<1>2. UNCHANGED <<run, journal, stale, due, canc, tok, repairs, boot>> /\ disp' \in Disps
  BY <1>1, DispatchType DEF Bind
<1>3. statuses \in SUBSET ActiveTaskStatuses /\ "submitted" \in ExecPc
  BY DEF ActiveTaskStatuses, ExecPc
<1>4. CASE Writes(t, statuses, {task[t]}, "submitted")
  <2>1. Active(task[t]) /\ task[t].status # "retry_waiting"
    BY <1>4 DEF Writes, Holds, Active, ActiveTaskStatuses
  <2>2. May(task[t], task[t])
    BY <2>1, Parts DEF May, Ongoing
  <2>3. RowsMove /\ exec' \in Execs
    BY <1>3, <1>4, <2>2, WritesMoves
  <2> QED BY <1>2, <2>3, Parts DEF QuietStep, RunMoves, Others
<1>5. CASE Fenced(t, statuses)
  <2>1. RowsMove /\ exec' \in Execs
    BY <1>5, FencedMoves
  <2> QED BY <1>2, <2>1, Parts DEF QuietStep, RunMoves, Others
<1> QED BY <1>4, <1>5 DEF Bind

LEMMA TurnStartsQuiet == ASSUME IInv, NEW t \in Task, TurnStarts(t) PROVE QuietStep
<1> DEFINE k == exec[t].token
           turn == IF Holds(t, k, {"running"}) THEN k ELSE task[t].turn
           new == [task[t] EXCEPT !.turn = turn]
<1>1. turn \in Token /\ task[t] \in Row
  BY Parts DEF Others, Execs, Row
<1>2. task' = [task EXCEPT ![t] = new]
  BY Parts DEF TurnStarts
<1>3. exec' \in Execs
  BY ExecGoes DEF TurnStarts, ExecPc
<1>4. CASE Holds(t, k, {"running"})
  <2>1. Active(task[t]) /\ task[t].status # "retry_waiting"
    BY <1>4 DEF Holds, Active, ActiveTaskStatuses
  <2>2. May(task[t], new)
    BY <1>1, <2>1, TurnRow DEF May, Ongoing, Active
  <2> HIDE DEF new
  <2> QED BY <1>2, <1>3, <2>1, <2>2, OneRow, Parts DEF TurnStarts, QuietStep, RunMoves, Others
<1>5. CASE ~ Holds(t, k, {"running"})
  <2>1. new = task[t]
    BY <1>1, <1>5 DEF Row
  <2>2. task' = task
    BY <1>2, <2>1, Parts
  <2> QED BY <1>3, <2>2, SameRows, Parts DEF TurnStarts, QuietStep, RunMoves, Others
<1> QED BY <1>4, <1>5

LEMMA TurnReturnsQuiet == ASSUME IInv, NEW t \in Task, TurnReturns(t) PROVE QuietStep
<1>1. exec[t].attempt \in Attempt
  BY Parts DEF Others, Execs
<1>2. disp' \in Disps /\ exec' \in Execs
  BY <1>1, DispatchType, ExecGoes DEF TurnReturns, ExecPc
<1> QED BY <1>2, SameRows, Parts DEF TurnReturns, QuietStep, RunMoves, Others

LEMMA WorkerThrowsQuiet == ASSUME IInv, NEW t \in Task, WorkerThrows(t) PROVE QuietStep
<1> DEFINE blocked == IF exec[t].pc = "integrating" THEN {"integration_blocked"} ELSE {}
           terminals == {"failed", "blocked_by_policy"} \cup blocked
<1>1. terminals \in SUBSET FailedTaskStatuses
  BY DEF FailedTaskStatuses
<1>2. \A new \in FailureRows(task[t], terminals) : May(task[t], new)
  BY <1>1, Parts, FailureMay
<1>3. Throws(t, FailureRows(task[t], terminals))
  BY DEF WorkerThrows
<1> HIDE DEF terminals
<1>4. RowsMove /\ exec' \in Execs
  BY <1>2, <1>3, ThrowsMoves
<1>5. exec[t].attempt \in Attempt
  BY Parts DEF Others, Execs
<1>6. Dispatch(t, exec[t].attempt, "closed") \/ UNCHANGED disp
  BY DEF WorkerThrows
<1>7. disp' \in Disps
  BY <1>5, <1>6, DispatchType, Parts DEF Others
<1>8. UNCHANGED <<run, journal, stale, due, canc, tok, repairs, boot>>
  BY DEF WorkerThrows
<1> QED BY <1>4, <1>7, <1>8, Parts DEF QuietStep, RunMoves, Others

LEMMA CompletionQuiet ==
  ASSUME IInv, NEW t \in Task,
         Judge(t) \/ MarkValidating(t) \/ Validate(t) \/ FinishIntegration(t)
  PROVE  QuietStep
<1>1. exec[t].token \in Token /\ task[t] \in Row
  BY Parts DEF Others, Execs
<1>2. /\ {"running"} \in SUBSET ActiveTaskStatuses /\ {"agent_done"} \in SUBSET ActiveTaskStatuses
      /\ {"validating"} \in SUBSET ActiveTaskStatuses
      /\ {"integration_pending"} \in SUBSET ActiveTaskStatuses
  BY DEF ActiveTaskStatuses
<1>3. RowsMove /\ exec' \in Execs
  <2>1. CASE Judge(t)
    <3>1. \A o \in Judged(t, task[t], exec[t].token) : Sound(task[t], o)
      BY <1>1, JudgedSound
    <3> QED BY <1>2, <2>1, <3>1, SettlesMoves DEF Judge
  <2>2. CASE MarkValidating(t)
    <3> DEFINE o == Outcome([task[t] EXCEPT !.status = "validating"], "validating")
    <3>1. May(task[t], [task[t] EXCEPT !.status = "validating"])
      BY <1>1, OngoingMay DEF ActiveTaskStatuses
    <3>2. Sound(task[t], o)
      BY <3>1 DEF Sound, Outcome, LivePc
    <3>3. Settles(t, {"agent_done"}, {o})
      BY <2>2 DEF MarkValidating
    <3> HIDE DEF o
    <3> QED BY <1>2, <3>2, <3>3, SettlesMoves
  <2>3. CASE Validate(t)
    <3>1. \A o \in Validated(t, task[t]) : Sound(task[t], o)
      BY <1>1, ValidatedSound
    <3> QED BY <1>2, <2>3, <3>1, SettlesMoves DEF Validate
  <2>4. CASE FinishIntegration(t)
    <3>1. \A o \in Integrated(t, task[t], exec[t].token) : Sound(task[t], o)
      BY <1>1, IntegratedSound
    <3> QED BY <1>2, <2>4, <3>1, SettlesMoves DEF FinishIntegration
  <2> QED BY <2>1, <2>2, <2>3, <2>4
<1> QED BY <1>3, Parts DEF Judge, MarkValidating, Validate, FinishIntegration, QuietStep, RunMoves, Others

LEMMA IntegrateQuiet == ASSUME IInv, NEW t \in Task, Integrate(t) PROVE QuietStep
BY SameRows, Parts DEF Integrate, QuietStep, RunMoves, Others

LEMMA FinishQuiet == ASSUME IInv, NEW t \in Task, Finish(t) PROVE QuietStep
<1>1. exec' \in Execs
  BY Parts, Bounds DEF Finish, Others, Execs, IdleExec, ExecPc
<1>2. run' \in RunStatuses /\ (run' = run \/ \A u \in Task : Terminal(task'[u]))
  BY RefreshedFacts, Parts DEF Finish, Others
<1> QED BY <1>1, <1>2, SameRows, Parts DEF Finish, QuietStep, RunMoves, Others

-----------------------------------------------------------------------------
\* Reconciliations and restarts

LEMMA CaptureQuiet == ASSUME IInv, NEW t \in Task, Capture(t) PROVE QuietStep
<1>1. stale' \in Stales
  BY Parts DEF Capture, Others, Stales, StalePc
<1> QED BY <1>1, SameRows, Parts DEF Capture, QuietStep, RunMoves, Others

LEMMA StaleQuiet == ASSUME IInv, NEW t \in Task, StaleStep(t) PROVE QuietStep
<1>1. task[t] \in Row /\ stale[t].row.turn \in Token
  BY Parts DEF Others, Stales, Row
<1>2. /\ {"running"} \in SUBSET ActiveTaskStatuses /\ {"agent_done"} \in SUBSET ActiveTaskStatuses
      /\ {"validating"} \in SUBSET ActiveTaskStatuses
      /\ {"integration_pending"} \in SUBSET ActiveTaskStatuses
  BY DEF ActiveTaskStatuses
<1>3. \A o \in Validated(t, task[t]) : Sound(task[t], o)
  BY <1>1, ValidatedSound
<1>4. RowsMove /\ stale' \in Stales
  <2>1. CASE StaleRecovers(t)
    BY <2>1, RecoversMoves, StaleGoesType DEF StaleRecovers, LivePc
  <2>2. CASE StaleWaits(t)
    BY <2>2, SameRows, StaleGoesType DEF StaleWaits, LivePc
  <2>3. CASE StaleRead(t)
    <3>1. \A o \in Judged(t, task[t], stale[t].row.turn) : Sound(task[t], o)
      BY <1>1, JudgedSound
    <3>2. \/ StaleSettles(t, {"running"}, Judged(t, task[t], stale[t].row.turn))
          \/ StaleSettles(t, {"validating"}, Validated(t, task[t]))
      BY <2>3 DEF StaleRead
    <3> QED BY <1>2, <1>3, <3>1, <3>2, StaleSettlesMoves
  <2>4. CASE StaleContinues(t)
    <3> DEFINE o == Outcome([task[t] EXCEPT !.status = "validating"], "validating")
    <3>1. May(task[t], [task[t] EXCEPT !.status = "validating"])
      BY <1>1, OngoingMay DEF ActiveTaskStatuses
    <3>2. Sound(task[t], o)
      BY <3>1 DEF Sound, Outcome, LivePc
    <3>3. \A out \in Integrated(t, task[t], stale[t].row.turn) : Sound(task[t], out)
      BY <1>1, IntegratedSound
    <3>4. \/ StaleSettles(t, {"agent_done"}, {o})
          \/ StaleSettles(t, {"validating"}, Validated(t, task[t]))
          \/ StaleSettles(t, {"integration_pending"}, Integrated(t, task[t], stale[t].row.turn))
      BY <2>4 DEF StaleContinues
    <3> HIDE DEF o
    <3> QED BY <1>2, <1>3, <3>2, <3>3, <3>4, StaleSettlesMoves
  <2>5. CASE StaleThrows(t)
    BY <2>5, RecoversMoves, SameRows, StaleGoesType DEF StaleThrows, LivePc
  <2> QED BY <2>1, <2>2, <2>3, <2>4, <2>5 DEF StaleStep
<1>5. UNCHANGED <<run, exec, disp, journal, due, canc, tok, repairs, boot>>
  BY DEF StaleStep, StaleRecovers, StaleWaits, StaleRead, StaleContinues, StaleThrows
<1> QED BY <1>4, <1>5, Parts DEF QuietStep, RunMoves, Others

LEMMA ReconcileDispatchQuiet ==
  ASSUME IInv, NEW t \in Task, NEW a \in Attempt, ReconcileDispatch(t, a)
  PROVE  QuietStep
<1>1. UNCHANGED <<exec, journal, stale, canc, tok, repairs, boot>>
  BY DEF ReconcileDispatch
<1>2. due' \in Dues
  BY Parts DEF ReconcileDispatch, Others, Dues
<1>3. /\ RowsMove /\ disp' \in Disps
      /\ run' \in RunStatuses /\ (run' = run \/ \A u \in Task : Terminal(task'[u]))
  <2>1. CASE Dispatch(t, a, "closed") /\ Recovers({t}, disp') /\ UNCHANGED run
    BY <2>1, RecoversMoves, DispatchType, Parts DEF Others
  <2>2. CASE Dispatch(t, a, "closed") /\ Attention(t) /\ UNCHANGED run
    BY <2>2, AttentionMoves, DispatchType, Parts DEF Others
  <2>3. CASE /\ Dispatch(t, a, "closed") /\ Attention(t)
             /\ run' = IF Terminal(task[t]) THEN run ELSE RefreshedRun(task')
    BY <2>3, AttentionMoves, DispatchType, RefreshedFacts, Parts DEF Others
  <2>4. CASE Dispatch(t, a, "closed") /\ UNCHANGED <<task, run>>
    BY <2>4, SameRows, DispatchType, Parts DEF Others
  <2>5. CASE UNCHANGED <<task, run, disp>>
    BY <2>5, SameRows, Parts DEF Others
  <2> QED BY <2>1, <2>2, <2>3, <2>4, <2>5 DEF ReconcileDispatch
<1> QED BY <1>1, <1>2, <1>3, Parts DEF QuietStep, RunMoves, Others

LEMMA RecoverIntegrationQuiet ==
  ASSUME IInv, NEW t \in Task, RecoverIntegration(t) PROVE QuietStep
<1> DEFINE ends == {"completed", "completed_with_warnings", "failed", "recovery_attention", "integration_blocked"}
<1>1. UNCHANGED <<exec, disp, journal, stale, canc, tok, repairs, boot>> /\ due' \in Dues
  BY Parts DEF RecoverIntegration, Others, Dues
<1>2. CASE task[t].status = "integration_pending"
  <2>1. PICK new \in FailureRows(task[t], ends) : task' = [task EXCEPT ![t] = new]
    BY <1>2 DEF RecoverIntegration
  <2>2. Active(task[t])
    BY <1>2 DEF Active, ActiveTaskStatuses
  <2>3. May(task[t], new)
    <3>1. CASE new \in RetryRows(task[t])
      <4>1. new \in FailureRows(task[t], {})
        BY <3>1 DEF FailureRows
      <4> QED BY <4>1, Parts, FailureMay
    <3>2. CASE new \in {Released(task[t], s) : s \in ends}
      <4>1. PICK s \in ends : new = Released(task[t], s)
        BY <3>2
      <4>2. s \in TerminalTaskStatuses \ {"skipped"} /\ s # "retry_waiting"
        BY DEF TerminalTaskStatuses, FailedTaskStatuses, SuccessfulTaskStatuses
      <4> QED BY <4>1, <4>2, Parts, ReleasedMay
    <3> QED BY <2>1, <3>1, <3>2 DEF FailureRows
  <2>4. RowsMove
    BY <2>1, <2>2, <2>3, OneRow
  <2>5. run' \in RunStatuses /\ (run' = run \/ \A u \in Task : Terminal(task'[u]))
    BY <1>2, RefreshedFacts, Parts DEF RecoverIntegration, Others
  <2> QED BY <1>1, <2>4, <2>5, Parts DEF QuietStep, RunMoves, Others
<1>3. CASE task[t].status # "integration_pending"
  BY <1>1, <1>3, SameRows, Parts DEF RecoverIntegration, QuietStep, RunMoves, Others
<1> QED BY <1>2, <1>3

LEMMA RestartQuiet == ASSUME IInv, Restart PROVE QuietStep
<1>1. RowsMove
  BY RecoversMoves DEF Restart
<1>2. exec' \in Execs
  BY Bounds DEF Restart, Execs, IdleExec, ExecPc
<1>3. stale' \in Stales
  BY NewRowType DEF Restart, Unclaimed, Stales
<1>4. due' \in Dues
  <2>1. journal \in SUBSET Task
    BY Parts DEF Others
  <2> QED BY <2>1 DEF Restart, Dues
<1>5. canc' \in BOOLEAN
  <2>1. canc' = FALSE
    BY DEF Restart
  <2> QED BY <2>1
<1>6. boot' \in 1..MaxBoots
  <2>1. boot \in 1..MaxBoots
    BY Parts DEF Others
  <2>2. boot < MaxBoots /\ boot' = boot + 1
    BY DEF Restart
  <2> QED BY <2>1, <2>2, RegistryAssumption
<1>7. UNCHANGED <<run, disp, journal, tok, repairs>>
  BY DEF Restart
<1> QED BY <1>1, <1>2, <1>3, <1>4, <1>5, <1>6, <1>7, Parts DEF QuietStep, RunMoves, Others

-----------------------------------------------------------------------------
\* The user and the planner

LEMMA PlacedRow ==
  ASSUME NEW row \in Row, Waiting(row), NEW status \in {"blocked", "queued", "skipped"} \cup RepairableTaskStatuses
  PROVE  Placed(row, Released(row, status)) /\ Placed(row, [row EXCEPT !.status = status])
<1>1. status \in TaskStatuses
  BY DEF TaskStatuses, WaitingTaskStatuses, TerminalTaskStatuses, SuccessfulTaskStatuses,
         FailedTaskStatuses, RepairableTaskStatuses
<1> QED BY <1>1, StatusRow, ReleasedRow DEF Placed

\* Giving up a Task that has not ended, as cancelTask, cancelRun and failPreparedRun do.
LEMMA GivenUpQuiet ==
  ASSUME NEW row \in Row, ~ Terminal(row), NEW status \in {"canceled", "failed"}
  PROVE  Quiet(row, Released(row, status)) /\ Released(row, status) \in Row
<1>1. status \in RepairableTaskStatuses
  BY DEF RepairableTaskStatuses, FailedTaskStatuses
<1>2. /\ status \in (WaitingTaskStatuses \cup TerminalTaskStatuses) \ {"skipped"}
      /\ status # "retry_waiting"
  BY DEF TerminalTaskStatuses, FailedTaskStatuses
<1>3. Active(row) => May(row, Released(row, status))
  BY <1>2, ReleasedMay
<1>4. Waiting(row) => Placed(row, Released(row, status))
  BY <1>1, PlacedRow
<1> QED BY <1>3, <1>4, Kinds DEF Quiet, May, Placed

LEMMA ReleaseQuiet == ASSUME IInv, Release PROVE QuietStep
<1>1. ASSUME NEW t \in Task PROVE task'[t] \in Row /\ Quiet(task[t], task'[t])
  <2>1. CASE task[t].status # "staged"
    BY <2>1, Parts DEF Release, Quiet
  <2>2. CASE task[t].status = "staged"
    <3> DEFINE status == IF Deps[t] = {} THEN "queued" ELSE "blocked"
    <3>1. task'[t] = [task[t] EXCEPT !.status = status]
      BY <2>2 DEF Release
    <3>2. Waiting(task[t])
      BY <2>2 DEF Waiting, WaitingTaskStatuses
    <3>3. status \in {"blocked", "queued", "skipped"} \cup RepairableTaskStatuses
      OBVIOUS
    <3> HIDE DEF status
    <3>4. Placed(task[t], task'[t])
      BY <3>1, <3>2, <3>3, PlacedRow, Parts
    <3> QED BY <3>2, <3>4 DEF Quiet, Placed
  <2> QED BY <2>1, <2>2
<1>2. task' \in [Task -> Row]
  BY <1>1 DEF Release
<1>3. run' \in RunStatuses /\ run' \notin TerminalRunStatuses
  BY DEF Release, RunStatuses, TerminalRunStatuses
<1>4. UNCHANGED <<exec, disp, journal, stale, due, canc, tok, repairs, boot>>
  BY DEF Release
<1> QED BY <1>1, <1>2, <1>3, <1>4, Parts DEF QuietStep, RowsMove, RunMoves, Others

LEMMA FailPreparedRunQuiet == ASSUME IInv, FailPreparedRun PROVE QuietStep
<1>1. ASSUME NEW t \in Task PROVE task'[t] \in Row /\ Quiet(task[t], task'[t]) /\ Terminal(task'[t])
  <2>1. CASE Terminal(task[t])
    BY <2>1, Parts DEF FailPreparedRun, Quiet
  <2>2. CASE ~ Terminal(task[t])
    <3>1. task'[t] = Released(task[t], "failed")
      BY <2>2 DEF FailPreparedRun
    <3>2. "failed" \in TaskStatuses /\ "failed" \in TerminalTaskStatuses
      BY DEF TaskStatuses, TerminalTaskStatuses, FailedTaskStatuses
    <3> QED BY <2>2, <3>1, <3>2, GivenUpQuiet, ReleasedRow, Parts DEF Terminal
  <2> QED BY <2>1, <2>2
<1>2. task' \in [Task -> Row]
  BY <1>1 DEF FailPreparedRun
<1>3. run' \in RunStatuses
  BY DEF FailPreparedRun, RunStatuses
<1>4. UNCHANGED <<exec, disp, journal, stale, due, canc, tok, repairs, boot>>
  BY DEF FailPreparedRun
<1> QED BY <1>1, <1>2, <1>3, <1>4, Parts DEF QuietStep, RowsMove, RunMoves, Others

LEMMA CancelledQuiet ==
  ASSUME NEW row \in Row
  PROVE  /\ Quiet(row, CancelledRow(row)) /\ CancelledRow(row) \in Row
         /\ Terminal(CancelledRow(row))
<1>1. CASE Terminal(row)
  BY <1>1 DEF CancelledRow, Quiet
<1>2. CASE ~ Terminal(row)
  <2>1. CancelledRow(row) = Released(row, "canceled")
    BY <1>2 DEF CancelledRow
  <2>2. "canceled" \in TaskStatuses /\ "canceled" \in TerminalTaskStatuses
    BY DEF TaskStatuses, TerminalTaskStatuses
  <2> QED BY <1>2, <2>1, <2>2, GivenUpQuiet, ReleasedRow DEF Terminal
<1> QED BY <1>1, <1>2

LEMMA CancelledDispatchesType ==
  ASSUME IInv, NEW ts, CancelledDispatches(ts) PROVE disp' \in Disps
BY Parts DEF Others, Disps, CancelledDispatches

LEMMA CancelTaskQuiet == ASSUME IInv, NEW t \in Task, CancelTask(t) PROVE QuietStep
<1>1. task' = [task EXCEPT ![t] = CancelledRow(task[t])]
  BY DEF CancelTask
<1>2. RowsMove
  BY <1>1, CancelledQuiet, Parts DEF RowsMove, Quiet
<1>3. disp' \in Disps
  BY CancelledDispatchesType DEF CancelTask
<1> QED BY <1>2, <1>3, Parts DEF CancelTask, QuietStep, RunMoves, Others

LEMMA CancelRunQuiet == ASSUME IInv, CancelRun PROVE QuietStep
<1>1. disp' \in Disps
  BY CancelledDispatchesType DEF CancelRun
<1> QED BY <1>1, SameRows, Parts DEF CancelRun, QuietStep, RunMoves, Others

LEMMA CancelRunEndsQuiet == ASSUME IInv, CancelRunEnds PROVE QuietStep
<1>1. \A t \in Task : task'[t] = CancelledRow(task[t])
  BY DEF CancelRunEnds
<1>2. RowsMove /\ \A t \in Task : Terminal(task'[t])
  BY <1>1, CancelledQuiet, Parts DEF RowsMove, CancelRunEnds
<1>3. run' \in RunStatuses
  BY Parts DEF CancelRunEnds, Others, RunStatuses
<1> QED BY <1>2, <1>3, Parts DEF CancelRunEnds, QuietStep, RunMoves, Others

LEMMA InspectQuiet == ASSUME IInv, Inspect PROVE QuietStep
<1>1. run' \in RunStatuses /\ (run' = run \/ \A u \in Task : Terminal(task'[u]))
  BY RefreshedFacts, Parts DEF Inspect, Others
<1> QED BY <1>1, SameRows, Parts DEF Inspect, QuietStep, RunMoves, Others

-----------------------------------------------------------------------------
\* The steps that are not quiet: a claim, and a repair

\* What a refresh of the blocked Tasks leaves of a row.
Kept(old, new) ==
  new = old \/ (old.status = "blocked" /\ Placed(old, new) /\ new.token = old.token)

\* t is claimed from the refreshed rows; the Run does not end.
ClaimStep ==
  \E t \in Task, new \in [Task -> Row] :
    /\ Claimable(t, new) /\ tok < MaxClaims
    /\ \A u \in Task : Kept(task[u], new[u])
    /\ task' = [new EXCEPT ![t] = ClaimedRow(new[t])]
    /\ tok' = tok + 1
    /\ run' = run /\ Others'

RunReopens == run' \notin TerminalRunStatuses \/ \A t \in Task : Terminal(task'[t])

\* t is reopened, and its dependencies may settle it at once.
RepairStep ==
  \E t \in Task :
    /\ HasFailed(task[t])
    /\ task' \in [Task -> Row]
    /\ task'[t].token = 0 /\ task'[t].attempt = task[t].attempt
    /\ task'[t].status \in {"blocked", "queued", "skipped"} \cup RepairableTaskStatuses
    /\ \A u \in Task \ {t} : Quiet(task[u], task'[u])
    /\ RunReopens /\ Others' /\ tok' = tok

LEMMA KeptQuiet == ASSUME NEW old, NEW new, Kept(old, new) PROVE Quiet(old, new)
BY DEF Kept, Quiet, Waiting, WaitingTaskStatuses

LEMMA ClaimableWaits ==
  ASSUME NEW t, NEW rows, Claimable(t, rows)
  PROVE  Waiting(rows[t]) /\ ~ Terminal(rows[t]) /\ ~ Active(rows[t])
BY DEF Claimable, Waiting, Terminal, Active, WaitingTaskStatuses, TerminalTaskStatuses,
       ActiveTaskStatuses, SuccessfulTaskStatuses, FailedTaskStatuses

LEMMA ClaimedFields ==
  ASSUME NEW row \in Row, row.attempt <= tok, tok \in Token, tok < MaxClaims
  PROVE  LET new == ClaimedRow(row)
         IN  /\ new \in Row /\ new.status = "running" /\ new.token = tok + 1
             /\ new.attempt = row.attempt + 1
<1>1. tok + 1 \in Token /\ row.attempt + 1 \in Attempt
  BY RegistryAssumption DEF Row, Token, Attempt
<1>2. "running" \in TaskStatuses
  BY DEF TaskStatuses, ActiveTaskStatuses
<1> QED BY <1>1, <1>2 DEF Row, ClaimedRow

\* A Run is looked at again after a refresh that failed or skipped a Task.
LEMMA RunAfterFacts ==
  ASSUME NEW rows, NEW new, run \in RunStatuses
  PROVE  /\ RunAfter(rows, new) \in RunStatuses
         /\ RunAfter(rows, new) = run \/ \A t \in Task : Terminal(new[t])
BY RefreshedFacts DEF RunAfter

LEMMA PollSteps == ASSUME IInv, Poll PROVE QuietStep \/ ClaimStep
<1>1. UNCHANGED <<disp, journal, stale, due, canc, repairs, boot>>
  BY DEF Poll
<1>2. PICK new \in Refreshes(task) :
       \/ task' = new /\ run' = RunAfter(task, new) /\ UNCHANGED <<exec, tok>>
       \/ \E t \in Task :
            /\ Claimable(t, new) /\ exec[t].pc = "idle"
            /\ tok < MaxClaims
            /\ task' = [new EXCEPT ![t] = ClaimedRow(@)]
            /\ tok' = tok + 1
            /\ exec' = [exec EXCEPT ![t] = [pc |-> "starting", token |-> tok', attempt |-> 0]]
            /\ run' = RunAfter(task, new)
       \/ \E t \in Task, s \in {"failed", "blocked_by_policy"} :
            /\ Claimable(t, new) /\ exec[t].pc = "idle"
            /\ task' = [new EXCEPT ![t] = [Released(@, s) EXCEPT !.turn = 0]]
            /\ run' = RefreshedRun(task')
            /\ UNCHANGED <<exec, tok>>
  BY DEF Poll
<1>3. new \in [Task -> Row] /\ \A t \in Task : Kept(task[t], new[t])
  BY RefreshRows, Parts DEF Kept
<1>4. \A t \in Task : Quiet(task[t], new[t])
  BY <1>3, KeptQuiet
<1>5. /\ RunAfter(task, new) \in RunStatuses
      /\ RunAfter(task, new) = run \/ \A t \in Task : Terminal(new[t])
  BY RunAfterFacts, Parts DEF Others
<1>6. CASE task' = new /\ run' = RunAfter(task, new) /\ UNCHANGED <<exec, tok>>
  BY <1>1, <1>3, <1>4, <1>5, <1>6, Parts DEF QuietStep, RowsMove, RunMoves, Others
<1>7. ASSUME NEW t \in Task, Claimable(t, new), tok < MaxClaims,
             task' = [new EXCEPT ![t] = ClaimedRow(@)], tok' = tok + 1,
             exec' = [exec EXCEPT ![t] = [pc |-> "starting", token |-> tok', attempt |-> 0]],
             run' = RunAfter(task, new)
      PROVE  ClaimStep
  <2>1. run' = run
    BY <1>5, <1>7, ClaimableWaits
  <2>2. tok' \in Token
    BY <1>7, Parts, RegistryAssumption DEF Others, Token
  <2>3. exec' \in Execs
    BY <1>7, <2>2, Bounds, Parts DEF Others, Execs, ExecPc
  <2>4. Others'
    BY <1>1, <2>1, <2>2, <2>3, Parts DEF Others
  <2>5. task' = [new EXCEPT ![t] = ClaimedRow(new[t])]
    BY <1>7
  <2> QED BY <1>3, <1>7, <2>1, <2>4, <2>5 DEF ClaimStep
<1>8. ASSUME NEW t \in Task, NEW s \in {"failed", "blocked_by_policy"}, Claimable(t, new),
             task' = [new EXCEPT ![t] = [Released(@, s) EXCEPT !.turn = 0]],
             run' = RefreshedRun(task'), UNCHANGED <<exec, tok>>
      PROVE  QuietStep
  <2> DEFINE released == Released(new[t], s)
             row == [released EXCEPT !.turn = 0]
  <2>1. new[t] \in Row /\ Waiting(new[t]) /\ s \in RepairableTaskStatuses
    BY <1>3, <1>8, ClaimableWaits DEF RepairableTaskStatuses, FailedTaskStatuses
  <2>2. Placed(new[t], released)
    BY <2>1, PlacedRow
  <2> HIDE DEF released
  <2>3. Placed(new[t], row)
    BY <2>2, Bounds, TurnRow DEF Placed
  <2>4. task' = [new EXCEPT ![t] = row]
    BY <1>8 DEF released
  <2> HIDE DEF row
  <2>5. Quiet(task[t], row) /\ row \in Row
    BY <1>3, <2>1, <2>3, Parts DEF Kept, Placed, Quiet, Waiting, WaitingTaskStatuses
  <2>6. RowsMove
    BY <1>3, <1>4, <2>4, <2>5 DEF RowsMove
  <2>7. run' \in RunStatuses /\ (run' = run \/ \A u \in Task : Terminal(task'[u]))
    BY <1>8, RefreshedFacts, Parts DEF Others
  <2> QED BY <1>1, <1>8, <2>6, <2>7, Parts DEF QuietStep, RunMoves, Others
<1> QED BY <1>2, <1>6, <1>7, <1>8

LEMMA RepairSteps == ASSUME IInv, NEW t \in Task, Repair(t) PROVE RepairStep
<1> DEFINE reopened == [task EXCEPT ![t] = RepairedRow(task[t])]
<1>1. /\ RepairedRow(task[t]) \in Row /\ RepairedRow(task[t]).status = "blocked"
      /\ RepairedRow(task[t]).token = 0 /\ RepairedRow(task[t]).attempt = task[t].attempt
  <2> DEFINE r == Released(task[t], "blocked")
             max == IF r.max > task[t].attempt THEN r.max ELSE task[t].attempt + 1
  <2>1. r \in Row /\ r.status = "blocked" /\ r.token = 0 /\ r.attempt = task[t].attempt
    BY ReleasedRow, Parts DEF TaskStatuses, WaitingTaskStatuses
  <2>2. RepairedRow(task[t]) = [r EXCEPT !.turn = 0, !.max = max]
    BY <2>1 DEF RepairedRow, Row
  <2> HIDE DEF r
  <2>3. r.max \in Nat /\ r.attempt \in Nat
    BY <2>1, Bounds DEF Row
  <2>4. max \in Nat
    BY <2>1, <2>3
  <2> HIDE DEF max
  <2> QED BY <2>1, <2>2, <2>4, Bounds DEF Row
<1>2. reopened \in [Task -> Row] /\ reopened[t] = RepairedRow(task[t])
      /\ \A u \in Task \ {t} : reopened[u] = task[u]
  BY <1>1, Parts
<1> HIDE DEF reopened
<1>3. PICK new \in Refreshes(reopened) :
        task' = new /\ run' = IF DerivedRun(new) = "none" THEN "running" ELSE DerivedRun(new)
  BY DEF Repair, reopened
<1>4. /\ new \in [Task -> Row]
      /\ \A u \in Task : Kept(reopened[u], new[u])
  BY <1>2, RefreshRows DEF Kept
<1>5. \A u \in Task \ {t} : Quiet(task[u], new[u])
  BY <1>2, <1>4, KeptQuiet
<1>6. /\ new[t].token = 0 /\ new[t].attempt = task[t].attempt
      /\ new[t].status \in {"blocked", "queued", "skipped"} \cup RepairableTaskStatuses
  BY <1>1, <1>2, <1>4 DEF Kept, Placed
<1>7. run' \in RunStatuses /\ RunReopens
  <2>1. CASE DerivedRun(new) = "none"
    BY <1>3, <2>1 DEF RunReopens, RunStatuses, TerminalRunStatuses
  <2>2. CASE DerivedRun(new) # "none"
    BY <1>3, <2>2, DerivedFacts DEF RunReopens, RunStatuses, TerminalRunStatuses
  <2> QED BY <2>1, <2>2
<1>8. repairs' \in 0..MaxRepairs
  <2>1. repairs \in 0..MaxRepairs /\ repairs < MaxRepairs /\ repairs' = repairs + 1
    BY Parts DEF Others, Repair
  <2> QED BY <2>1, RegistryAssumption
<1>9. HasFailed(task[t]) /\ UNCHANGED <<exec, disp, journal, stale, due, canc, tok, boot>>
  BY DEF Repair
<1>10. Others'
  BY <1>7, <1>8, <1>9, Parts DEF Others
<1> QED BY <1>3, <1>4, <1>5, <1>6, <1>7, <1>9, <1>10 DEF RepairStep

\* Every step is one of the three.
LEMMA Steps == ASSUME IInv, [Next]_vars PROVE QuietStep \/ ClaimStep \/ RepairStep
<1>1. CASE UNCHANGED vars
  BY <1>1, SameRows, Parts DEF vars, QuietStep, RunMoves, Others
<1>2. CASE Poll
  BY <1>2, PollSteps
<1>3. ASSUME NEW t \in Task, WorkerStep(t) PROVE QuietStep
  BY <1>3, WaitForLeaseQuiet, AcquireQuiet, BindQuiet, TurnStartsQuiet, TurnReturnsQuiet,
     WorkerThrowsQuiet, CompletionQuiet, FinishQuiet DEF WorkerStep
<1>4. ASSUME NEW t \in Task, Integrate(t) \/ Capture(t) \/ StaleStep(t) \/ StartupStep(t) \/ CancelTask(t)
      PROVE  QuietStep
  BY <1>4, IntegrateQuiet, CaptureQuiet, StaleQuiet, RecoverIntegrationQuiet, ReconcileDispatchQuiet,
     CancelTaskQuiet DEF StartupStep
<1>5. ASSUME NEW t \in Task, Repair(t) PROVE RepairStep
  BY <1>5, RepairSteps
<1>6. CASE Release \/ FailPreparedRun \/ CancelRun \/ CancelRunEnds \/ Inspect \/ Restart
  BY <1>6, ReleaseQuiet, FailPreparedRunQuiet, CancelRunQuiet, CancelRunEndsQuiet, InspectQuiet, RestartQuiet
<1> QED BY <1>1, <1>2, <1>3, <1>4, <1>5, <1>6 DEF Next

-----------------------------------------------------------------------------
\* Rows across a step

\* A Task that has ended stays as it is, unless it is repaired.
LEMMA TerminalStays ==
  ASSUME NEW old \in Row, NEW new, Quiet(old, new), Terminal(old) PROVE new = old
BY Kinds DEF Quiet

\* A step that is not a claim leaves a Task active, or successful, only if it was so
\* or was active.
LEMMA QuietActive ==
  ASSUME NEW old \in Row, NEW new, Quiet(old, new), Active(new) \/ Succeeded(new)
  PROVE  Active(old) \/ new = old
BY DEF Quiet, Placed, Active, Succeeded, ActiveTaskStatuses, RepairableTaskStatuses, FailedTaskStatuses

LEMMA QuietOwned ==
  ASSUME NEW old \in Row, NEW new, Owned(old), Quiet(old, new)
  PROVE  Owned(new)
<1>1. CASE Active(old) /\ May(old, new)
  <2>1. CASE Ongoing(old, new)
    BY <1>1, <2>1 DEF Owned, Ongoing
  <2>2. CASE Ending(old, new)
    <3>1. ~ Active(new)
      BY <2>2 DEF Ending, Active, ActiveTaskStatuses, WaitingTaskStatuses, TerminalTaskStatuses,
                  SuccessfulTaskStatuses, FailedTaskStatuses
    <3> QED BY <2>2, <3>1 DEF Owned, Ending
  <2> QED BY <1>1, <2>1, <2>2 DEF May
<1>2. CASE Waiting(old) /\ Placed(old, new)
  <2>1. old.token = 0
    BY <1>2, Kinds DEF Owned
  <2>2. ~ Active(new)
    BY <1>2 DEF Placed, Active, ActiveTaskStatuses, RepairableTaskStatuses, FailedTaskStatuses
  <2> QED BY <1>2, <2>1, <2>2 DEF Owned, Placed
<1> QED BY <1>1, <1>2 DEF Quiet

LEMMA QuietAttempt ==
  ASSUME NEW old \in Row, NEW new, Quiet(old, new)
  PROVE  new.attempt <= old.attempt
<1>1. old.attempt \in Nat
  BY Bounds DEF Row
<1> QED BY <1>1 DEF Quiet, May, Ongoing, Ending, Placed

LEMMA QuietRow ==
  ASSUME NEW old \in Row, NEW new, Quiet(old, new) PROVE new \in Row
BY DEF Quiet, May, Placed

\* What a claim does, Task by Task.
LEMMA ClaimFacts ==
  ASSUME IInv, NEW t \in Task, NEW new \in [Task -> Row], Claimable(t, new), tok < MaxClaims,
         \A u \in Task : Kept(task[u], new[u]), task' = [new EXCEPT ![t] = ClaimedRow(new[t])]
  PROVE  /\ task' \in [Task -> Row]
         /\ \A u \in Task \ {t} : task'[u] = new[u] /\ Quiet(task[u], task'[u])
         /\ Waiting(task[t]) /\ Waiting(new[t])
         /\ task'[t].status = "running" /\ task'[t].token = tok + 1
         /\ task'[t].attempt = new[t].attempt + 1 /\ new[t].attempt <= tok
<1>1. Waiting(new[t])
  BY ClaimableWaits
<1>2. Waiting(task[t])
  BY <1>1 DEF Kept, Waiting, WaitingTaskStatuses
<1>3. \A u \in Task : Quiet(task[u], new[u])
  BY KeptQuiet
<1>4. new[t].attempt <= tok /\ tok \in Token
  <2>1. /\ new[t].attempt <= task[t].attempt /\ task[t].attempt <= tok
        /\ new[t].attempt \in Nat /\ task[t].attempt \in Nat /\ tok \in Nat /\ tok \in Token
    BY <1>3, QuietAttempt, Parts, Bounds DEF IInv, Rows, Row, Others
  <2> QED BY <2>1
<1>5. /\ ClaimedRow(new[t]) \in Row /\ ClaimedRow(new[t]).status = "running"
      /\ ClaimedRow(new[t]).token = tok + 1 /\ ClaimedRow(new[t]).attempt = new[t].attempt + 1
  BY <1>4, ClaimedFields
<1> QED BY <1>1, <1>2, <1>3, <1>4, <1>5

-----------------------------------------------------------------------------
\* The invariant

LEMMA InitInv == Init => IInv
<1> SUFFICES ASSUME Init PROVE IInv
  OBVIOUS
<1>1. task \in [Task -> Row] /\ stale \in Stales
  BY NewRowType DEF Init, Stales
<1>2. exec \in Execs
  BY Bounds DEF Init, Execs, IdleExec, ExecPc
<1>3. disp \in Disps /\ due \in Dues
  BY DEF Init, Disps, Dues
<1>4. tok \in Token /\ repairs \in 0..MaxRepairs /\ boot \in 1..MaxBoots
  BY RegistryAssumption DEF Init, Token
<1>5. TypeOK
  BY <1>1, <1>2, <1>3, <1>4 DEF Init, TypeOK, Execs, Disps, Stales, Dues, RunStatuses
<1>6. Rows
  BY DEF Init, Rows, Owned, NewRow, Active, ActiveTaskStatuses
<1> QED BY <1>5, <1>6 DEF IInv

LEMMA StepInv == IInv /\ [Next]_vars => IInv'
<1> SUFFICES ASSUME IInv, [Next]_vars PROVE IInv'
  OBVIOUS
<1>1. ASSUME task' \in [Task -> Row], Others' PROVE TypeOK'
  BY <1>1 DEF TypeOK, Others, Execs, Disps, Stales, Dues
<1>2. \A t \in Task : /\ Owned(task[t]) /\ task[t].attempt <= tok
                      /\ task[t].attempt \in Nat /\ tok \in Nat
  BY Parts, Bounds DEF IInv, Rows, Row, Others
<1>3. ASSUME NEW t \in Task, Quiet(task[t], task'[t]), tok' = tok \/ tok' = tok + 1
      PROVE  Owned(task'[t]) /\ task'[t].attempt <= tok'
  <2>1. Owned(task'[t])
    BY <1>2, <1>3, QuietOwned, Parts
  <2>2. task[t] \in Row /\ task'[t] \in Row /\ task'[t].attempt <= task[t].attempt
    BY <1>3, QuietAttempt, QuietRow, Parts
  <2>3. task'[t].attempt \in Nat
    BY <2>2, Bounds DEF Row
  <2> QED BY <1>2, <1>3, <2>1, <2>2, <2>3
<1>4. CASE QuietStep
  <2>1. Rows'
    BY <1>3, <1>4 DEF QuietStep, RowsMove, Rows, Owned, Active
  <2> QED BY <1>1, <1>4, <2>1 DEF QuietStep, RowsMove, IInv
<1>5. CASE ClaimStep
  <2>1. PICK t \in Task, new \in [Task -> Row] :
          /\ Claimable(t, new) /\ tok < MaxClaims
          /\ \A u \in Task : Kept(task[u], new[u])
          /\ task' = [new EXCEPT ![t] = ClaimedRow(new[t])]
          /\ tok' = tok + 1
          /\ run' = run /\ Others'
    BY <1>5 DEF ClaimStep
  <2>2. /\ task' \in [Task -> Row]
        /\ \A u \in Task \ {t} : Quiet(task[u], task'[u])
        /\ task'[t].status = "running" /\ task'[t].token = tok + 1
        /\ task'[t].attempt = new[t].attempt + 1 /\ new[t].attempt <= tok
    BY <2>1, ClaimFacts
  <2>3. new[t].attempt \in Nat
    BY Bounds DEF Row
  <2>4. Owned(task'[t])
    BY <1>2, <2>2 DEF Owned, Active, ActiveTaskStatuses
  <2>5. task'[t].attempt <= tok'
    BY <1>2, <2>1, <2>2, <2>3
  <2>6. Rows'
    BY <1>3, <2>1, <2>2, <2>4, <2>5 DEF Rows, Owned, Active
  <2> QED BY <1>1, <2>1, <2>2, <2>6 DEF IInv
<1>6. CASE RepairStep
  <2>1. PICK t \in Task :
          /\ task' \in [Task -> Row]
          /\ task'[t].token = 0 /\ task'[t].attempt = task[t].attempt
          /\ task'[t].status \in {"blocked", "queued", "skipped"} \cup RepairableTaskStatuses
          /\ \A u \in Task \ {t} : Quiet(task[u], task'[u])
          /\ Others' /\ tok' = tok
    BY <1>6 DEF RepairStep
  <2>2. Owned(task'[t])
    BY <2>1 DEF Owned, Active, ActiveTaskStatuses, RepairableTaskStatuses, FailedTaskStatuses
  <2>3. task'[t].attempt <= tok'
    BY <1>2, <2>1
  <2>4. Rows'
    BY <1>3, <2>1, <2>2, <2>3 DEF Rows, Owned, Active
  <2> QED BY <1>1, <2>1, <2>4 DEF IInv
<1> QED BY <1>4, <1>5, <1>6, Steps

LEMMA Invariance == Spec => []IInv
BY InitInv, StepInv, PTL DEF Spec

\* Every variable stays in its range for every graph, policy, budget and bound: the
\* registry, worker and reconciliation statements only write statuses of domain-states.js.
THEOREM TypeCorrect == Spec => []TypeOK
BY Invariance, PTL DEF IInv

\* The claim token of a row is set exactly while its status is active
\* (claimTask, finishClaim, recoverInterruptedTasks, cancelTask, repairTaskContract).
THEOREM ClaimsAreOwned == Spec => []OwnedIffActive
<1>1. IInv => OwnedIffActive
  BY DEF IInv, Rows, Owned, OwnedIffActive
<1> QED BY <1>1, Invariance, PTL

\* The attempt budget: retry_waiting is written by finishFailureClaim only below max, and
\* neither a wait for a lease, a claim, nor a repair lifts a waiting retry over its budget.
THEOREM RetriesHaveBudget == Spec => []RetryHasBudget
<1>1. Init => RetryHasBudget
  BY DEF Init, NewRow, RetryHasBudget
<1>2. RetryHasBudget /\ IInv /\ [Next]_vars => RetryHasBudget'
  <2> SUFFICES ASSUME RetryHasBudget, IInv, [Next]_vars, NEW t \in Task,
                      task'[t].status = "retry_waiting"
               PROVE  task'[t].attempt < task'[t].max
    BY DEF RetryHasBudget
  <2>1. ASSUME Quiet(task[t], task'[t]) PROVE task'[t].attempt < task'[t].max
    BY <2>1 DEF Quiet, May, Placed, RetryHasBudget, RepairableTaskStatuses, FailedTaskStatuses
  <2>2. CASE QuietStep
    BY <2>1, <2>2 DEF QuietStep, RowsMove
  <2>3. CASE ClaimStep
    BY <2>1, <2>3, ClaimFacts DEF ClaimStep
  <2>4. CASE RepairStep
    BY <2>1, <2>4 DEF RepairStep, RepairableTaskStatuses, FailedTaskStatuses
  <2> QED BY <2>2, <2>3, <2>4, Steps
<1> QED BY <1>1, <1>2, Invariance, PTL DEF Spec

\* A continuation is active or successful only over successful dependencies, for every
\* dependency graph: claimTask checks them, and nothing changes a completed Task.
THEOREM SuccessorsOfSuccess == Spec => []SuccessorsFollowSuccess
<1>1. Init => SuccessorsFollowSuccess
  BY DEF Init, NewRow, SuccessorsFollowSuccess, Active, Succeeded, ActiveTaskStatuses
<1>2. SuccessorsFollowSuccess /\ IInv /\ [Next]_vars => SuccessorsFollowSuccess'
  <2> SUFFICES ASSUME SuccessorsFollowSuccess, IInv, [Next]_vars,
                      NEW t \in Task, Policy[t] = "all_success",
                      Active(task'[t]) \/ Succeeded(task'[t]), NEW d \in Deps[t]
               PROVE  Succeeded(task'[d])
    BY DEF SuccessorsFollowSuccess, Active, Succeeded
  <2>1. d \in Task /\ task[t] \in Row /\ task[d] \in Row
    BY RegistryAssumption, Parts
  <2>2. ASSUME Quiet(task[t], task'[t]) PROVE Succeeded(task[d])
    <3>1. Active(task[t]) \/ Succeeded(task[t])
      BY <2>1, <2>2, QuietActive
    <3> QED BY <3>1 DEF SuccessorsFollowSuccess, Succeeded
  <2>3. ASSUME Succeeded(task[d]), Quiet(task[d], task'[d]) PROVE Succeeded(task'[d])
    BY <2>1, <2>3, TerminalStays, Kinds
  <2>4. CASE QuietStep
    BY <2>1, <2>2, <2>3, <2>4 DEF QuietStep, RowsMove
  <2>5. CASE ClaimStep
    <3>1. PICK u \in Task, new \in [Task -> Row] :
            /\ Claimable(u, new) /\ tok < MaxClaims
            /\ \A v \in Task : Kept(task[v], new[v])
            /\ task' = [new EXCEPT ![u] = ClaimedRow(new[u])]
      BY <2>5 DEF ClaimStep
    <3>2. /\ \A v \in Task \ {u} : task'[v] = new[v] /\ Quiet(task[v], task'[v])
          /\ Waiting(task[u]) /\ Waiting(new[u])
      BY <3>1, ClaimFacts
    <3>3. CASE t = u
      <4>1. Succeeded(new[d])
        BY <3>1, <3>3 DEF Claimable
      <4>2. d # u
        BY <2>1, <3>2, <4>1, Kinds
      <4> QED BY <2>1, <3>2, <4>1, <4>2
    <3>4. CASE t # u
      <4>1. Succeeded(task[d])
        BY <2>2, <3>2, <3>4
      <4>2. d # u
        BY <2>1, <3>2, <4>1, Kinds
      <4> QED BY <2>1, <2>3, <3>2, <4>1, <4>2
    <3> QED BY <3>3, <3>4
  <2>6. CASE RepairStep
    <3>1. PICK u \in Task :
            /\ HasFailed(task[u])
            /\ task'[u].status \in {"blocked", "queued", "skipped"} \cup RepairableTaskStatuses
            /\ \A v \in Task \ {u} : Quiet(task[v], task'[v])
      BY <2>6 DEF RepairStep
    <3>2. t # u
      BY <3>1 DEF Active, Succeeded, ActiveTaskStatuses, RepairableTaskStatuses, FailedTaskStatuses
    <3>3. Succeeded(task[d])
      BY <2>2, <3>1, <3>2
    <3>4. d # u
      BY <2>1, <3>1, <3>3, Kinds
    <3> QED BY <2>1, <2>3, <3>1, <3>3, <3>4
  <2> QED BY <2>4, <2>5, <2>6, Steps
<1> QED BY <1>1, <1>2, Invariance, PTL DEF Spec

\* A Run that has ended has only ended Tasks: refreshRun, cancelRun and failPreparedRun
\* settle it with its Tasks, a claim finds none to run, a repair derives it anew.
THEOREM RunsSettleLast == Spec => []RunSettledWithTasks
<1>1. Init => RunSettledWithTasks
  BY DEF Init, RunSettledWithTasks, TerminalRunStatuses
<1>2. RunSettledWithTasks /\ IInv /\ [Next]_vars => RunSettledWithTasks'
  <2> SUFFICES ASSUME RunSettledWithTasks, IInv, [Next]_vars, run' \in TerminalRunStatuses,
                      NEW t \in Task
               PROVE  Terminal(task'[t])
    BY DEF RunSettledWithTasks, Terminal
  <2>1. \A u \in Task : task[u] \in Row
    BY Parts
  <2>2. CASE QuietStep
    <3>1. CASE run' = run
      BY <2>1, <2>2, <3>1, TerminalStays DEF QuietStep, RowsMove, RunSettledWithTasks
    <3>2. CASE run' # run
      BY <2>2, <3>2 DEF QuietStep, RunMoves
    <3> QED BY <3>1, <3>2
  <2>3. CASE ClaimStep
    <3>1. PICK u \in Task, new \in [Task -> Row] :
            /\ Claimable(u, new) /\ tok < MaxClaims
            /\ \A v \in Task : Kept(task[v], new[v])
            /\ task' = [new EXCEPT ![u] = ClaimedRow(new[u])] /\ run' = run
      BY <2>3 DEF ClaimStep
    <3>2. Waiting(task[u])
      BY <3>1, ClaimFacts
    <3> QED BY <2>1, <3>1, <3>2, Kinds DEF RunSettledWithTasks
  <2>4. CASE RepairStep
    BY <2>4 DEF RepairStep, RunReopens
  <2> QED BY <2>2, <2>3, <2>4, Steps
<1> QED BY <1>1, <1>2, Invariance, PTL DEF Spec

-----------------------------------------------------------------------------
\* The registry implements the claim life cycle

LEMMA Phases ==
  ASSUME NEW row \in Row
  PROVE  /\ Active(row) => Phase(row) = "owned"
         /\ Waiting(row) => Phase(row) = "waiting"
         /\ Succeeded(row) => Phase(row) = "completed"
         /\ HasFailed(row) => Phase(row) = "failed"
         /\ row.status = "skipped" => Phase(row) = "skipped"
BY Kinds DEF Phase, Succeeded, HasFailed, Active, Waiting, RepairableTaskStatuses, FailedTaskStatuses,
   ActiveTaskStatuses, WaitingTaskStatuses

\* What a quiet step is for a claim: it stays, ends or is dropped.
LEMMA QuietPhases ==
  ASSUME NEW old \in Row, NEW new, Owned(old), Quiet(old, new)
  PROVE  /\ \/ Phase(new) = Phase(old) /\ new.token = old.token
            \/ /\ Phase(old) = "owned" /\ Phase(new) \in {"waiting", "completed", "failed"}
               /\ new.token = 0
            \/ /\ Phase(old) = "waiting" /\ Phase(new) \in {"skipped", "failed"}
               /\ new.token = 0
         /\ Phase(old) = "waiting" => Phase(new) # "owned"
<1>1. new \in Row
  BY QuietRow
<1>2. CASE new = old
  <2>1. Phase(old) = "waiting" => Phase(old) # "owned"
    OBVIOUS
  <2> QED BY <1>2, <2>1
<1>3. CASE Active(old) /\ May(old, new)
  <2>1. Phase(old) = "owned"
    BY <1>3, Phases
  <2>2. CASE Ongoing(old, new)
    BY <1>1, <2>1, <2>2, Phases DEF Ongoing
  <2>3. CASE Ending(old, new)
    <3>1. new.token = 0 /\ new.status # "skipped" /\ (Waiting(new) \/ Terminal(new))
      BY <2>3 DEF Ending, Waiting, Terminal
    <3>2. Waiting(new) \/ Succeeded(new) \/ HasFailed(new)
      BY <1>1, <3>1, Kinds
    <3> QED BY <1>1, <2>1, <3>1, <3>2, Phases
  <2> QED BY <1>3, <2>2, <2>3 DEF May
<1>4. CASE Waiting(old) /\ Placed(old, new)
  <2>1. Phase(old) = "waiting" /\ old.token = 0 /\ new.token = 0
    BY <1>4, Phases, Kinds DEF Owned, Placed
  <2>2. Waiting(new) \/ HasFailed(new) \/ new.status = "skipped"
    BY <1>4 DEF Placed, Waiting, HasFailed, WaitingTaskStatuses
  <2> QED BY <1>1, <2>1, <2>2, Phases
<1> QED BY <1>2, <1>3, <1>4 DEF Quiet

LEMMA ClaimsInit == Init => Claims!Init
BY DEF Init, Claims!Init, NewRow, Phase, Succeeded, HasFailed, Active, RepairableTaskStatuses,
   FailedTaskStatuses, ActiveTaskStatuses

\* A Task that moves quietly is granted nothing and moves as the life cycle allows.
LEMMA QuietMove ==
  ASSUME IInv, NEW t \in Task, Quiet(task[t], task'[t])
  PROVE  Claims!Move(t) /\ ~ Claims!Granted(t)
<1>1. task[t] \in Row /\ Owned(task[t])
  BY Parts DEF IInv, Rows
<1>2. /\ \/ Phase(task'[t]) = Phase(task[t]) /\ task'[t].token = task[t].token
         \/ /\ Phase(task[t]) = "owned" /\ Phase(task'[t]) \in {"waiting", "completed", "failed"}
            /\ task'[t].token = 0
         \/ /\ Phase(task[t]) = "waiting" /\ Phase(task'[t]) \in {"skipped", "failed"}
            /\ task'[t].token = 0
      /\ Phase(task[t]) = "waiting" => Phase(task'[t]) # "owned"
  BY <1>1, QuietPhases
<1>3. ~ Claims!Granted(t)
  BY <1>2 DEF Claims!Granted
<1>4. CASE Phase(task'[t]) = Phase(task[t]) /\ task'[t].token = task[t].token
  BY <1>3, <1>4 DEF Claims!Move, Claims!Stays
<1>5. CASE /\ Phase(task[t]) = "owned" /\ Phase(task'[t]) \in {"waiting", "completed", "failed"}
           /\ task'[t].token = 0
  BY <1>3, <1>5 DEF Claims!Move, Claims!Settled, Claims!Becomes
<1>6. CASE /\ Phase(task[t]) = "waiting" /\ Phase(task'[t]) \in {"skipped", "failed"}
           /\ task'[t].token = 0
  BY <1>3, <1>6 DEF Claims!Move, Claims!Dropped, Claims!Becomes
<1> QED BY <1>2, <1>3, <1>4, <1>5, <1>6

LEMMA ClaimsStep == IInv /\ [Next]_vars => [Claims!Next]_(Claims!cvars)
<1> SUFFICES ASSUME IInv, [Next]_vars PROVE Claims!Next
  OBVIOUS
<1>1. CASE QuietStep
  <2>1. \A t \in Task : Claims!Move(t) /\ ~ Claims!Granted(t)
    BY <1>1, QuietMove DEF QuietStep, RowsMove
  <2> QED BY <1>1, <2>1 DEF QuietStep, Claims!Next
<1>2. CASE ClaimStep
  <2>1. PICK t \in Task, new \in [Task -> Row] :
          /\ Claimable(t, new) /\ tok < MaxClaims
          /\ \A u \in Task : Kept(task[u], new[u])
          /\ task' = [new EXCEPT ![t] = ClaimedRow(new[t])]
          /\ tok' = tok + 1
    BY <1>2 DEF ClaimStep
  <2>2. /\ task' \in [Task -> Row]
        /\ \A u \in Task \ {t} : Quiet(task[u], task'[u])
        /\ Waiting(task[t]) /\ task'[t].status = "running" /\ task'[t].token = tok + 1
    BY <2>1, ClaimFacts
  <2>3. \A u \in Task \ {t} : Claims!Move(u) /\ ~ Claims!Granted(u)
    BY <2>2, QuietMove
  <2>4. Phase(task[t]) = "waiting" /\ Phase(task'[t]) = "owned"
    BY <2>2, Phases, Parts DEF Active, ActiveTaskStatuses
  <2>5. Claims!Granted(t)
    BY <2>1, <2>2, <2>4 DEF Claims!Granted
  <2> QED BY <2>1, <2>3, <2>5 DEF Claims!Next, Claims!Move
<1>3. CASE RepairStep
  <2>1. PICK t \in Task :
          /\ HasFailed(task[t])
          /\ task' \in [Task -> Row]
          /\ task'[t].token = 0
          /\ task'[t].status \in {"blocked", "queued", "skipped"} \cup RepairableTaskStatuses
          /\ \A u \in Task \ {t} : Quiet(task[u], task'[u])
          /\ tok' = tok
    BY <1>3 DEF RepairStep
  <2>2. \A u \in Task \ {t} : Claims!Move(u) /\ ~ Claims!Granted(u)
    BY <2>1, QuietMove
  <2>3. Phase(task[t]) = "failed" /\ task[t].token = 0
    BY <2>1, Phases, Kinds, Parts DEF IInv, Rows, Owned, Terminal
  <2>4. Phase(task'[t]) \in {"waiting", "skipped", "failed"}
    <3>1. Waiting(task'[t]) \/ HasFailed(task'[t]) \/ task'[t].status = "skipped"
      BY <2>1 DEF Waiting, HasFailed, WaitingTaskStatuses
    <3> QED BY <2>1, <3>1, Phases
  <2>5. ~ Claims!Granted(t)
    BY <2>3 DEF Claims!Granted
  <2>6. Claims!Move(t)
    BY <2>1, <2>3, <2>4 DEF Claims!Move, Claims!Stays, Claims!Reopened, Claims!Becomes
  <2> QED BY <2>1, <2>2, <2>5, <2>6 DEF Claims!Next
<1> QED BY <1>1, <1>2, <1>3, Steps

\* The registry implements ClaimLifecycle: whatever workers, reconciliations, the user
\* and restarts write, a Task has one owner at a time with a token of its own, only an
\* owned Task completes, and a completed one never changes.
THEOREM ClaimsImplemented == Spec => ImplementsClaims
BY ClaimsInit, ClaimsStep, Invariance, PTL DEF Spec, ImplementsClaims, Claims!Spec
=============================================================================
