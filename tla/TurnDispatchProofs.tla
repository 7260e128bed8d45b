------------------------- MODULE TurnDispatchProofs -------------------------
(***************************************************************************)
(* Theorems about TurnDispatch for every value of its constants.           *)
(***************************************************************************)
EXTENDS TurnDispatch, TLAPS

Unsubmitted == PreSubmission \cup {"absent"}

\* What one step may do to a row.
Advances(old, new) ==
  /\ Terminal(old) => new.status = old.status \/ ObservedTerminal(old.status, new.status)
  /\ new.status \in Unsubmitted => old.status \in Unsubmitted
  /\ \/ new.gen = old.gen /\ (old.status = "cancelling" => new.status = "cancelling" \/ Terminal(new))
     \/ new.status = "cancelling"
     \/ old.status = "absent" /\ new.gen = 0

-----------------------------------------------------------------------------
\* Rows

\* The table never leaves a terminal status, never returns before the submission
\* and leads a cancelling row only to its end.
LEMMA LegalFacts ==
  ASSUME NEW from, NEW to, LegalDispatch(from, to)
  PROVE  /\ from \in TerminalTurnDispatchStatuses => to = from
         /\ to \in Unsubmitted => from \in Unsubmitted
         /\ from = "cancelling" => to = "cancelling" \/ to \in TerminalTurnDispatchStatuses
BY DEF LegalDispatch, TurnDispatchTransitions, TerminalTurnDispatchStatuses, Unsubmitted, PreSubmission

\* Writing a status that the vocabulary has keeps a row well-formed.
LEMMA StatusType ==
  ASSUME NEW row \in Row, NEW status \in TurnDispatchStatuses
  PROVE  /\ Status(row, status) \in Row
         /\ Status(row, status).status = status
         /\ Status(row, status).gen = row.gen
         /\ Status(row, status).owner = row.owner
         /\ Status(row, status).thread = row.thread
         /\ Status(row, status).turn = row.turn
BY DEF Status, Row

LEMMA AbsentType == Absent \in Row
BY DispatchAssumption DEF Absent, Row

\* A new claim changes only the owner.
LEMMA NewClaimType ==
  ASSUME NEW row \in Row, boot \in 1..MaxBoots
  PROVE  NewClaim(row) \in Row /\ NewClaim(row).status = row.status /\ NewClaim(row).gen = row.gen
         /\ NewClaim(row).thread = row.thread /\ NewClaim(row).turn = row.turn
<1>1. row.owner + 1 \in Nat
  BY DEF Row
<1>2. boot \in 0..MaxBoots
  BY DispatchAssumption
<1> QED BY <1>1, <1>2 DEF NewClaim, Row

LEMMA AdvancesSame == ASSUME NEW row PROVE Advances(row, row)
BY DEF Advances

\* What the catches write.
LEMMA FailBeforeAdvances ==
  ASSUME NEW row \in Row
  PROVE  FailBeforeSubmission(row) \in Row /\ Advances(row, FailBeforeSubmission(row))
<1>1. "failed" \in TurnDispatchStatuses
  BY DEF TurnDispatchStatuses, TerminalTurnDispatchStatuses
<1>2. CASE Active(row) /\ row.status # "cancelling"
  BY <1>1, <1>2, StatusType
     DEF FailBeforeSubmission, Advances, Active, Terminal, ObservedTerminal, Unsubmitted, PreSubmission,
         ActiveTurnDispatchStatuses, TerminalTurnDispatchStatuses
<1>3. CASE ~ (Active(row) /\ row.status # "cancelling")
  BY <1>3, AdvancesSame DEF FailBeforeSubmission
<1> QED BY <1>2, <1>3

LEMMA AfterFenceAdvances ==
  ASSUME NEW d, NEW row \in Row
  PROVE  AfterFence(d, row) \in Row /\ Advances(row, AfterFence(d, row))
<1>1. "cancelled" \in TurnDispatchStatuses
  BY DEF TurnDispatchStatuses, TerminalTurnDispatchStatuses
<1>2. CASE row.status = "cancelling"
  BY <1>1, <1>2, StatusType
     DEF AfterFence, Advances, Terminal, ObservedTerminal, Unsubmitted, PreSubmission,
         TerminalTurnDispatchStatuses
<1>3. CASE row.status # "cancelling"
  BY <1>3, FailBeforeAdvances, AdvancesSame DEF AfterFence
<1> QED BY <1>2, <1>3

LEMMA CaughtRowAdvances ==
  ASSUME NEW d, NEW row \in Row, NEW error
  PROVE  CaughtRow(d, row, error) \in Row /\ Advances(row, CaughtRow(d, row, error))
<1>1. {"failed", "recovery_attention"} \subseteq TurnDispatchStatuses
  BY DEF TurnDispatchStatuses, TerminalTurnDispatchStatuses
<1>2. CASE Terminal(row) \/ MustInterrupt(row, error)
  BY <1>2, AdvancesSame DEF CaughtRow
<1>3. CASE ~ (Terminal(row) \/ MustInterrupt(row, error)) /\ error = "before"
  BY <1>3, FailBeforeAdvances DEF CaughtRow
<1>4. CASE ~ (Terminal(row) \/ MustInterrupt(row, error)) /\ error # "before"
           /\ (error = "fenced" \/ row.status = "cancelling")
  BY <1>4, AfterFenceAdvances DEF CaughtRow
<1>5. CASE ~ (Terminal(row) \/ MustInterrupt(row, error)) /\ error # "before"
           /\ ~ (error = "fenced" \/ row.status = "cancelling")
  <2>1. CaughtRow(d, row, error) \in {Status(row, "failed"), Status(row, "recovery_attention")}
    BY <1>5 DEF CaughtRow
  <2>2. Advances(row, Status(row, "failed")) /\ Advances(row, Status(row, "recovery_attention"))
    BY <1>1, <1>5, StatusType
       DEF Advances, Terminal, Unsubmitted, PreSubmission
  <2> QED BY <1>1, <2>1, <2>2, StatusType
<1> QED BY <1>2, <1>3, <1>4, <1>5

-----------------------------------------------------------------------------
\* Steps of the calls

Moves == \A e \in Dispatch : Advances(disp[e], disp'[e])

ExecType == [Dispatch -> [Caller -> [pc : ExecPc, row : Row]]]
ReconType == [Dispatch -> [pc : ReconPc, row : Row]]
TurnType == [Dispatch -> [TurnId -> [st : {"none", "sent", "refused"} \cup Accepted,
                                     thread : SUBSET Thread, stop : BOOLEAN]]]

LEMMA WriteRow ==
  ASSUME disp \in [Dispatch -> Row], NEW d \in Dispatch, NEW new \in Row,
         Advances(disp[d], new), disp' = [disp EXCEPT ![d] = new]
  PROVE  disp' \in [Dispatch -> Row] /\ Moves
BY AdvancesSame DEF Moves

LEMMA SameRows ==
  ASSUME disp \in [Dispatch -> Row], disp' = disp
  PROVE  disp' \in [Dispatch -> Row] /\ Moves
BY AdvancesSame DEF Moves

LEMMA WriteExec ==
  ASSUME exec \in ExecType, NEW d \in Dispatch, NEW c \in Caller, NEW pc \in ExecPc, NEW row \in Row,
         exec' = [exec EXCEPT ![d][c] = At(pc, row)]
  PROVE  exec' \in ExecType
BY DEF ExecType, At

LEMMA DoneExec ==
  ASSUME exec \in ExecType, NEW d \in Dispatch, NEW c \in Caller, exec' = [exec EXCEPT ![d][c] = Done]
  PROVE  exec' \in ExecType
BY AbsentType DEF ExecType, At, Done, ExecPc

LEMMA PcExec ==
  ASSUME exec \in ExecType, NEW d \in Dispatch, NEW c \in Caller, NEW pc \in ExecPc,
         exec' = [exec EXCEPT ![d][c].pc = pc]
  PROVE  exec' \in ExecType
<1>1. exec[d] \in [Caller -> [pc : ExecPc, row : Row]]
  BY DEF ExecType
<1>2. [exec[d][c] EXCEPT !.pc = pc] \in [pc : ExecPc, row : Row]
  BY <1>1
<1>3. [exec[d] EXCEPT ![c].pc = pc] \in [Caller -> [pc : ExecPc, row : Row]]
  BY <1>1, <1>2
<1> QED BY <1>3 DEF ExecType

LEMMA CaughtStep ==
  ASSUME disp \in [Dispatch -> Row], exec \in ExecType, NEW d \in Dispatch, NEW c \in Caller,
         NEW row \in Row, NEW error, Advances(disp[d], CaughtRow(d, row, error)), Caught(d, c, row, error)
  PROVE  disp' \in [Dispatch -> Row] /\ exec' \in ExecType /\ Moves
<1>1. disp' \in [Dispatch -> Row] /\ Moves
  BY CaughtRowAdvances, WriteRow DEF Caught
<1>2. CASE MustInterrupt(row, error)
  <2>1. exec' = [exec EXCEPT ![d][c] = At("interrupting", row)]
    BY <1>2 DEF Caught
  <2> QED BY <1>1, <2>1, WriteExec DEF ExecPc
<1>3. CASE ~ MustInterrupt(row, error)
  <2>1. exec' = [exec EXCEPT ![d][c] = Done]
    BY <1>3 DEF Caught
  <2> QED BY <1>1, <2>1, DoneExec
<1> QED BY <1>2, <1>3

\* The usual case: the catch looks at the stored row.
LEMMA CaughtStored ==
  ASSUME disp \in [Dispatch -> Row], exec \in ExecType, NEW d \in Dispatch, NEW c \in Caller,
         NEW error, Caught(d, c, disp[d], error)
  PROVE  disp' \in [Dispatch -> Row] /\ exec' \in ExecType /\ Moves
<1>1. disp[d] \in Row
  OBVIOUS
<1> QED BY <1>1, CaughtRowAdvances, CaughtStep

LEMMA GoesStep ==
  ASSUME disp \in [Dispatch -> Row], exec \in ExecType, NEW d \in Dispatch, NEW c \in Caller,
         NEW pc \in ExecPc, NEW row \in Row, Advances(disp[d], row), Goes(d, c, pc, row)
  PROVE  disp' \in [Dispatch -> Row] /\ exec' \in ExecType /\ Moves
BY WriteRow, WriteExec DEF Goes

\* A status the table allows is an advance.
LEMMA LegalAdvances ==
  ASSUME NEW old \in Row, NEW new \in Row, new.gen = old.gen,
         LegalDispatch(old.status, new.status)
  PROVE  Advances(old, new)
BY LegalFacts DEF Advances, Terminal

LEMMA AskStopType ==
  ASSUME turn \in TurnType, NEW d \in Dispatch, NEW ids, AskStop(d, ids)
  PROVE  turn' \in TurnType
<1> DEFINE asked(i) == IF i \in ids THEN [turn[d][i] EXCEPT !.stop = TRUE] ELSE turn[d][i]
<1> DEFINE Turn == [st : {"none", "sent", "refused"} \cup Accepted, thread : SUBSET Thread, stop : BOOLEAN]
<1>1. ASSUME NEW i \in TurnId PROVE asked(i) \in Turn
  <2>1. turn[d][i] \in Turn
    BY DEF TurnType
  <2>2. [turn[d][i] EXCEPT !.stop = TRUE] \in Turn
    BY <2>1
  <2> QED BY <2>1, <2>2
<1>2. turn' = [turn EXCEPT ![d] = [i \in TurnId |-> asked(i)]]
  BY DEF AskStop
<1> HIDE DEF asked
<1> QED BY <1>1, <1>2 DEF TurnType

LEMMA StartType ==
  ASSUME turn \in TurnType, NEW d \in Dispatch, NEW i \in TurnId, NEW thread \in SUBSET Thread,
         Start(d, i, thread)
  PROVE  turn' \in TurnType
BY DEF Start, TurnType

LEMMA OwnTurn == ASSUME NEW c \in Caller, boot \in 1..MaxBoots PROVE <<c, boot>> \in TurnId
BY DEF TurnId

Rest == <<late, canc, parent, session, boot>>

\* TypeOK with its large sets named, in both states.
LEMMA TypeParts ==
  /\ TypeOK <=> /\ disp \in [Dispatch -> Row]
                /\ exec \in ExecType /\ recon \in ReconType /\ turn \in TurnType
                /\ late \in SUBSET Dispatch
                /\ canc \in [Parent -> [on : BOOLEAN, left : SUBSET Dispatch]]
                /\ parent \in [Parent -> {"active", "terminal"}]
                /\ session \in SUBSET Thread /\ boot \in 1..MaxBoots
  /\ TypeOK' <=> /\ disp' \in [Dispatch -> Row]
                 /\ exec' \in ExecType /\ recon' \in ReconType /\ turn' \in TurnType
                 /\ late' \in SUBSET Dispatch
                 /\ canc' \in [Parent -> [on : BOOLEAN, left : SUBSET Dispatch]]
                 /\ parent' \in [Parent -> {"active", "terminal"}]
                 /\ session' \in SUBSET Thread /\ boot' \in 1..MaxBoots
BY DEF TypeOK, ExecType, ReconType, TurnType

LEMMA InterruptedStep ==
  ASSUME TypeOK, NEW d \in Dispatch, NEW c \in Caller, Interrupted(d, c)
  PROVE  TypeOK' /\ Moves
<1>1. disp' = [disp EXCEPT ![d] = AfterFence(d, disp[d])] /\ disp[d] \in Row
  BY TypeParts DEF Interrupted
<1>2. disp' \in [Dispatch -> Row] /\ Moves
  BY <1>1, TypeParts, AfterFenceAdvances, WriteRow
<1>3. turn' \in TurnType
  BY TypeParts, AskStopType DEF Interrupted
<1>4. exec' \in ExecType
  BY TypeParts, DoneExec DEF Interrupted
<1> QED BY <1>2, <1>3, <1>4, TypeParts DEF Interrupted

LEMMA ResponseStep ==
  ASSUME TypeOK, NEW d \in Dispatch, NEW c \in Caller, Response(d, c)
  PROVE  TypeOK' /\ Moves
<1>1. UNCHANGED <<late, turn, recon, canc, parent, session, boot>>
  BY DEF Response
<1>2. disp \in [Dispatch -> Row] /\ disp[d] \in Row /\ exec \in ExecType /\ boot \in 1..MaxBoots
  BY TypeParts
<1>3. CASE \E error \in {"fenced", "error"} : Caught(d, c, disp[d], error)
  BY <1>1, <1>2, <1>3, CaughtStored, TypeParts
<1>4. CASE LegalDispatch(disp[d].status, "turn_running")
           /\ Goes(d, c, "running", [disp[d] EXCEPT !.status = "turn_running", !.turn = {<<c, boot>>}])
  <2> DEFINE new == [disp[d] EXCEPT !.status = "turn_running", !.turn = {<<c, boot>>}]
  <2>1. new \in Row /\ new.gen = disp[d].gen /\ new.status = "turn_running"
    BY <1>2, OwnTurn DEF Row, TurnDispatchStatuses, ActiveTurnDispatchStatuses
  <2>2. Advances(disp[d], new)
    BY <1>2, <1>4, <2>1, LegalAdvances
  <2> QED BY <1>1, <1>2, <1>4, <2>1, <2>2, GoesStep, TypeParts DEF ExecPc
<1> QED BY <1>3, <1>4 DEF Response

LEMMA TimeOutStep ==
  ASSUME TypeOK, NEW d \in Dispatch, NEW c \in Caller, StartTimesOut(d, c)
  PROVE  TypeOK' /\ Moves
BY CaughtStored, TypeParts DEF StartTimesOut

LEMMA AbandonedStep ==
  ASSUME TypeOK, NEW d \in Dispatch, NEW c \in Caller, Abandoned(d, c)
  PROVE  TypeOK' /\ Moves
BY CaughtStored, TypeParts DEF Abandoned

\* What the earlier claims keep: the row of the registry, perhaps under a new token.
LEMMA ClaimsType ==
  ASSUME NEW d \in Dispatch, NEW prepared \in Row, NEW row \in Claims(d, prepared), boot \in 1..MaxBoots
  PROVE  row \in Row /\ row.status = prepared.status /\ row.gen = prepared.gen
BY NewClaimType DEF Claims

LEMMA EntryType ==
  ASSUME NEW row \in Row, Active(row), row.status # "cancelling"
  PROVE  /\ EntryPc(row) \in ExecPc
         /\ EntryRow(row) \in Row
         /\ Advances(row, EntryRow(row))
<1>1. {"thread_acquiring", "turn_running"} \subseteq TurnDispatchStatuses
  BY DEF TurnDispatchStatuses, ActiveTurnDispatchStatuses
<1>2. EntryRow(row) \in {row, Status(row, "thread_acquiring"), Status(row, "turn_running")}
  BY DEF EntryRow
<1>3. EntryRow(row) \in Row /\ EntryRow(row).gen = row.gen
  BY <1>1, <1>2, StatusType
<1>4. EntryPc(row) \in ExecPc
  BY DEF EntryPc, ExecPc
<1>5. row.status \in {"prepared", "thread_acquiring", "thread_created", "turn_submitting", "turn_running"}
  BY DEF Active, ActiveTurnDispatchStatuses
<1>6. CASE row.status \in {"prepared", "thread_acquiring"}
  <2>1. EntryRow(row) = Status(row, "thread_acquiring")
    BY <1>6 DEF EntryRow
  <2>2. Advances(row, Status(row, "thread_acquiring"))
    BY <1>1, <1>6, StatusType DEF Advances, Terminal, TerminalTurnDispatchStatuses, Unsubmitted, PreSubmission
  <2> QED BY <1>3, <1>4, <2>1, <2>2
<1>7. CASE row.status = "thread_created"
  BY <1>3, <1>4, <1>7, AdvancesSame DEF EntryRow
<1>8. CASE row.status \in {"turn_submitting", "turn_running"}
  <2>1. EntryRow(row) \in {row, Status(row, "turn_running")}
    BY <1>8 DEF EntryRow
  <2>2. Advances(row, Status(row, "turn_running"))
    BY <1>1, <1>8, StatusType DEF Advances, Terminal, TerminalTurnDispatchStatuses, Unsubmitted, PreSubmission
  <2> QED BY <1>3, <1>4, <2>1, <2>2, AdvancesSame
<1> QED BY <1>3, <1>4, <1>5, <1>6, <1>7, <1>8

\* Advances composes over the claim and the preparation that precede a write.
LEMMA AdvancesFrom ==
  ASSUME NEW old \in Row, NEW mid \in Row, NEW new \in Row,
         \/ mid.gen = old.gen /\ mid.status = old.status
         \/ mid.gen = 0 /\ old.status = "absent" /\ mid.status = "prepared",
         Advances(mid, new)
  PROVE  Advances(old, new)
BY DEF Advances, Terminal, TerminalTurnDispatchStatuses, Unsubmitted, PreSubmission

LEMMA BeginStep ==
  ASSUME TypeOK, NEW d \in Dispatch, NEW c \in Caller, Begin(d, c)
  PROVE  TypeOK' /\ Moves
<1> DEFINE prepared == IF disp[d].status = "absent" THEN Status(Absent, "prepared") ELSE disp[d]
<1>1. UNCHANGED <<late, turn, recon, canc, parent, session, boot>>
  BY DEF Begin
<1>2. disp \in [Dispatch -> Row] /\ disp[d] \in Row /\ exec \in ExecType /\ boot \in 1..MaxBoots
  BY TypeParts
<1>3. PICK row \in Claims(d, prepared) :
        \/ /\ disp' = [disp EXCEPT ![d] = row] /\ exec' = [exec EXCEPT ![d][c] = Done]
        \/ \E error \in {"fenced", "error"} : Caught(d, c, row, error)
        \/ row.status # "cancelling" /\ Goes(d, c, EntryPc(row), EntryRow(row))
  BY DEF Begin
<1>4. Active(prepared)
  BY DEF Begin
<1> HIDE DEF prepared
<1>5. /\ prepared \in Row
      /\ \/ prepared.gen = disp[d].gen /\ prepared.status = disp[d].status
         \/ prepared.gen = 0 /\ disp[d].status = "absent" /\ prepared.status = "prepared"
  <2>1. "prepared" \in TurnDispatchStatuses
    BY DEF TurnDispatchStatuses, ActiveTurnDispatchStatuses
  <2>2. Absent.gen = 0
    BY DEF Absent
  <2> QED BY <1>2, <2>1, <2>2, AbsentType, StatusType DEF prepared
<1>6. row \in Row /\ row.status = prepared.status /\ row.gen = prepared.gen /\ Active(row)
  BY <1>2, <1>4, <1>5, ClaimsType DEF Active
<1>7. ASSUME NEW new \in Row, Advances(row, new) PROVE Advances(disp[d], new)
  BY <1>2, <1>5, <1>6, <1>7, AdvancesFrom
<1>8. CASE disp' = [disp EXCEPT ![d] = row] /\ exec' = [exec EXCEPT ![d][c] = Done]
  BY <1>1, <1>2, <1>6, <1>7, <1>8, AdvancesSame, WriteRow, DoneExec, TypeParts
<1>9. CASE \E error \in {"fenced", "error"} : Caught(d, c, row, error)
  BY <1>1, <1>2, <1>6, <1>7, <1>9, CaughtRowAdvances, CaughtStep, TypeParts
<1>10. CASE row.status # "cancelling" /\ Goes(d, c, EntryPc(row), EntryRow(row))
  BY <1>1, <1>2, <1>6, <1>7, <1>10, EntryType, GoesStep, TypeParts
<1> QED BY <1>3, <1>8, <1>9, <1>10

LEMMA AcquiredStep ==
  ASSUME TypeOK, NEW d \in Dispatch, NEW c \in Caller, Acquired(d, c)
  PROVE  TypeOK' /\ Moves
<1> DEFINE bound(t) == [disp[d] EXCEPT !.status = "thread_created", !.thread = {t}]
<1>1. UNCHANGED <<late, turn, recon, canc, parent, boot>>
  BY DEF Acquired
<1>2. disp \in [Dispatch -> Row] /\ disp[d] \in Row /\ exec \in ExecType
  BY TypeParts
<1>3. PICK t \in ThreadsOf[d] :
        /\ session' = session \cup {t}
        /\ \/ \E error : Caught(d, c, disp[d], error)
           \/ LegalDispatch(disp[d].status, "thread_created") /\ Goes(d, c, "bound", bound(t))
  BY DEF Acquired
<1>4. t \in Thread /\ session' \in SUBSET Thread
  BY <1>3, DispatchAssumption, TypeParts
<1>5. CASE \E error : Caught(d, c, disp[d], error)
  BY <1>1, <1>2, <1>4, <1>5, CaughtStored, TypeParts
<1>6. CASE LegalDispatch(disp[d].status, "thread_created") /\ Goes(d, c, "bound", bound(t))
  <2>1. bound(t) \in Row /\ bound(t).gen = disp[d].gen /\ bound(t).status = "thread_created"
    BY <1>2, <1>4 DEF Row, TurnDispatchStatuses, ActiveTurnDispatchStatuses
  <2>2. Advances(disp[d], bound(t))
    BY <1>2, <1>6, <2>1, LegalAdvances
  <2> QED BY <1>1, <1>2, <1>4, <1>6, <2>1, <2>2, GoesStep, TypeParts DEF ExecPc
<1> QED BY <1>3, <1>5, <1>6

LEMMA SubmitStep ==
  ASSUME TypeOK, NEW d \in Dispatch, NEW c \in Caller, Submit(d, c)
  PROVE  TypeOK' /\ Moves
<1> DEFINE row == Status(disp[d], "turn_submitting")
<1>1. UNCHANGED <<late, recon, canc, parent, session, boot>>
  BY DEF Submit
<1>2. disp \in [Dispatch -> Row] /\ disp[d] \in Row /\ exec \in ExecType /\ turn \in TurnType /\ boot \in 1..MaxBoots
  BY TypeParts
<1>3. row \in Row /\ row.gen = disp[d].gen /\ row.status = "turn_submitting" /\ row.thread \in SUBSET Thread
  <2>1. disp[d].thread \in SUBSET Thread
    BY <1>2 DEF Row
  <2> QED BY <1>2, <2>1, StatusType DEF TurnDispatchStatuses, ActiveTurnDispatchStatuses
<1>4. CASE UNCHANGED turn /\ \E error \in {"fenced", "error"} : Caught(d, c, disp[d], error)
  BY <1>1, <1>2, <1>4, CaughtStored, TypeParts
<1>5. CASE /\ LegalDispatch(disp[d].status, "turn_submitting")
           /\ \/ Goes(d, c, "waiting", row) /\ Start(d, <<c, boot>>, row.thread)
              \/ Goes(d, c, "resuming", row) /\ UNCHANGED turn
  <2>1. Advances(disp[d], row)
    BY <1>2, <1>3, <1>5, LegalAdvances
  <2>2. turn' \in TurnType
    BY <1>2, <1>3, <1>5, OwnTurn, StartType
  <2> QED BY <1>1, <1>2, <1>3, <1>5, <2>1, <2>2, GoesStep, TypeParts DEF ExecPc
<1> QED BY <1>4, <1>5 DEF Submit

LEMMA ResumedStep ==
  ASSUME TypeOK, NEW d \in Dispatch, NEW c \in Caller, Resumed(d, c)
  PROVE  TypeOK' /\ Moves
<1>1. exec[d][c].row.thread \in SUBSET Thread
  BY TypeParts DEF ExecType, Row
<1>2. turn' \in TurnType
  BY <1>1, TypeParts, OwnTurn, StartType DEF Resumed
<1>3. exec' \in ExecType
  BY TypeParts, PcExec DEF Resumed, ExecPc
<1>4. session' \in SUBSET Thread
  BY <1>1, TypeParts DEF Resumed
<1>5. disp' \in [Dispatch -> Row] /\ Moves
  BY TypeParts, SameRows DEF Resumed
<1> QED BY <1>2, <1>3, <1>4, <1>5, TypeParts DEF Resumed

LEMMA CompletedStep ==
  ASSUME TypeOK, NEW d \in Dispatch, NEW c \in Caller, Completed(d, c)
  PROVE  TypeOK' /\ Moves
<1> DEFINE end == turn[d][<<c, boot>>].st
           new == [disp[d] EXCEPT !.status = end, !.turn = {<<c, boot>>}]
<1>1. UNCHANGED <<late, turn, recon, canc, parent, boot>> /\ session' = session \ exec[d][c].row.thread
  BY DEF Completed
<1>2. disp \in [Dispatch -> Row] /\ disp[d] \in Row /\ exec \in ExecType /\ boot \in 1..MaxBoots
  BY TypeParts
<1>3. session' \in SUBSET Thread
  BY <1>1, TypeParts
<1>4. CASE \E error \in {"fenced", "error"} : Caught(d, c, disp[d], error)
  BY <1>1, <1>2, <1>3, <1>4, CaughtStored, TypeParts
<1>5. CASE /\ end \in Ended /\ LegalDispatch(disp[d].status, end)
           /\ disp' = [disp EXCEPT ![d] = EndedRow(@, <<c, boot>>, end)]
           /\ exec' = [exec EXCEPT ![d][c] = Done]
  <2>1. new \in Row /\ new.gen = disp[d].gen /\ new.status = end
    BY <1>2, <1>5, OwnTurn DEF Row, TurnDispatchStatuses, TerminalTurnDispatchStatuses, Ended
  <2>2. disp' = [disp EXCEPT ![d] = new]
    BY <1>2, <1>5 DEF EndedRow
  <2>3. Advances(disp[d], new)
    BY <1>2, <1>5, <2>1, LegalAdvances
  <2>4. disp' \in [Dispatch -> Row] /\ Moves
    BY <1>2, <2>1, <2>2, <2>3, WriteRow
  <2> QED BY <1>1, <1>2, <1>3, <1>5, <2>4, DoneExec, TypeParts
<1> QED BY <1>4, <1>5 DEF Completed

-----------------------------------------------------------------------------
\* Reconciliation

\* Whatever a read shows and whichever row it was compared with, the stored row only advances.
LEMMA ReconciledType ==
  ASSUME NEW d \in Dispatch, disp[d] \in Row, NEW row \in Row, NEW token,
         NEW found \in SUBSET TurnId, NEW o, o = Reconciled(d, row, token, found)
  PROVE  o.row \in Row /\ o.row.gen = disp[d].gen /\ Advances(disp[d], o.row)
<1> DEFINE now == disp[d]
           shown == ShownStatus(d, found)
           bound == IF found = {} THEN now.turn ELSE found
           kept == IF row.status = "turn_submitting" /\ found # {} THEN "turn_running" ELSE row.status
           new(status) == [now EXCEPT !.status = status, !.turn = bound]
<1>1. \/ o.row = now
      \/ /\ o.row = new(shown) /\ shown \in Ended
         /\ LegalDispatch(now.status, shown) \/ ObservedTerminal(now.status, shown)
      \/ o.row = new("recovery_attention") /\ LegalDispatch(now.status, "recovery_attention")
      \/ o.row = new(kept) /\ LegalDispatch(now.status, kept)
  <2>1. CASE shown \in Ended
    BY <2>1 DEF Reconciled
  <2>2. CASE shown \notin Ended
    BY <2>2 DEF Reconciled
  <2> QED BY <2>1, <2>2
<1>2. bound \in SUBSET TurnId
  BY DEF Row
<1>3. kept \in TurnDispatchStatuses \cup {"absent"}
  BY DEF Row, TurnDispatchStatuses, ActiveTurnDispatchStatuses
<1>4. ASSUME NEW status \in TurnDispatchStatuses \cup {"absent"}, o.row = new(status),
             LegalDispatch(now.status, status) \/ ObservedTerminal(now.status, status)
      PROVE  o.row \in Row /\ o.row.gen = now.gen /\ Advances(now, o.row)
  <2>1. o.row \in Row /\ o.row.status = status /\ o.row.gen = now.gen
    <3> HIDE DEF bound
    <3> QED BY <1>2, <1>4 DEF Row
  <2>2. CASE LegalDispatch(now.status, status)
    BY <2>1, <2>2, LegalAdvances
  <2>3. CASE ObservedTerminal(now.status, status)
    BY <2>1, <2>3 DEF Advances, ObservedTerminal, Terminal, Unsubmitted, PreSubmission
  <2> QED BY <1>4, <2>1, <2>2, <2>3
<1>5. Ended \cup {"recovery_attention"} \subseteq TurnDispatchStatuses
  BY DEF Ended, TurnDispatchStatuses, TerminalTurnDispatchStatuses
<1> HIDE DEF now, shown, kept, new
<1>6. o.row = now => o.row \in Row /\ o.row.gen = now.gen /\ Advances(now, o.row)
  BY AdvancesSame DEF now
<1> QED BY <1>1, <1>3, <1>4, <1>5, <1>6 DEF now

LEMMA ObservationsType ==
  ASSUME NEW d, NEW row, NEW found \in Observations(d, row)
  PROVE  found \in SUBSET TurnId
BY DEF Observations

LEMMA OutcomesType ==
  ASSUME NEW d \in Dispatch, disp[d] \in Row, NEW row \in Row, NEW token, NEW o \in Outcomes(d, row, token)
  PROVE  o.row \in Row /\ Advances(disp[d], o.row)
<1>1. CASE o = [out |-> "throw", row |-> disp[d]]
  BY <1>1, AdvancesSame
<1>2. CASE \E found \in Observations(d, row) : o = Reconciled(d, row, token, found)
  BY <1>2, ObservationsType, ReconciledType
<1> QED BY <1>1, <1>2 DEF Outcomes

LEMMA ExpireType ==
  ASSUME NEW d \in Dispatch, disp[d] \in Row, NEW row \in Row, LegalDispatch(disp[d].status, "recovery_attention")
  PROVE  Expire(d, row) \in Row /\ Advances(disp[d], Expire(d, row))
<1>1. CASE Expire(d, row) = [disp[d] EXCEPT !.status = "recovery_attention", !.turn = row.turn]
  <2>1. "recovery_attention" \in TurnDispatchStatuses /\ row.turn \in SUBSET TurnId
    BY DEF Row, TurnDispatchStatuses, TerminalTurnDispatchStatuses
  <2>2. Expire(d, row) \in Row /\ Expire(d, row).status = "recovery_attention" /\ Expire(d, row).gen = disp[d].gen
    BY <1>1, <2>1 DEF Row
  <2> QED BY <2>2, LegalAdvances
<1>2. CASE Expire(d, row) = disp[d]
  BY <1>2, AdvancesSame
<1> QED BY <1>1, <1>2 DEF Expire

LEMMA ObserveStep ==
  ASSUME TypeOK, NEW d \in Dispatch, NEW c \in Caller, Observe(d, c)
  PROVE  TypeOK' /\ Moves
<1>1. UNCHANGED <<late, turn, recon, canc, parent, session, boot>>
  BY DEF Observe
<1>2. disp \in [Dispatch -> Row] /\ disp[d] \in Row /\ exec \in ExecType /\ exec[d][c].row \in Row
  BY TypeParts DEF ExecType
<1>3. PICK o \in Outcomes(d, exec[d][c].row, exec[d][c].row.owner) :
        \/ disp' = [disp EXCEPT ![d] = o.row] /\ exec' = [exec EXCEPT ![d][c] = Done]
        \/ exec' = [exec EXCEPT ![d][c].pc = "expiring"] /\ UNCHANGED disp
        \/ \E error \in {"error", "fenced"} : Caught(d, c, disp[d], error)
  BY DEF Observe
<1>4. o.row \in Row /\ Advances(disp[d], o.row)
  BY <1>2, OutcomesType
<1>5. CASE disp' = [disp EXCEPT ![d] = o.row] /\ exec' = [exec EXCEPT ![d][c] = Done]
  BY <1>1, <1>2, <1>4, <1>5, WriteRow, DoneExec, TypeParts
<1>6. CASE exec' = [exec EXCEPT ![d][c].pc = "expiring"] /\ UNCHANGED disp
  BY <1>1, <1>2, <1>6, SameRows, PcExec, TypeParts DEF ExecPc
<1>7. CASE \E error \in {"error", "fenced"} : Caught(d, c, disp[d], error)
  BY <1>1, <1>2, <1>7, CaughtStored, TypeParts
<1> QED BY <1>3, <1>5, <1>6, <1>7

LEMMA ObserveExpiredStep ==
  ASSUME TypeOK, NEW d \in Dispatch, NEW c \in Caller, ObserveExpired(d, c)
  PROVE  TypeOK' /\ Moves
<1>1. UNCHANGED <<late, recon, canc, parent, session, boot>>
  BY DEF ObserveExpired
<1>2. disp \in [Dispatch -> Row] /\ disp[d] \in Row /\ exec \in ExecType /\ exec[d][c].row \in Row
  BY TypeParts DEF ExecType
<1>3. turn' \in TurnType
  BY TypeParts, AskStopType DEF ObserveExpired
<1>4. CASE /\ LegalDispatch(disp[d].status, "recovery_attention")
           /\ disp' = [disp EXCEPT ![d] = Expire(d, exec[d][c].row)]
           /\ exec' = [exec EXCEPT ![d][c] = Done]
  BY <1>1, <1>2, <1>3, <1>4, ExpireType, WriteRow, DoneExec, TypeParts
<1>5. CASE Caught(d, c, disp[d], "error")
  BY <1>1, <1>2, <1>3, <1>5, CaughtStored, TypeParts
<1> QED BY <1>4, <1>5 DEF ObserveExpired

LEMMA FailParentType ==
  ASSUME NEW d \in Dispatch, parent \in [Parent -> {"active", "terminal"}], FailParent(d) \/ UNCHANGED parent
  PROVE  parent' \in [Parent -> {"active", "terminal"}]
BY DEF FailParent

LEMMA ReconGoesStep ==
  ASSUME disp \in [Dispatch -> Row], recon \in ReconType, NEW d \in Dispatch, NEW pc \in ReconPc,
         NEW row \in Row, Advances(disp[d], row), ReconGoes(d, pc, row)
  PROVE  disp' \in [Dispatch -> Row] /\ recon' \in ReconType /\ Moves
<1>1. disp' \in [Dispatch -> Row] /\ Moves
  BY WriteRow DEF ReconGoes
<1>2. Idle \in [pc : ReconPc, row : Row] /\ At(pc, row) \in [pc : ReconPc, row : Row]
  BY AbsentType DEF Idle, At, ReconPc
<1>3. recon' \in ReconType
  BY <1>2 DEF ReconGoes, ReconType
<1> QED BY <1>1, <1>3

LEMMA WriteRecon ==
  ASSUME recon \in ReconType, NEW d \in Dispatch, NEW pc \in ReconPc, NEW row \in Row,
         recon' = [recon EXCEPT ![d] = At(pc, row)]
  PROVE  recon' \in ReconType
BY DEF ReconType, At

LEMMA ReconCaughtStep ==
  ASSUME disp \in [Dispatch -> Row], recon \in ReconType, NEW d \in Dispatch, ReconCaught(d)
  PROVE  disp' \in [Dispatch -> Row] /\ recon' \in ReconType /\ Moves
<1>1. "recovery_attention" \in TurnDispatchStatuses /\ "idle" \in ReconPc /\ disp[d] \in Row
  BY DEF TurnDispatchStatuses, TerminalTurnDispatchStatuses, ReconPc
<1>2. CASE Active(disp[d])
  <2>1. Advances(disp[d], Status(disp[d], "recovery_attention"))
    BY <1>1, <1>2, StatusType
       DEF Advances, Active, ActiveTurnDispatchStatuses, Terminal, TerminalTurnDispatchStatuses,
           Unsubmitted, PreSubmission
  <2> QED BY <1>1, <1>2, <2>1, StatusType, ReconGoesStep DEF ReconCaught
<1>3. CASE ~ Active(disp[d])
  BY <1>1, <1>3, AdvancesSame, ReconGoesStep DEF ReconCaught
<1> QED BY <1>2, <1>3

LEMMA ReclaimStep ==
  ASSUME TypeOK, NEW d \in Dispatch, Reclaim(d)
  PROVE  TypeOK' /\ Moves
<1> DEFINE row == NewClaim(disp[d])
<1>1. UNCHANGED <<late, turn, exec, canc, session, boot>>
  BY DEF Reclaim
<1>2. disp \in [Dispatch -> Row] /\ disp[d] \in Row /\ recon \in ReconType /\ boot \in 1..MaxBoots
  BY TypeParts
<1>3. row \in Row /\ row.status = disp[d].status /\ row.gen = disp[d].gen
  BY <1>2, NewClaimType
<1>4. parent' \in [Parent -> {"active", "terminal"}]
  <2>1. FailParent(d) \/ UNCHANGED parent
    BY DEF Reclaim
  <2> QED BY <2>1, FailParentType, TypeParts
<1>5. PICK pc \in {"idle", "probing", "stopping", "reading"} :
        \/ ReconGoes(d, pc, disp[d])
        \/ ReconGoes(d, pc, row)
        \/ row.status \in PreSubmission /\ ReconGoes(d, pc, Status(row, "recovery_attention"))
        \/ row.status \in PreSubmission /\ ReconGoes(d, pc, Status(row, "failed"))
        \/ row.status = "cancelling" /\ ReconGoes(d, pc, Status(row, "cancelled"))
  BY DEF Reclaim
<1>6. pc \in ReconPc
  BY DEF ReconPc
<1>7. ASSUME NEW new \in Row, Advances(disp[d], new), ReconGoes(d, pc, new)
      PROVE  TypeOK' /\ Moves
  BY <1>1, <1>2, <1>4, <1>6, <1>7, ReconGoesStep, TypeParts
<1>8. Advances(disp[d], disp[d]) /\ Advances(disp[d], row)
  BY <1>2, <1>3, AdvancesSame DEF Advances, Terminal
<1>9. {"failed", "cancelled", "recovery_attention"} \subseteq TurnDispatchStatuses
  BY DEF TurnDispatchStatuses, TerminalTurnDispatchStatuses
<1>10. ASSUME NEW status \in {"failed", "recovery_attention"}, row.status \in PreSubmission
       PROVE  Status(row, status) \in Row /\ Advances(disp[d], Status(row, status))
  <2>1. /\ Status(row, status) \in Row /\ Status(row, status).status = status
        /\ Status(row, status).gen = row.gen
    BY <1>3, <1>9, <1>10, StatusType
  <2> QED BY <1>3, <1>10, <2>1
          DEF Advances, Terminal, TerminalTurnDispatchStatuses, Unsubmitted, PreSubmission
<1>11. ASSUME row.status = "cancelling"
       PROVE  Status(row, "cancelled") \in Row /\ Advances(disp[d], Status(row, "cancelled"))
  BY <1>3, <1>9, <1>11, StatusType
     DEF Advances, Terminal, TerminalTurnDispatchStatuses, Unsubmitted, PreSubmission
<1> HIDE DEF row
<1> QED BY <1>2, <1>3, <1>5, <1>7, <1>8, <1>10, <1>11

LEMMA ReconStoppedStep ==
  ASSUME TypeOK, NEW d \in Dispatch, ReconStopped(d)
  PROVE  TypeOK' /\ Moves
<1>1. disp' \in [Dispatch -> Row] /\ Moves /\ disp[d] \in Row
  BY TypeParts, SameRows DEF ReconStopped
<1>2. recon' \in ReconType
  BY <1>1, TypeParts, WriteRecon DEF ReconStopped, ReconPc
<1>3. turn' \in TurnType
  BY TypeParts, AskStopType DEF ReconStopped
<1> QED BY <1>1, <1>2, <1>3, TypeParts DEF ReconStopped

LEMMA ReconReadStep ==
  ASSUME TypeOK, NEW d \in Dispatch, ReconRead(d)
  PROVE  TypeOK' /\ Moves
<1> DEFINE row == recon[d].row
<1>1. UNCHANGED <<late, turn, exec, canc, session, boot>>
  BY DEF ReconRead
<1>2. disp \in [Dispatch -> Row] /\ disp[d] \in Row /\ recon \in ReconType /\ row \in Row
      /\ "idle" \in ReconPc /\ "expiring" \in ReconPc
  BY TypeParts DEF ReconType, ReconPc
<1>3. parent' \in [Parent -> {"active", "terminal"}]
  <2>1. FailParent(d) \/ UNCHANGED parent
    BY DEF ReconRead
  <2> QED BY <2>1, FailParentType, TypeParts
<1>4. PICK found \in Observations(d, row) : \E o :
        /\ o = Reconciled(d, row, row.owner, found)
        /\ \/ ReconGoes(d, "idle", o.row)
           \/ LegalDispatch(o.row.status, "cancelled") /\ ReconGoes(d, "idle", Status(o.row, "cancelled"))
           \/ /\ recon' = [recon EXCEPT ![d] = At("expiring", [recon[d].row EXCEPT !.turn = found])]
              /\ UNCHANGED disp
           \/ ReconCaught(d)
  BY DEF ReconRead
<1>5. PICK o :
         /\ o = Reconciled(d, row, row.owner, found)
         /\ \/ ReconGoes(d, "idle", o.row)
            \/ LegalDispatch(o.row.status, "cancelled") /\ ReconGoes(d, "idle", Status(o.row, "cancelled"))
            \/ /\ recon' = [recon EXCEPT ![d] = At("expiring", [recon[d].row EXCEPT !.turn = found])]
               /\ UNCHANGED disp
            \/ ReconCaught(d)
  BY <1>4
<1>6. found \in SUBSET TurnId /\ o.row \in Row /\ o.row.gen = disp[d].gen /\ Advances(disp[d], o.row)
  BY <1>2, <1>4, <1>5, ObservationsType, ReconciledType
<1>7. CASE ReconGoes(d, "idle", o.row)
  BY <1>1, <1>2, <1>3, <1>6, <1>7, ReconGoesStep, TypeParts
<1>8. CASE LegalDispatch(o.row.status, "cancelled") /\ ReconGoes(d, "idle", Status(o.row, "cancelled"))
  <2> DEFINE new == Status(o.row, "cancelled")
  <2>1. new \in Row /\ new.status = "cancelled" /\ new.gen = o.row.gen
    BY <1>6, StatusType DEF TurnDispatchStatuses, TerminalTurnDispatchStatuses
  <2>2. o.row.status \notin {"completed", "failed", "interrupted", "recovery_attention"}
    BY <1>8 DEF LegalDispatch, TurnDispatchTransitions
  <2>3. Advances(disp[d], new)
    BY <1>6, <2>1, <2>2
       DEF Advances, Terminal, TerminalTurnDispatchStatuses, ObservedTerminal, Unsubmitted, PreSubmission
  <2> QED BY <1>1, <1>2, <1>3, <1>8, <2>1, <2>3, ReconGoesStep, TypeParts
<1>9. CASE /\ recon' = [recon EXCEPT ![d] = At("expiring", [recon[d].row EXCEPT !.turn = found])]
           /\ UNCHANGED disp
  <2>1. [recon[d].row EXCEPT !.turn = found] \in Row
    BY <1>2, <1>6 DEF Row
  <2> QED BY <1>1, <1>2, <1>3, <1>9, <2>1, WriteRecon, SameRows, TypeParts
<1>10. CASE ReconCaught(d)
  BY <1>1, <1>2, <1>3, <1>10, ReconCaughtStep, TypeParts
<1> QED BY <1>5, <1>7, <1>8, <1>9, <1>10

LEMMA ReconReadFailsStep ==
  ASSUME TypeOK, NEW d \in Dispatch, ReconReadFails(d)
  PROVE  TypeOK' /\ Moves
BY ReconCaughtStep, TypeParts DEF ReconReadFails

LEMMA ReconExpiredStep ==
  ASSUME TypeOK, NEW d \in Dispatch, ReconExpired(d)
  PROVE  TypeOK' /\ Moves
<1>1. UNCHANGED <<late, exec, canc, session, boot>>
  BY DEF ReconExpired
<1>2. disp \in [Dispatch -> Row] /\ disp[d] \in Row /\ recon \in ReconType /\ recon[d].row \in Row
      /\ "idle" \in ReconPc
  BY TypeParts DEF ReconType, ReconPc
<1>3. parent' \in [Parent -> {"active", "terminal"}] /\ turn' \in TurnType
  <2>1. FailParent(d) \/ UNCHANGED parent
    BY DEF ReconExpired
  <2> QED BY <2>1, FailParentType, AskStopType, TypeParts DEF ReconExpired
<1>4. CASE LegalDispatch(disp[d].status, "recovery_attention") /\ ReconGoes(d, "idle", Expire(d, recon[d].row))
  BY <1>1, <1>2, <1>3, <1>4, ExpireType, ReconGoesStep, TypeParts
<1>5. CASE ReconCaught(d)
  BY <1>1, <1>2, <1>3, <1>5, ReconCaughtStep, TypeParts
<1> QED BY <1>4, <1>5 DEF ReconExpired

LEMMA ReconProbeStep ==
  ASSUME TypeOK, NEW d \in Dispatch, ReconProbe(d)
  PROVE  TypeOK' /\ Moves
<1>1. disp \in [Dispatch -> Row] /\ disp[d] \in Row /\ recon \in ReconType /\ recon[d].row \in Row
      /\ "idle" \in ReconPc
  BY TypeParts DEF ReconType, ReconPc
<1>2. PICK o \in Outcomes(d, recon[d].row, recon[d].row.owner) : ReconGoes(d, "idle", o.row)
  BY DEF ReconProbe
<1> QED BY <1>1, <1>2, OutcomesType, ReconGoesStep, TypeParts DEF ReconProbe

-----------------------------------------------------------------------------
\* Cancellation and the environment

LEMMA CancellingStep ==
  ASSUME disp \in [Dispatch -> Row], NEW p, disp' = Cancelling(p)
  PROVE  disp' \in [Dispatch -> Row] /\ Moves
<1> SUFFICES ASSUME NEW d \in Dispatch PROVE disp'[d] \in Row /\ Advances(disp[d], disp'[d])
  BY DEF Moves, Cancelling
<1>1. CASE disp'[d] = disp[d]
  BY <1>1, AdvancesSame
<1>2. CASE Active(disp[d]) /\ disp'[d] = [disp[d] EXCEPT !.status = "cancelling", !.gen = disp[d].gen + 1]
  <2>1. disp[d] \in Row /\ disp[d].gen + 1 \in Nat
    BY DEF Row
  <2>2. "cancelling" \in TurnDispatchStatuses
    BY DEF TurnDispatchStatuses, ActiveTurnDispatchStatuses
  <2>3. disp'[d] \in Row /\ disp'[d].status = "cancelling"
    BY <1>2, <2>1, <2>2 DEF Row
  <2> QED BY <1>2, <2>3
          DEF Advances, Active, ActiveTurnDispatchStatuses, Terminal, TerminalTurnDispatchStatuses,
              Unsubmitted, PreSubmission
<1> QED BY <1>1, <1>2 DEF Cancelling

LEMMA CancelRunStep ==
  ASSUME TypeOK, NEW p \in Parent, CancelRun(p)
  PROVE  TypeOK' /\ Moves
<1>1. canc' \in [Parent -> [on : BOOLEAN, left : SUBSET Dispatch]]
  BY TypeParts DEF CancelRun
<1> QED BY <1>1, TypeParts, CancellingStep DEF CancelRun

LEMMA CancelInterruptsStep ==
  ASSUME TypeOK, NEW p \in Parent, NEW d \in Dispatch, CancelInterrupts(p, d)
  PROVE  TypeOK' /\ Moves
<1>1. canc' \in [Parent -> [on : BOOLEAN, left : SUBSET Dispatch]]
  BY TypeParts DEF CancelInterrupts
<1>2. turn' \in TurnType
  BY TypeParts, AskStopType DEF CancelInterrupts
<1> QED BY <1>1, <1>2, TypeParts, SameRows DEF CancelInterrupts

LEMMA CancelEndsStep ==
  ASSUME TypeOK, NEW p \in Parent, CancelEnds(p)
  PROVE  TypeOK' /\ Moves
<1>1. canc' \in [Parent -> [on : BOOLEAN, left : SUBSET Dispatch]]
  BY TypeParts DEF CancelEnds
<1> QED BY <1>1, TypeParts, SameRows DEF CancelEnds

LEMMA CancelTaskStep ==
  ASSUME TypeOK, NEW p \in Parent, CancelTask(p)
  PROVE  TypeOK' /\ Moves
BY TypeParts, CancellingStep DEF CancelTask

LEMMA ParentEndsStep ==
  ASSUME TypeOK, NEW p \in Parent, ParentEnds(p)
  PROVE  TypeOK' /\ Moves
BY TypeParts, SameRows DEF ParentEnds

LEMMA AppServerStep ==
  ASSUME TypeOK, NEW d \in Dispatch, NEW i \in TurnId, NEW from, NEW to \in {"refused"} \cup Accepted,
         AppServer(d, i, from, to)
  PROVE  TypeOK' /\ Moves
<1> DEFINE Turn == [st : {"none", "sent", "refused"} \cup Accepted, thread : SUBSET Thread, stop : BOOLEAN]
           new == [turn[d][i] EXCEPT !.st = to]
<1>1. turn[d][i] \in Turn /\ turn \in [Dispatch -> [TurnId -> Turn]]
  BY TypeParts DEF TurnType
<1>2. new \in Turn
  BY <1>1
<1>3. turn' = [turn EXCEPT ![d][i] = new]
  BY DEF AppServer
<1> HIDE DEF new, Turn
<1>4. turn' \in [Dispatch -> [TurnId -> Turn]]
  BY <1>1, <1>2, <1>3
<1>5. turn' \in TurnType
  BY <1>4 DEF TurnType, Turn
<1> QED BY <1>5, TypeParts, SameRows DEF AppServer

LEMMA SessionReleasedStep ==
  ASSUME TypeOK, NEW t \in Thread, SessionReleased(t)
  PROVE  TypeOK' /\ Moves
BY TypeParts, SameRows DEF SessionReleased

LEMMA DeadlineStep ==
  ASSUME TypeOK, NEW d \in Dispatch, DeadlinePasses(d)
  PROVE  TypeOK' /\ Moves
BY TypeParts, SameRows DEF DeadlinePasses

LEMMA RestartStep ==
  ASSUME TypeOK, Restart
  PROVE  TypeOK' /\ Moves
<1>1. Idle \in [pc : ExecPc, row : Row]
  BY AbsentType DEF Idle, At, ExecPc
<1>2. Idle \in [pc : ReconPc, row : Row] /\ At("todo", Absent) \in [pc : ReconPc, row : Row]
  BY AbsentType DEF Idle, At, ReconPc
<1>3. exec' \in ExecType
  BY <1>1 DEF Restart, ExecType
<1>4. recon' \in ReconType
  BY <1>2 DEF Restart, ReconType
<1>5. boot' \in 1..MaxBoots
  BY DispatchAssumption, TypeParts DEF Restart
<1>6. canc' \in [Parent -> [on : BOOLEAN, left : SUBSET Dispatch]]
  BY DEF Restart
<1>7. disp' \in [Dispatch -> Row] /\ Moves /\ session' \in SUBSET Thread
  BY TypeParts, SameRows DEF Restart
<1> QED BY <1>3, <1>4, <1>5, <1>6, <1>7, TypeParts DEF Restart

-----------------------------------------------------------------------------
\* Theorems

\* Every step keeps the types and only advances rows: one case per action.
LEMMA NextStep ==
  ASSUME TypeOK, [Next]_vars
  PROVE  TypeOK' /\ Moves
<1>1. CASE UNCHANGED vars
  BY <1>1, TypeParts, SameRows DEF vars
<1>2. ASSUME NEW d \in Dispatch, NEW c \in Caller, Begin(d, c) PROVE TypeOK' /\ Moves
  BY <1>2, BeginStep
<1>3. ASSUME NEW d \in Dispatch, NEW c \in Caller, ExecStep(d, c) PROVE TypeOK' /\ Moves
  BY <1>3, AcquiredStep, SubmitStep, ResumedStep, ResponseStep, TimeOutStep, AbandonedStep,
     CompletedStep, InterruptedStep, ObserveStep, ObserveExpiredStep
     DEF ExecStep
<1>4. ASSUME NEW d \in Dispatch, ReconStep(d) PROVE TypeOK' /\ Moves
  BY <1>4, ReclaimStep, ReconStoppedStep, ReconReadStep, ReconReadFailsStep, ReconExpiredStep,
     ReconProbeStep
     DEF ReconStep
<1>5. ASSUME NEW p \in Parent, CancelRun(p) \/ CancelStep(p) \/ CancelTask(p) \/ ParentEnds(p)
      PROVE  TypeOK' /\ Moves
  BY <1>5, CancelRunStep, CancelInterruptsStep, CancelEndsStep, CancelTaskStep, ParentEndsStep
     DEF CancelStep
<1>6. ASSUME NEW d \in Dispatch, NEW i \in TurnId, TurnAccepted(d, i) \/ TurnRefused(d, i) \/ TurnEnds(d, i)
      PROVE  TypeOK' /\ Moves
  BY <1>6, AppServerStep DEF TurnAccepted, TurnRefused, TurnEnds, Accepted, Ended
<1> QED BY <1>1, <1>2, <1>3, <1>4, <1>5, <1>6, DeadlineStep, SessionReleasedStep, RestartStep DEF Next

LEMMA InitType == Init => TypeOK
<1> SUFFICES ASSUME Init PROVE TypeOK
  OBVIOUS
<1>1. Idle \in [pc : ExecPc, row : Row] /\ Idle \in [pc : ReconPc, row : Row]
  BY AbsentType DEF Idle, At, ExecPc, ReconPc
<1>2. disp \in [Dispatch -> Row] /\ exec \in ExecType /\ recon \in ReconType /\ turn \in TurnType
  BY <1>1, AbsentType DEF Init, ExecType, ReconType, TurnType
<1>3. boot \in 1..MaxBoots
  BY DispatchAssumption DEF Init
<1> QED BY <1>2, <1>3, TypeParts DEF Init

\* The tables, the calls and the reconciliation keep their types, whatever the App
\* Server answers and whenever the daemon dies.
THEOREM TypeCorrect == Spec => []TypeOK
<1>1. TypeOK /\ [Next]_vars => TypeOK'
  BY NextStep
<1> QED BY <1>1, InitType, PTL DEF Spec

\* No late thread, turn response or recovery read revives a cancelled row.
THEOREM CancellationIsSticky == Spec => []CancellationSticks
<1>1. Init => CancellationSticks
  BY DEF Init, CancellationSticks, Absent
<1>2. TypeOK /\ CancellationSticks /\ [Next]_vars => CancellationSticks'
  <2> SUFFICES ASSUME TypeOK, CancellationSticks, [Next]_vars, NEW d \in Dispatch, disp'[d].gen > 0
               PROVE  disp'[d].status = "cancelling" \/ Terminal(disp'[d])
    BY DEF CancellationSticks, Terminal
  <2>1. Advances(disp[d], disp'[d])
    BY NextStep DEF Moves
  <2>2. disp[d].gen > 0 => disp[d].status = "cancelling" \/ Terminal(disp[d])
    BY DEF CancellationSticks
  <2> QED BY <2>1, <2>2 DEF Advances, Terminal, ObservedTerminal, TerminalTurnDispatchStatuses
<1> QED BY <1>1, <1>2, TypeCorrect, PTL DEF Spec

\* A closed row stays closed; only an observed outcome replaces recovery_attention.
THEOREM TerminalRowsAreFinal == Spec => TerminalIsFinal
<1>1. TypeOK /\ [Next]_vars =>
        [\A d \in Dispatch : Terminal(disp[d]) =>
           disp'[d].status = disp[d].status \/ ObservedTerminal(disp[d].status, disp'[d].status)]_vars
  BY NextStep DEF Moves, Advances
<1> QED BY <1>1, TypeCorrect, PTL DEF Spec, TerminalIsFinal

-----------------------------------------------------------------------------
\* The submission intent.  SubmissionIsRecorded alone is not inductive: a call that waits for
\* its session sends turn/start without looking at the row, so the invariant must
\* also say that such a call has left a submitted row behind.

ResumeIsRecorded ==
  \A d \in Dispatch, c \in Caller : exec[d][c].pc = "resuming" => disp[d].status \notin Unsubmitted

\* A step that makes no call wait for its session and sends nothing.
Silent ==
  /\ \A d \in Dispatch, c \in Caller : exec'[d][c].pc = "resuming" => exec[d][c].pc = "resuming"
  /\ \A d \in Dispatch, i \in TurnId : turn'[d][i].st # "none" => turn[d][i].st # "none"

LEMMA CallWrite ==
  ASSUME exec \in ExecType, NEW d \in Dispatch, NEW c \in Caller, NEW call,
         exec' = [exec EXCEPT ![d][c] = call], call.pc # "resuming"
  PROVE  \A e \in Dispatch, k \in Caller : exec'[e][k].pc = "resuming" => exec[e][k].pc = "resuming"
BY DEF ExecType

LEMMA CaughtSilent ==
  ASSUME exec \in ExecType, NEW d \in Dispatch, NEW c \in Caller, NEW row, NEW error,
         Caught(d, c, row, error), UNCHANGED turn
  PROVE  Silent
<1> DEFINE call == IF MustInterrupt(row, error) THEN At("interrupting", row) ELSE Done
<1>1. call.pc # "resuming" /\ exec' = [exec EXCEPT ![d][c] = call]
  BY DEF Caught, At, Done
<1> HIDE DEF call
<1> QED BY <1>1, CallWrite DEF Silent

LEMMA GoesSilent ==
  ASSUME exec \in ExecType, NEW d \in Dispatch, NEW c \in Caller, NEW pc, NEW row,
         Goes(d, c, pc, row), pc # "resuming", UNCHANGED turn
  PROVE  Silent
<1>1. At(pc, row).pc # "resuming" /\ exec' = [exec EXCEPT ![d][c] = At(pc, row)]
  BY DEF Goes, At
<1> QED BY <1>1, CallWrite DEF Silent

LEMMA StopSilent ==
  ASSUME turn \in TurnType, NEW d \in Dispatch, NEW ids, AskStop(d, ids)
  PROVE  \A e \in Dispatch, i \in TurnId : turn'[e][i].st = turn[e][i].st
<1> SUFFICES ASSUME NEW e \in Dispatch, NEW i \in TurnId PROVE turn'[e][i].st = turn[e][i].st
  OBVIOUS
<1>1. turn'[e][i] = turn[e][i] \/ turn'[e][i] = [turn[e][i] EXCEPT !.stop = TRUE]
  BY DEF AskStop, TurnType
<1>2. turn[e][i] \in [st : {"none", "sent", "refused"} \cup Accepted, thread : SUBSET Thread, stop : BOOLEAN]
  BY DEF TurnType
<1> QED BY <1>1, <1>2

LEMMA ExecSilent ==
  ASSUME TypeOK, NEW d \in Dispatch, NEW c \in Caller,
         \/ Acquired(d, c) \/ Response(d, c) \/ StartTimesOut(d, c) \/ Abandoned(d, c)
         \/ Completed(d, c) \/ Interrupted(d, c) \/ Observe(d, c) \/ ObserveExpired(d, c)
  PROVE  Silent
<1> USE TypeParts
<1>1. CASE Acquired(d, c)
  BY <1>1, CaughtSilent, GoesSilent DEF Acquired
<1>2. CASE Response(d, c)
  BY <1>2, CaughtSilent, GoesSilent DEF Response
<1>3. CASE StartTimesOut(d, c) \/ Abandoned(d, c)
  BY <1>3, CaughtSilent DEF StartTimesOut, Abandoned
<1>4. Done.pc # "resuming"
  BY DEF Done, At
<1>5. CASE Completed(d, c)
  <2>1. CASE \E error : Caught(d, c, disp[d], error)
    BY <1>5, <2>1, CaughtSilent DEF Completed
  <2>2. CASE exec' = [exec EXCEPT ![d][c] = Done]
    BY <1>4, <1>5, <2>2, CallWrite DEF Completed, Silent
  <2> QED BY <1>5, <2>1, <2>2 DEF Completed
<1>6. CASE Interrupted(d, c)
  BY <1>4, <1>6, CallWrite, StopSilent DEF Interrupted, Silent
<1>7. CASE Observe(d, c)
  <2>1. CASE \E error : Caught(d, c, disp[d], error)
    BY <1>7, <2>1, CaughtSilent DEF Observe
  <2>2. CASE exec' = [exec EXCEPT ![d][c] = Done]
    BY <1>4, <1>7, <2>2, CallWrite DEF Observe, Silent
  <2>3. CASE exec' = [exec EXCEPT ![d][c].pc = "expiring"]
    BY <1>7, <2>3 DEF Observe, Silent, ExecType
  <2> QED BY <1>7, <2>1, <2>2, <2>3 DEF Observe
<1>8. CASE ObserveExpired(d, c)
  <2>1. \A e \in Dispatch, i \in TurnId : turn'[e][i].st = turn[e][i].st
    BY <1>8, StopSilent DEF ObserveExpired
  <2>2. CASE Caught(d, c, disp[d], "error")
    <3> DEFINE call == IF MustInterrupt(disp[d], "error") THEN At("interrupting", disp[d]) ELSE Done
    <3>1. call.pc # "resuming" /\ exec' = [exec EXCEPT ![d][c] = call]
      BY <2>2 DEF Caught, At, Done
    <3> HIDE DEF call
    <3> QED BY <2>1, <3>1, CallWrite DEF Silent
  <2>3. CASE exec' = [exec EXCEPT ![d][c] = Done]
    BY <1>4, <2>1, <2>3, CallWrite DEF Silent
  <2> QED BY <1>8, <2>2, <2>3 DEF ObserveExpired
<1> QED BY <1>1, <1>2, <1>3, <1>5, <1>6, <1>7, <1>8

LEMMA OtherSilent ==
  ASSUME TypeOK,
         \/ UNCHANGED vars
         \/ \E d \in Dispatch : ReconStep(d) \/ DeadlinePasses(d)
         \/ \E p \in Parent : CancelRun(p) \/ CancelStep(p) \/ CancelTask(p) \/ ParentEnds(p)
         \/ \E t \in Thread : SessionReleased(t)
         \/ Restart
  PROVE  Silent
<1> USE TypeParts
<1>1. CASE UNCHANGED <<exec, turn>>
  BY <1>1 DEF Silent
<1>2. CASE UNCHANGED exec /\ \E d \in Dispatch : \E ids : AskStop(d, ids)
  BY <1>2, StopSilent DEF Silent
<1>3. CASE Restart
  BY <1>3 DEF Restart, Silent, Idle, At
<1> QED BY <1>1, <1>2, <1>3
        DEF vars, ReconStep, DeadlinePasses, CancelRun, CancelStep, CancelTask, ParentEnds, SessionReleased,
            Reclaim, ReconStopped, ReconRead, ReconReadFails, ReconExpired, ReconProbe,
            CancelEnds, CancelInterrupts

\* A step sends a turn only for a row that is submitted by then or for a call that resumed.
Sends ==
  /\ \A d \in Dispatch, c \in Caller :
       exec'[d][c].pc = "resuming" => exec[d][c].pc = "resuming" \/ disp'[d].status \notin Unsubmitted
  /\ \A d \in Dispatch, i \in TurnId :
       turn'[d][i].st # "none" => \/ turn[d][i].st # "none"
                                  \/ disp'[d].status \notin Unsubmitted
                                  \/ \E c \in Caller : exec[d][c].pc = "resuming"

\* The call that writes a submitted row may send its turn or wait for a session.
LEMMA SubmittedSends ==
  ASSUME TypeOK, NEW d \in Dispatch, NEW c \in Caller, NEW pc, NEW row, row.status \notin Unsubmitted,
         Goes(d, c, pc, row),
         \A e \in Dispatch, i \in TurnId : e # d => turn'[e][i].st = turn[e][i].st
  PROVE  Sends
<1>1. disp'[d] = row
  BY TypeParts DEF Goes
<1>2. \A e \in Dispatch, k \in Caller : e # d => exec'[e][k] = exec[e][k]
  BY TypeParts DEF Goes, ExecType
<1> QED BY <1>1, <1>2 DEF Sends

LEMMA BeginSends ==
  ASSUME TypeOK, NEW d \in Dispatch, NEW c \in Caller, Begin(d, c)
  PROVE  Sends
<1>1. UNCHANGED turn /\ exec \in ExecType
  BY TypeParts DEF Begin
<1>2. CASE \E row, error : Caught(d, c, row, error)
  BY <1>1, <1>2, CaughtSilent DEF Sends, Silent
<1>3. CASE exec' = [exec EXCEPT ![d][c] = Done]
  <2>1. Done.pc # "resuming"
    BY DEF Done, At
  <2> QED BY <1>1, <1>3, <2>1, CallWrite DEF Sends
<1>4. ASSUME NEW row, row.status # "absent", Goes(d, c, EntryPc(row), EntryRow(row)) PROVE Sends
  <2>1. CASE EntryPc(row) # "resuming"
    BY <1>1, <1>4, <2>1, GoesSilent DEF Sends, Silent
  <2>2. CASE EntryPc(row) = "resuming"
    <3>1. row.status \notin PreSubmission /\ EntryRow(row) = row
      <4>1. CASE row.status \in {"prepared", "thread_acquiring"}
        BY <2>2, <4>1 DEF EntryPc
      <4>2. CASE row.status = "thread_created"
        BY <2>2, <4>2 DEF EntryPc
      <4>3. CASE row.status \notin PreSubmission
        <5>1. row.turn = {}
          BY <2>2, <4>3 DEF EntryPc, PreSubmission
        <5> QED BY <4>3, <5>1 DEF EntryRow, PreSubmission
      <4> QED BY <4>1, <4>2, <4>3 DEF PreSubmission
    <3> QED BY <1>1, <1>4, <2>2, <3>1, SubmittedSends DEF Unsubmitted
  <2> QED BY <1>4, <2>1, <2>2
<1>5. PICK row : \/ \E error : Caught(d, c, row, error)
                 \/ exec' = [exec EXCEPT ![d][c] = Done]
                 \/ row.status # "absent" /\ Goes(d, c, EntryPc(row), EntryRow(row))
  <2> DEFINE prepared == IF disp[d].status = "absent" THEN Status(Absent, "prepared") ELSE disp[d]
  <2>1. prepared \in Row /\ Active(prepared) /\ boot \in 1..MaxBoots
    <3>1. disp[d] \in Row /\ Status(Absent, "prepared") \in Row
      BY TypeParts, AbsentType, StatusType DEF TurnDispatchStatuses, ActiveTurnDispatchStatuses
    <3>2. Active(prepared) /\ boot \in 1..MaxBoots
      BY TypeParts DEF Begin
    <3> QED BY <3>1, <3>2
  <2>2. PICK row \in Claims(d, prepared) :
          \/ \E error : Caught(d, c, row, error)
          \/ exec' = [exec EXCEPT ![d][c] = Done]
          \/ Goes(d, c, EntryPc(row), EntryRow(row))
    BY DEF Begin
  <2> HIDE DEF prepared
  <2>3. row.status # "absent"
    BY <2>1, <2>2, ClaimsType DEF Active, ActiveTurnDispatchStatuses
  <2> QED BY <2>2, <2>3
<1> QED BY <1>2, <1>3, <1>4, <1>5

LEMMA SubmitSends ==
  ASSUME TypeOK, NEW d \in Dispatch, NEW c \in Caller, Submit(d, c)
  PROVE  Sends
<1> DEFINE row == Status(disp[d], "turn_submitting")
<1>1. CASE UNCHANGED turn /\ \E error : Caught(d, c, disp[d], error)
  BY <1>1, TypeParts, CaughtSilent DEF Sends, Silent
<1>2. CASE \/ Goes(d, c, "waiting", row) /\ Start(d, <<c, boot>>, row.thread)
           \/ Goes(d, c, "resuming", row) /\ UNCHANGED turn
  <2>1. row.status \notin Unsubmitted
    <3>1. disp[d] \in Row
      BY TypeParts
    <3> QED BY <3>1, StatusType
            DEF Unsubmitted, PreSubmission, TurnDispatchStatuses, ActiveTurnDispatchStatuses
  <2>2. \A e \in Dispatch, i \in TurnId : e # d => turn'[e][i].st = turn[e][i].st
    BY <1>2, TypeParts DEF Start, TurnType
  <2> HIDE DEF row
  <2> QED BY <1>2, <2>1, <2>2, SubmittedSends
<1> QED BY <1>1, <1>2 DEF Submit

LEMMA ResumedSends ==
  ASSUME TypeOK, NEW d \in Dispatch, NEW c \in Caller, Resumed(d, c)
  PROVE  Sends
<1>1. \A e \in Dispatch, k \in Caller : exec'[e][k].pc = "resuming" => exec[e][k].pc = "resuming"
  BY TypeParts DEF Resumed, ExecType
<1>2. \A e \in Dispatch, i \in TurnId : e # d => turn'[e][i].st = turn[e][i].st
  BY TypeParts DEF Resumed, Start, TurnType
<1> QED BY <1>1, <1>2 DEF Sends, Resumed

LEMMA AppServerSends ==
  ASSUME TypeOK, NEW d \in Dispatch, NEW i \in TurnId, NEW from, NEW to, from # "none",
         AppServer(d, i, from, to)
  PROVE  Sends
<1>1. ASSUME NEW e \in Dispatch, NEW j \in TurnId, turn'[e][j].st # "none"
      PROVE  turn[e][j].st # "none"
  <2>1. CASE e = d /\ j = i
    BY <2>1 DEF AppServer
  <2>2. CASE e # d \/ j # i
    BY <1>1, <2>2, TypeParts DEF AppServer, TurnType
  <2> QED BY <2>1, <2>2
<1> QED BY <1>1 DEF Sends, AppServer

LEMMA NextSends ==
  ASSUME TypeOK, [Next]_vars
  PROVE  Sends
<1>1. CASE Silent
  BY <1>1 DEF Silent, Sends
<1>2. ASSUME NEW d \in Dispatch, NEW c \in Caller, Begin(d, c) \/ ExecStep(d, c) PROVE Sends
  BY <1>1, <1>2, BeginSends, SubmitSends, ResumedSends, ExecSilent DEF ExecStep
<1>3. ASSUME NEW d \in Dispatch, NEW i \in TurnId, TurnAccepted(d, i) \/ TurnRefused(d, i) \/ TurnEnds(d, i)
      PROVE  Sends
  BY <1>3, AppServerSends DEF TurnAccepted, TurnRefused, TurnEnds
<1> QED BY <1>1, <1>2, <1>3, OtherSilent DEF Next

\* No crash, cancellation or late answer leaves a turn behind a row that says none was sent.
THEOREM SubmissionRecorded == Spec => []SubmissionIsRecorded
<1>1. Init => ResumeIsRecorded /\ SubmissionIsRecorded
  BY DEF Init, ResumeIsRecorded, SubmissionIsRecorded, Idle, At
<1>2. TypeOK /\ ResumeIsRecorded /\ SubmissionIsRecorded /\ [Next]_vars
        => ResumeIsRecorded' /\ SubmissionIsRecorded'
  <2> SUFFICES ASSUME TypeOK, ResumeIsRecorded, SubmissionIsRecorded, [Next]_vars
               PROVE  ResumeIsRecorded' /\ SubmissionIsRecorded'
    OBVIOUS
  <2>1. Moves /\ Sends
    BY NextStep, NextSends
  <2>2. \A d \in Dispatch : disp'[d].status \in Unsubmitted => disp[d].status \in Unsubmitted
    BY <2>1 DEF Moves, Advances
  <2>3. ResumeIsRecorded'
    BY <2>1, <2>2 DEF Sends, ResumeIsRecorded
  <2>4. SubmissionIsRecorded'
    <3> SUFFICES ASSUME NEW d \in Dispatch, disp'[d].status \in Unsubmitted, NEW i \in TurnId,
                        turn'[d][i].st # "none"
                 PROVE  FALSE
      BY DEF SubmissionIsRecorded, Unsubmitted
    <3>1. turn[d][i].st = "none"
      BY <2>2 DEF SubmissionIsRecorded, Unsubmitted
    <3> QED BY <2>1, <2>2, <3>1 DEF Sends, ResumeIsRecorded
  <2> QED BY <2>3, <2>4
<1> QED BY <1>1, <1>2, TypeCorrect, PTL DEF Spec

-----------------------------------------------------------------------------
(***************************************************************************)
(* Which turn a row names.  RunningIsBound is not inductive: rows are      *)
(* written by calls that go by a copy of the row and by the turn they have *)
(* sent.  The invariant says what such a copy still has in common with the *)
(* row, that the turn of a call lies on the thread of its copy, that a     *)
(* call which has not sent its turn can send it without replacing one that *)
(* was answered, and that start-up and calls do not overlap.               *)
(***************************************************************************)
Stopped(v) == v.stop \/ v.st \in Ended

\* A row r, with the turns u the App Server has of its dispatch.
RowIsBound(r, u) ==
  /\ r.status \in Unsubmitted \cup {"turn_submitting"} => r.turn = {}
  /\ r.status \in {"thread_created", "turn_submitting", "turn_running"} \/ r.turn # {} => r.thread # {}
  /\ r.status = "turn_running" => r.turn # {}
  /\ \A i \in r.turn : u[i].st \in Accepted /\ u[i].thread = r.thread
  /\ r.status \in {"completed", "interrupted"} => r.turn # {} /\ \A i \in r.turn : u[i].st = r.status

RowIsStopped(r, u) == r.status = "cancelled" => \A i \in r.turn : Stopped(u[i])

\* A copy k of the row r that was read before an await.
CopyIsBound(k, r, u) ==
  /\ r.status \notin Unsubmitted /\ k.thread = r.thread /\ r.thread # {}
  /\ k.status = "turn_running" => r.turn # {}
  /\ \A i \in k.turn : u[i].st \in Accepted /\ u[i].thread = r.thread

Holding == {"resuming", "waiting", "running", "observing", "expiring"}

\* A call x of execute(), which sends the turn own.
CallIsBound(x, r, u, own) ==
  /\ x.pc \in Holding => CopyIsBound(x.row, r, u)
  /\ x.pc \in {"observing", "expiring"} => x.row.status = "turn_running" /\ x.row.turn # {}
  /\ x.pc \in {"waiting", "running"} => u[own].thread = x.row.thread
  /\ x.pc \in {"idle", "acquiring", "bound", "resuming"} => u[own].st = "none"
  /\ x.pc # "idle" => r.status # "absent"

\* The start-up reconciliation; a cancelled turn is stopped before it is read.
ReconIsBound(x, r, u) ==
  /\ x.pc \notin {"idle", "todo"} => CopyIsBound(x.row, r, u)
  /\ x.pc = "stopping" => r.status = "cancelling" /\ x.row.status = "cancelling" /\ x.row.turn = r.turn
  /\ x.pc = "reading" =>
       /\ x.row.status \in {"turn_submitting", "turn_running", "cancelling"}
       /\ x.row.status = "cancelling" => x.row.turn = r.turn /\ \A i \in r.turn : Stopped(u[i])
  /\ x.pc = "expiring" => x.row.turn # {}
  /\ x.pc = "probing" => x.row.status = "recovery_attention"

DispatchIsBound(d) ==
  /\ RowIsBound(disp[d], turn[d]) /\ ReconIsBound(recon[d], disp[d], turn[d])
  /\ \A c \in Caller : CallIsBound(exec[d][c], disp[d], turn[d], <<c, boot>>)
  /\ recon[d].pc # "idle" => \A c \in Caller : exec[d][c].pc = "idle"
  /\ \A c \in Caller, b \in 1..MaxBoots : b > boot => turn[d][<<c, b>>].st = "none"

\* A dispatch that one caller executes: that of a Task's revision, or one nobody else can reach.
Unshared(d) == d \in TaskDispatch \/ \A c, e \in CallersOf[d] : c = e

CallIsAlone(d) ==
  /\ RowIsStopped(disp[d], turn[d])
  /\ \A c \in Caller : exec[d][c].pc # "idle" => c \in CallersOf[d]
  /\ \A c, e \in Caller : exec[d][c].pc # "idle" /\ exec[d][e].pc # "idle" => c = e
  /\ \A c \in Caller : exec[d][c].pc = "interrupting" => exec[d][c].row.turn = disp[d].turn
  /\ \A c \in Caller : exec[d][c].pc = "resuming" => disp[d].turn = {}

BInv == \A d \in Dispatch : DispatchIsBound(d) /\ (Unshared(d) => CallIsAlone(d))

-----------------------------------------------------------------------------
\* What a step may do to a row and to the turns of a dispatch.
RowGoesOn(r, s) ==
  /\ r.status \notin Unsubmitted => s.status \notin Unsubmitted /\ s.thread = r.thread
  /\ r.turn # {} => s.turn # {}
  /\ r.status # "absent" => s.status # "absent"

TurnsGoOn(u, v) == \A i \in TurnId :
  /\ u[i].st \in Accepted => v[i].st \in Accepted /\ v[i].thread = u[i].thread
  /\ u[i].st \in Ended => v[i].st = u[i].st
  /\ u[i].st \in Accepted /\ Stopped(u[i]) => Stopped(v[i])

TurnsStay(u, v, ids) ==
  \A i \in TurnId \ ids : v[i].thread = u[i].thread /\ (u[i].st = "none" => v[i].st = "none")

LEMMA SameTurns == ASSUME NEW u, NEW ids PROVE TurnsGoOn(u, u) /\ TurnsStay(u, u, ids)
BY DEF TurnsGoOn, TurnsStay

LEMMA RowStays ==
  ASSUME NEW r \in Row, NEW u, NEW v, RowIsBound(r, u), TurnsGoOn(u, v)
  PROVE  RowIsBound(r, v) /\ (RowIsStopped(r, u) => RowIsStopped(r, v))
<1>1. r.turn \subseteq TurnId
  BY DEF Row
<1>2. \A i \in r.turn : /\ v[i].st \in Accepted /\ v[i].thread = r.thread
                        /\ u[i].st \in Ended => v[i].st = u[i].st
                        /\ Stopped(u[i]) => Stopped(v[i])
  BY <1>1 DEF RowIsBound, TurnsGoOn
<1>3. RowIsBound(r, v)
  BY <1>2 DEF RowIsBound, Ended
<1> QED BY <1>2, <1>3 DEF RowIsStopped

LEMMA CopyStays ==
  ASSUME NEW k \in Row, NEW r, NEW s, NEW u, NEW v, CopyIsBound(k, r, u), RowGoesOn(r, s), TurnsGoOn(u, v)
  PROVE  CopyIsBound(k, s, v)
<1>1. k.turn \subseteq TurnId
  BY DEF Row
<1> QED BY <1>1 DEF CopyIsBound, RowGoesOn, TurnsGoOn

LEMMA CallStays ==
  ASSUME NEW x \in [pc : ExecPc, row : Row], NEW r, NEW s, NEW u, NEW v, NEW own,
         CallIsBound(x, r, u, own), RowGoesOn(r, s), TurnsGoOn(u, v),
         v[own].thread = u[own].thread, u[own].st = "none" => v[own].st = "none"
  PROVE  CallIsBound(x, s, v, own)
<1>1. x.row \in Row
  OBVIOUS
<1>2. x.pc \in Holding => CopyIsBound(x.row, s, v)
  BY <1>1, CopyStays DEF CallIsBound
<1> QED BY <1>2 DEF CallIsBound, RowGoesOn

LEMMA ReconStays ==
  ASSUME NEW x \in [pc : ReconPc, row : Row], NEW r \in Row, NEW s, NEW u, NEW v,
         ReconIsBound(x, r, u), RowIsBound(r, u), RowGoesOn(r, s), TurnsGoOn(u, v),
         s.turn = r.turn, r.status = "cancelling" => s.status = "cancelling"
  PROVE  ReconIsBound(x, s, v)
<1>1. x.row \in Row
  OBVIOUS
<1>2. x.pc \notin {"idle", "todo"} => CopyIsBound(x.row, s, v)
  BY <1>1, CopyStays DEF ReconIsBound
<1>3. \A i \in r.turn : Stopped(u[i]) => Stopped(v[i])
  <2>1. r.turn \subseteq TurnId
    BY DEF Row
  <2> QED BY <2>1 DEF RowIsBound, TurnsGoOn
<1> QED BY <1>2, <1>3 DEF ReconIsBound

\* A dispatch nobody touches.
LEMMA UntouchedStays ==
  ASSUME NEW e \in Dispatch, DispatchIsBound(e), Unshared(e) => CallIsAlone(e),
         disp'[e] = disp[e], turn'[e] = turn[e], exec'[e] = exec[e], recon'[e] = recon[e], boot' = boot
  PROVE  DispatchIsBound(e)' /\ (Unshared(e)' => CallIsAlone(e)')
BY DEF DispatchIsBound, CallIsAlone, Unshared

-----------------------------------------------------------------------------
\* A step of one call: what it writes into the row and where it goes on.
CallMoves(d, c, s, x) ==
  /\ disp' = [disp EXCEPT ![d] = s] /\ exec' = [exec EXCEPT ![d][c] = x] /\ UNCHANGED <<recon, boot>>
  /\ \A e \in Dispatch \ {d} : turn'[e] = turn[e]
  /\ recon[d].pc = "idle"
  /\ RowGoesOn(disp[d], s) /\ RowIsBound(s, turn[d])
  /\ TurnsGoOn(turn[d], turn'[d]) /\ TurnsStay(turn[d], turn'[d], {<<c, boot>>})
  /\ CallIsBound(x, s, turn'[d], <<c, boot>>)
  /\ x.pc = "interrupting" => x.row.turn = s.turn
  /\ x.pc = "resuming" => s.turn = {}
  /\ Unshared(d) =>
       /\ RowIsStopped(s, turn'[d])
       /\ disp[d].turn = {} \/ (turn[d][<<c, boot>>].st = "none" => turn'[d][<<c, boot>>].st = "none")
       /\ c \in CallersOf[d] /\ \A e \in Caller \ {c} : exec[d][e].pc = "idle"

\* No step sends the turn of a dispatch whose turn is known, where it has one caller.
NothingResent ==
  \A d \in Dispatch, i \in TurnId :
    Unshared(d) /\ turn[d][i].st = "none" /\ turn'[d][i].st # "none" => disp[d].turn = {}

LEMMA CallKeeps ==
  ASSUME TypeOK, TypeOK', BInv, NEW d \in Dispatch, NEW c \in Caller, NEW s, NEW x, CallMoves(d, c, s, x)
  PROVE  BInv' /\ NothingResent
<1>1. /\ disp \in [Dispatch -> Row] /\ exec \in ExecType /\ boot \in 1..MaxBoots /\ recon \in ReconType
      /\ disp' \in [Dispatch -> Row] /\ exec' \in ExecType /\ boot' = boot
  BY TypeParts DEF CallMoves
<1>2. /\ disp'[d] = s /\ exec'[d][c] = x /\ recon' = recon
      /\ \A e \in Dispatch \ {d} : disp'[e] = disp[e] /\ exec'[e] = exec[e] /\ turn'[e] = turn[e]
      /\ \A k \in Caller \ {c} : exec'[d][k] = exec[d][k]
  BY <1>1 DEF CallMoves, ExecType
<1>3. \A e \in Dispatch \ {d} : DispatchIsBound(e)' /\ (Unshared(e)' => CallIsAlone(e)')
  BY <1>1, <1>2, UntouchedStays DEF BInv
<1>4. DispatchIsBound(d)
  BY DEF BInv
<1>5. s \in Row /\ disp[d] \in Row
  BY <1>1, <1>2
<1>6. RowIsBound(s, turn'[d])
  BY <1>5, RowStays DEF CallMoves
<1>7. ReconIsBound(recon[d], s, turn'[d])
  BY DEF CallMoves, ReconIsBound
<1>8. ASSUME NEW k \in Caller PROVE CallIsBound(exec'[d][k], s, turn'[d], <<k, boot>>)
  <2>1. CASE k = c
    BY <1>2, <2>1 DEF CallMoves
  <2>2. CASE k # c
    <3>1. <<k, boot>> \in TurnId \ {<<c, boot>>}
      BY <1>1, <2>2, OwnTurn
    <3>2. exec[d][k] \in [pc : ExecPc, row : Row] /\ exec'[d][k] = exec[d][k]
      BY <1>1, <1>2, <2>2 DEF ExecType
    <3>3. CallIsBound(exec[d][k], disp[d], turn[d], <<k, boot>>)
      BY <1>4 DEF DispatchIsBound
    <3>4. /\ turn'[d][<<k, boot>>].thread = turn[d][<<k, boot>>].thread
          /\ turn[d][<<k, boot>>].st = "none" => turn'[d][<<k, boot>>].st = "none"
      BY <3>1 DEF CallMoves, TurnsStay
    <3>5. RowGoesOn(disp[d], s) /\ TurnsGoOn(turn[d], turn'[d])
      BY DEF CallMoves
    <3> HIDE DEF CallMoves
    <3> QED BY <3>2, <3>3, <3>4, <3>5, CallStays
  <2> QED BY <2>1, <2>2
<1>9. ASSUME NEW k \in Caller, NEW b \in 1..MaxBoots, b > boot PROVE turn'[d][<<k, b>>].st = "none"
  <2>1. <<k, b>> \in TurnId \ {<<c, boot>>}
    BY <1>1, <1>9 DEF TurnId
  <2>2. turn[d][<<k, b>>].st = "none"
    BY <1>4, <1>9 DEF DispatchIsBound
  <2> QED BY <2>1, <2>2 DEF CallMoves, TurnsStay
<1>10. DispatchIsBound(d)'
  BY <1>1, <1>2, <1>6, <1>7, <1>8, <1>9 DEF DispatchIsBound, CallMoves
<1>11. ASSUME Unshared(d) PROVE CallIsAlone(d)'
  <2>1. /\ RowIsStopped(s, turn'[d]) /\ c \in CallersOf[d] /\ \A e \in Caller \ {c} : exec[d][e].pc = "idle"
        /\ x.pc = "interrupting" => x.row.turn = s.turn
        /\ x.pc = "resuming" => s.turn = {}
    BY <1>11 DEF CallMoves
  <2>2. \A e \in Caller \ {c} : exec'[d][e].pc = "idle"
    BY <1>2, <2>1
  <2> QED BY <1>2, <2>1, <2>2 DEF CallIsAlone
<1>12. BInv'
  BY <1>3, <1>10, <1>11 DEF BInv, Unshared
<1>13. NothingResent
  <2> SUFFICES ASSUME NEW e \in Dispatch, NEW i \in TurnId, Unshared(e), turn[e][i].st = "none", turn'[e][i].st # "none"
               PROVE  disp[e].turn = {}
    BY DEF NothingResent
  <2>1. e = d
    BY <1>2
  <2>2. i = <<c, boot>>
    BY <2>1 DEF CallMoves, TurnsStay
  <2> QED BY <2>1, <2>2 DEF CallMoves
<1> QED BY <1>12, <1>13

-----------------------------------------------------------------------------
\* Rows that the steps write.

\* A failure, a cancellation and the loss of sight keep thread and turn.
LEMMA StatusBound ==
  ASSUME NEW r \in Row, NEW u, RowIsBound(r, u), NEW status \in {"failed", "recovery_attention", "cancelled", "cancelling"}
  PROVE  LET s == Status(r, status) IN RowGoesOn(r, s) /\ RowIsBound(s, u) /\ s.turn = r.turn /\ s.status = status
<1>1. status \in TurnDispatchStatuses
  BY DEF TurnDispatchStatuses, ActiveTurnDispatchStatuses, TerminalTurnDispatchStatuses
<1>2. Status(r, status).status = status /\ Status(r, status).thread = r.thread /\ Status(r, status).turn = r.turn
  BY <1>1, StatusType
<1> QED BY <1>2 DEF RowGoesOn, RowIsBound, Unsubmitted, PreSubmission

LEMMA SameRow == ASSUME NEW r PROVE RowGoesOn(r, r)
BY DEF RowGoesOn

\* What a catch writes: a row with a known turn is not closed as cancelled here.
LEMMA CaughtBound ==
  ASSUME NEW d, NEW r \in Row, NEW u, NEW error, RowIsBound(r, u)
  PROVE  LET s == CaughtRow(d, r, error) IN
         /\ RowGoesOn(r, s) /\ RowIsBound(s, u) /\ s.turn = r.turn
         /\ RowIsStopped(r, u) => RowIsStopped(s, u)
<1> DEFINE s == CaughtRow(d, r, error)
<1>1. \/ s = r
      \/ s \in {Status(r, "failed"), Status(r, "recovery_attention")}
      \/ s = Status(r, "cancelled") /\ r.turn = {}
  <2>1. CASE Terminal(r) \/ MustInterrupt(r, error) \/ error = "before"
    BY <2>1 DEF CaughtRow, FailBeforeSubmission
  <2>2. CASE ~ (Terminal(r) \/ MustInterrupt(r, error) \/ error = "before")
    <3>1. CASE r.status = "cancelling"
      BY <2>2, <3>1 DEF CaughtRow, AfterFence, MustInterrupt, Active, ActiveTurnDispatchStatuses
    <3>2. CASE r.status # "cancelling"
      BY <2>2, <3>2 DEF CaughtRow, AfterFence, FailBeforeSubmission
    <3> QED BY <3>1, <3>2
  <2> QED BY <2>1, <2>2
<1> HIDE DEF s
<1>2. CASE s = r
  BY <1>2, SameRow DEF s
<1>3. CASE s \in {Status(r, "failed"), Status(r, "recovery_attention")}
  BY <1>3, StatusBound DEF s, RowIsStopped
<1>4. CASE s = Status(r, "cancelled") /\ r.turn = {}
  BY <1>4, StatusBound DEF s, RowIsStopped
<1> QED BY <1>1, <1>2, <1>3, <1>4

LEMMA AfterFenceBound ==
  ASSUME NEW d, NEW r \in Row, NEW u, RowIsBound(r, u)
  PROVE  LET s == AfterFence(d, r) IN RowGoesOn(r, s) /\ RowIsBound(s, u) /\ s.turn = r.turn
BY StatusBound, SameRow DEF AfterFence, FailBeforeSubmission

LEMMA GoesOnTwice ==
  ASSUME NEW r, NEW s, NEW t, RowGoesOn(r, s), RowGoesOn(s, t)
  PROVE  RowGoesOn(r, t)
BY DEF RowGoesOn

\* A copy of the row itself.
LEMMA FreshCopy ==
  ASSUME NEW r \in Row, NEW u, RowIsBound(r, u), r.status \notin Unsubmitted, r.thread # {}
  PROVE  CopyIsBound(r, r, u)
BY DEF CopyIsBound, RowIsBound

-----------------------------------------------------------------------------
\* Calls whose turn stays as it is.

\* Only the turns ids of d may have been sent.
TurnsMove(d, ids) ==
  /\ \A e \in Dispatch \ {d} : turn'[e] = turn[e]
  /\ TurnsGoOn(turn[d], turn'[d]) /\ TurnsStay(turn[d], turn'[d], ids)

LEMMA StillTurns == ASSUME turn' = turn, NEW d, NEW ids PROVE TurnsMove(d, ids)
BY SameTurns DEF TurnsMove

\* turn/interrupt changes no status.
LEMMA AskMoves ==
  ASSUME turn \in TurnType, NEW d \in Dispatch, NEW ids, NEW any, AskStop(d, ids)
  PROVE  TurnsMove(d, any) /\ \A i \in ids : i \in TurnId => turn'[d][i].stop
<1> DEFINE asked(i) == IF i \in ids THEN [turn[d][i] EXCEPT !.stop = TRUE] ELSE turn[d][i]
<1>1. turn' = [turn EXCEPT ![d] = [i \in TurnId |-> asked(i)]]
  BY DEF AskStop
<1>2. ASSUME NEW i \in TurnId
      PROVE  asked(i).st = turn[d][i].st /\ asked(i).thread = turn[d][i].thread
             /\ (turn[d][i].stop => asked(i).stop) /\ (i \in ids => asked(i).stop)
  BY DEF TurnType
<1> HIDE DEF asked
<1>3. \A i \in TurnId : turn'[d][i] = asked(i)
  BY <1>1 DEF TurnType
<1>4. \A e \in Dispatch \ {d} : turn'[e] = turn[e]
  BY <1>1 DEF TurnType
<1> QED BY <1>2, <1>3, <1>4 DEF TurnsMove, TurnsGoOn, TurnsStay, Stopped, Ended, Accepted

CallIsFree(d, c) ==
  /\ recon[d].pc = "idle"
  /\ Unshared(d) => c \in CallersOf[d] /\ \A e \in Caller \ {c} : exec[d][e].pc = "idle"

\* Start-up is done with the dispatch of a call.
LEMMA RunningCall ==
  ASSUME BInv, NEW d \in Dispatch, NEW c \in Caller, exec[d][c].pc # "idle"
  PROVE  /\ CallIsFree(d, c) /\ disp[d].status # "absent" /\ RowIsBound(disp[d], turn[d])
         /\ CallIsBound(exec[d][c], disp[d], turn[d], <<c, boot>>)
         /\ Unshared(d) => CallIsAlone(d)
<1>1. DispatchIsBound(d) /\ (Unshared(d) => CallIsAlone(d))
  BY DEF BInv
<1> QED BY <1>1 DEF CallIsFree, DispatchIsBound, CallIsBound, CallIsAlone

LEMMA CallQuiet ==
  ASSUME TypeOK, TypeOK', BInv, NEW d \in Dispatch, NEW c \in Caller, NEW s, NEW x, CallIsFree(d, c),
         disp' = [disp EXCEPT ![d] = s], exec' = [exec EXCEPT ![d][c] = x], UNCHANGED <<recon, boot>>,
         TurnsMove(d, {}), RowGoesOn(disp[d], s), RowIsBound(s, turn[d]),
         CallIsBound(x, s, turn'[d], <<c, boot>>),
         x.pc = "interrupting" => x.row.turn = s.turn, x.pc = "resuming" => s.turn = {},
         Unshared(d) => RowIsStopped(s, turn'[d])
  PROVE  BInv' /\ NothingResent
<1>1. <<c, boot>> \in TurnId
  BY TypeParts, OwnTurn
<1>2. /\ TurnsGoOn(turn[d], turn'[d]) /\ TurnsStay(turn[d], turn'[d], {<<c, boot>>})
      /\ turn[d][<<c, boot>>].st = "none" => turn'[d][<<c, boot>>].st = "none"
      /\ \A e \in Dispatch \ {d} : turn'[e] = turn[e]
  BY <1>1 DEF TurnsMove, TurnsStay
<1>3. CallMoves(d, c, s, x)
  BY <1>2 DEF CallMoves, CallIsFree
<1> QED BY <1>3, CallKeeps

\* A call that throws: r is the stored row, or the one it has just claimed.
LEMMA CaughtKeeps ==
  ASSUME TypeOK, TypeOK', BInv, NEW d \in Dispatch, NEW c \in Caller, NEW error, NEW r \in Row, CallIsFree(d, c),
         Caught(d, c, r, error), TurnsMove(d, {}), UNCHANGED <<recon, boot>>,
         r.status # "absent", RowGoesOn(disp[d], r), RowIsBound(r, turn[d]), Unshared(d) => RowIsStopped(r, turn[d])
  PROVE  BInv' /\ NothingResent
<1> DEFINE s == CaughtRow(d, r, error)
           x == IF MustInterrupt(r, error) THEN At("interrupting", r) ELSE Done
<1>1. disp' = [disp EXCEPT ![d] = s] /\ exec' = [exec EXCEPT ![d][c] = x]
  BY DEF Caught
<1>2. /\ RowGoesOn(r, s) /\ RowIsBound(s, turn[d]) /\ s.turn = r.turn /\ s \in Row
      /\ RowIsStopped(r, turn[d]) => RowIsStopped(s, turn[d])
  BY CaughtBound, CaughtRowAdvances
<1>3. x.pc \in {"interrupting", "done"} /\ (x.pc = "interrupting" => x.row.turn = r.turn)
  BY DEF At, Done
<1> HIDE DEF s, x
<1>4. s.status # "absent" /\ RowGoesOn(disp[d], s)
  BY <1>2, GoesOnTwice DEF RowGoesOn
<1>5. CallIsBound(x, s, turn'[d], <<c, boot>>)
  BY <1>3, <1>4 DEF CallIsBound, Holding
<1>6. Unshared(d) => RowIsStopped(s, turn'[d])
  BY <1>2, RowStays DEF TurnsMove
<1> QED BY <1>1, <1>2, <1>3, <1>4, <1>5, <1>6, CallQuiet

\* The usual case: a running call, the stored row, the turns as they are.
LEMMA CaughtRunning ==
  ASSUME TypeOK, TypeOK', BInv, NEW d \in Dispatch, NEW c \in Caller, NEW error, exec[d][c].pc # "idle",
         Caught(d, c, disp[d], error), TurnsMove(d, {}), UNCHANGED <<recon, boot>>
  PROVE  BInv' /\ NothingResent
<1>1. disp[d] \in Row /\ (Unshared(d) => RowIsStopped(disp[d], turn[d]))
  BY TypeParts, RunningCall DEF CallIsAlone
<1> QED BY <1>1, RunningCall, SameRow, CaughtKeeps

\* A call that is through with the row s.
LEMMA DoneKeeps ==
  ASSUME TypeOK, TypeOK', BInv, NEW d \in Dispatch, NEW c \in Caller, NEW s, CallIsFree(d, c),
         disp' = [disp EXCEPT ![d] = s], exec' = [exec EXCEPT ![d][c] = Done],
         TurnsMove(d, {}), UNCHANGED <<recon, boot>>, s.status # "absent", RowGoesOn(disp[d], s), RowIsBound(s, turn[d]),
         Unshared(d) => RowIsStopped(s, turn'[d])
  PROVE  BInv' /\ NothingResent
<1>1. Done.pc = "done"
  BY DEF Done, At
<1>2. CallIsBound(Done, s, turn'[d], <<c, boot>>)
  BY <1>1 DEF CallIsBound, Holding
<1> QED BY <1>1, <1>2, CallQuiet

-----------------------------------------------------------------------------
\* The calls, one lemma per action.

LEMMA BoundInterrupted ==
  ASSUME TypeOK, TypeOK', BInv, NEW d \in Dispatch, NEW c \in Caller, Interrupted(d, c)
  PROVE  BInv' /\ NothingResent
<1> DEFINE s == AfterFence(d, disp[d])
<1>1. /\ exec[d][c].pc = "interrupting" /\ AskStop(d, exec[d][c].row.turn) /\ disp' = [disp EXCEPT ![d] = s]
      /\ exec' = [exec EXCEPT ![d][c] = Done] /\ UNCHANGED <<recon, boot>>
  BY TypeParts DEF Interrupted
<1>2. /\ exec[d][c].pc # "idle" /\ CallIsFree(d, c) /\ disp[d].status # "absent" /\ RowIsBound(disp[d], turn[d])
      /\ Unshared(d) => CallIsAlone(d)
  BY <1>1, RunningCall
<1>3. disp[d] \in Row /\ s \in Row /\ RowGoesOn(disp[d], s) /\ RowIsBound(s, turn[d]) /\ s.turn = disp[d].turn
  BY <1>2, TypeParts, AfterFenceAdvances, AfterFenceBound
<1>4. TurnsMove(d, {}) /\ \A i \in exec[d][c].row.turn : i \in TurnId => turn'[d][i].stop
  BY <1>1, TypeParts, AskMoves
<1>5. ASSUME Unshared(d) PROVE RowIsStopped(s, turn'[d])
  <2>1. exec[d][c].row.turn = disp[d].turn /\ disp[d].turn \subseteq TurnId
    BY <1>1, <1>2, <1>3, <1>5 DEF CallIsAlone, Row
  <2> QED BY <1>3, <1>4, <2>1 DEF RowIsStopped, Stopped
<1> HIDE DEF s
<1>6. s.status # "absent"
  BY <1>2, <1>3 DEF RowGoesOn
<1> QED BY <1>1, <1>2, <1>3, <1>4, <1>5, <1>6, DoneKeeps

LEMMA BoundAcquired ==
  ASSUME TypeOK, TypeOK', BInv, NEW d \in Dispatch, NEW c \in Caller, Acquired(d, c)
  PROVE  BInv' /\ NothingResent
<1> DEFINE s(t) == [disp[d] EXCEPT !.status = "thread_created", !.thread = {t}]
<1>1. exec[d][c].pc = "acquiring" /\ UNCHANGED <<turn, recon, boot>> /\ TurnsMove(d, {})
  BY StillTurns DEF Acquired
<1>2. PICK t \in ThreadsOf[d] :
        \/ \E error : Caught(d, c, disp[d], error)
        \/ LegalDispatch(disp[d].status, "thread_created") /\ Goes(d, c, "bound", s(t))
  BY DEF Acquired
<1>3. CASE \E error : Caught(d, c, disp[d], error)
  BY <1>1, <1>3, CaughtRunning
<1>4. CASE LegalDispatch(disp[d].status, "thread_created") /\ Goes(d, c, "bound", s(t))
  <2>1. /\ CallIsFree(d, c) /\ RowIsBound(disp[d], turn[d]) /\ disp[d] \in Row
        /\ turn[d][<<c, boot>>].st = "none"
    BY <1>1, RunningCall, TypeParts DEF CallIsBound
  <2>2. disp[d].status \in {"thread_acquiring", "thread_created"}
    BY <1>4 DEF LegalDispatch, TurnDispatchTransitions, TerminalTurnDispatchStatuses
  <2>3. s(t).status = "thread_created" /\ s(t).thread = {t} /\ s(t).turn = disp[d].turn
    BY <2>1 DEF Row
  <2> HIDE DEF s
  <2>4. disp[d].turn = {}
    BY <2>1, <2>2 DEF RowIsBound, Unsubmitted, PreSubmission
  <2>5. RowGoesOn(disp[d], s(t)) /\ RowIsBound(s(t), turn[d]) /\ RowIsStopped(s(t), turn'[d])
    BY <2>2, <2>3, <2>4 DEF RowGoesOn, RowIsBound, RowIsStopped, Unsubmitted, PreSubmission
  <2>6. At("bound", s(t)).pc = "bound"
    BY DEF At
  <2>7. CallIsBound(At("bound", s(t)), s(t), turn'[d], <<c, boot>>)
    BY <1>1, <2>1, <2>3, <2>6 DEF CallIsBound, Holding
  <2> QED BY <1>1, <1>4, <2>1, <2>5, <2>6, <2>7, CallQuiet DEF Goes
<1> QED BY <1>2, <1>3, <1>4

\* turn/start takes the thread of the row whose turn is not known.
LEMMA SentKeeps ==
  ASSUME TypeOK, TypeOK', BInv, NEW d \in Dispatch, NEW c \in Caller, NEW s \in Row, NEW x, exec[d][c].pc # "idle",
         disp' = [disp EXCEPT ![d] = s], exec' = [exec EXCEPT ![d][c] = x], UNCHANGED <<recon, boot>>,
         turn[d][<<c, boot>>].st = "none", Start(d, <<c, boot>>, x.row.thread), x.pc = "waiting",
         RowGoesOn(disp[d], s), RowIsBound(s, turn[d]), CopyIsBound(x.row, s, turn[d]), x.row \in Row,
         Unshared(d) => disp[d].turn = {} /\ RowIsStopped(s, turn[d])
  PROVE  BInv' /\ NothingResent
<1> DEFINE own == <<c, boot>>
           sent == [st |-> "sent", thread |-> x.row.thread, stop |-> FALSE]
<1>1. own \in TurnId /\ turn \in TurnType /\ turn' = [turn EXCEPT ![d][own] = sent]
  BY TypeParts, OwnTurn DEF Start
<1>2. /\ turn'[d][own] = sent /\ sent.thread = x.row.thread
      /\ \A i \in TurnId \ {own} : turn'[d][i] = turn[d][i]
      /\ \A e \in Dispatch \ {d} : turn'[e] = turn[e]
  BY <1>1 DEF TurnType
<1> HIDE DEF own, sent
<1>3. TurnsGoOn(turn[d], turn'[d]) /\ TurnsStay(turn[d], turn'[d], {own})
  BY <1>2 DEF TurnsGoOn, TurnsStay, Accepted, Ended, own
<1>4. CopyIsBound(x.row, s, turn'[d])
  BY <1>3, CopyStays, SameRow
<1>5. s.status # "absent"
  BY <1>4 DEF CopyIsBound, Unsubmitted
<1>6. CallIsBound(x, s, turn'[d], own)
  BY <1>2, <1>4, <1>5 DEF CallIsBound, Holding
<1>7. Unshared(d) => RowIsStopped(s, turn'[d])
  BY <1>3, RowStays
<1>8. CallIsFree(d, c)
  BY RunningCall
<1>9. CallMoves(d, c, s, x)
  BY <1>2, <1>3, <1>6, <1>7, <1>8 DEF CallMoves, CallIsFree, own
<1> QED BY <1>9, CallKeeps

LEMMA BoundSubmit ==
  ASSUME TypeOK, TypeOK', BInv, NEW d \in Dispatch, NEW c \in Caller, Submit(d, c)
  PROVE  BInv' /\ NothingResent
<1> DEFINE s == Status(disp[d], "turn_submitting")
<1>1. exec[d][c].pc = "bound" /\ UNCHANGED <<recon, boot>>
  BY DEF Submit
<1>2. /\ CallIsFree(d, c) /\ RowIsBound(disp[d], turn[d]) /\ disp[d] \in Row
      /\ turn[d][<<c, boot>>].st = "none"
  BY <1>1, RunningCall, TypeParts DEF CallIsBound
<1>3. s \in Row /\ s.status = "turn_submitting" /\ s.thread = disp[d].thread /\ s.turn = disp[d].turn
  BY <1>2, StatusType DEF TurnDispatchStatuses, ActiveTurnDispatchStatuses
<1>4. CASE UNCHANGED turn /\ \E error \in {"fenced", "error"} : Caught(d, c, disp[d], error)
  <2>1. TurnsMove(d, {})
    BY <1>4, StillTurns
  <2> QED BY <1>1, <1>4, <2>1, CaughtRunning
<1>5. CASE /\ LegalDispatch(disp[d].status, "turn_submitting")
           /\ \/ Goes(d, c, "waiting", s) /\ Start(d, <<c, boot>>, s.thread)
              \/ Goes(d, c, "resuming", s) /\ UNCHANGED turn
  <2>1. disp[d].status \in {"thread_created", "turn_submitting"}
    BY <1>5 DEF LegalDispatch, TurnDispatchTransitions, TerminalTurnDispatchStatuses
  <2> HIDE DEF s
  <2>2. disp[d].turn = {} /\ disp[d].thread # {}
    BY <1>2, <2>1 DEF RowIsBound, Unsubmitted, PreSubmission
  <2>3. RowGoesOn(disp[d], s) /\ RowIsBound(s, turn[d]) /\ RowIsStopped(s, turn[d])
    BY <1>3, <2>1, <2>2 DEF RowGoesOn, RowIsBound, RowIsStopped, Unsubmitted, PreSubmission
  <2>4. CopyIsBound(s, s, turn[d])
    BY <1>3, <2>2, <2>3, FreshCopy DEF Unsubmitted, PreSubmission
  <2>5. CASE Goes(d, c, "waiting", s) /\ Start(d, <<c, boot>>, s.thread)
    <3>1. At("waiting", s).pc = "waiting" /\ At("waiting", s).row = s
      BY DEF At
    <3> QED BY <1>1, <1>2, <1>3, <2>2, <2>3, <2>4, <2>5, <3>1, SentKeeps DEF Goes
  <2>6. CASE Goes(d, c, "resuming", s) /\ UNCHANGED turn
    <3>1. At("resuming", s).pc = "resuming" /\ At("resuming", s).row = s
      BY DEF At
    <3>2. TurnsMove(d, {}) /\ turn'[d] = turn[d]
      BY <2>6, StillTurns
    <3>3. CallIsBound(At("resuming", s), s, turn'[d], <<c, boot>>)
      BY <1>2, <1>3, <2>4, <3>1, <3>2 DEF CallIsBound, Holding
    <3> QED BY <1>1, <1>2, <1>3, <2>2, <2>3, <2>6, <3>1, <3>2, <3>3, CallQuiet DEF Goes
  <2> QED BY <1>5, <2>5, <2>6
<1> QED BY <1>4, <1>5 DEF Submit

LEMMA BoundResumed ==
  ASSUME TypeOK, TypeOK', BInv, NEW d \in Dispatch, NEW c \in Caller, Resumed(d, c)
  PROVE  BInv' /\ NothingResent
<1> DEFINE x == [exec[d][c] EXCEPT !.pc = "waiting"]
<1>1. /\ exec[d][c].pc = "resuming" /\ UNCHANGED <<disp, recon, boot>>
      /\ Start(d, <<c, boot>>, exec[d][c].row.thread) /\ exec' = [exec EXCEPT ![d][c].pc = "waiting"]
  BY DEF Resumed
<1>2. /\ RowIsBound(disp[d], turn[d]) /\ disp[d] \in Row /\ exec[d][c] \in [pc : ExecPc, row : Row]
      /\ turn[d][<<c, boot>>].st = "none" /\ CopyIsBound(exec[d][c].row, disp[d], turn[d])
      /\ Unshared(d) => disp[d].turn = {} /\ RowIsStopped(disp[d], turn[d])
  BY <1>1, RunningCall, TypeParts DEF CallIsBound, Holding, ExecType, CallIsAlone
<1>3. x.pc = "waiting" /\ x.row = exec[d][c].row /\ x.row \in Row
  BY <1>2
<1>4. exec' = [exec EXCEPT ![d][c] = x] /\ disp' = [disp EXCEPT ![d] = disp[d]]
  BY <1>1, TypeParts DEF ExecType
<1> HIDE DEF x
<1>5. RowGoesOn(disp[d], disp[d]) /\ exec[d][c].pc # "idle"
  BY <1>1, SameRow
<1> QED BY <1>1, <1>2, <1>3, <1>4, <1>5, SentKeeps

LEMMA BoundResponse ==
  ASSUME TypeOK, TypeOK', BInv, NEW d \in Dispatch, NEW c \in Caller, Response(d, c)
  PROVE  BInv' /\ NothingResent
<1> DEFINE own == <<c, boot>>
           s == [disp[d] EXCEPT !.status = "turn_running", !.turn = {own}]
<1>1. exec[d][c].pc = "waiting" /\ turn[d][own].st \in Accepted /\ UNCHANGED <<turn, recon, boot>>
      /\ TurnsMove(d, {}) /\ turn'[d] = turn[d]
  BY StillTurns DEF Response
<1>2. CASE \E error \in {"fenced", "error"} : Caught(d, c, disp[d], error)
  BY <1>1, <1>2, CaughtRunning
<1>3. CASE LegalDispatch(disp[d].status, "turn_running") /\ Goes(d, c, "running", s)
  <2>1. /\ CallIsFree(d, c) /\ RowIsBound(disp[d], turn[d]) /\ disp[d] \in Row
        /\ turn[d][own].thread = exec[d][c].row.thread
        /\ CopyIsBound(exec[d][c].row, disp[d], turn[d])
    BY <1>1, RunningCall, TypeParts DEF CallIsBound, Holding
  <2>2. disp[d].status \in {"turn_submitting", "turn_running"}
    BY <1>3 DEF LegalDispatch, TurnDispatchTransitions, TerminalTurnDispatchStatuses
  <2>3. s.status = "turn_running" /\ s.thread = disp[d].thread /\ s.turn = {own} /\ s \in Row
    BY <2>1, TypeParts, OwnTurn DEF Row, TurnDispatchStatuses, ActiveTurnDispatchStatuses
  <2>4. turn[d][own].thread = disp[d].thread /\ disp[d].thread # {}
    BY <2>1 DEF CopyIsBound
  <2> HIDE DEF s, own
  <2>5. RowGoesOn(disp[d], s) /\ RowIsBound(s, turn[d]) /\ RowIsStopped(s, turn'[d])
    BY <1>1, <2>2, <2>3, <2>4 DEF RowGoesOn, RowIsBound, RowIsStopped, Unsubmitted, PreSubmission
  <2>6. CopyIsBound(s, s, turn'[d])
    BY <1>1, <2>3, <2>4, <2>5, FreshCopy DEF Unsubmitted, PreSubmission
  <2>7. At("running", s).pc = "running" /\ At("running", s).row = s
    BY DEF At
  <2>8. CallIsBound(At("running", s), s, turn'[d], own)
    BY <1>1, <2>3, <2>4, <2>6, <2>7 DEF CallIsBound, Holding
  <2> QED BY <1>1, <1>3, <2>1, <2>5, <2>7, <2>8, CallQuiet DEF Goes, own
<1> QED BY <1>2, <1>3 DEF Response

LEMMA BoundThrows ==
  ASSUME TypeOK, TypeOK', BInv, NEW d \in Dispatch, NEW c \in Caller, StartTimesOut(d, c) \/ Abandoned(d, c)
  PROVE  BInv' /\ NothingResent
<1>1. /\ exec[d][c].pc # "idle" /\ UNCHANGED <<turn, recon, boot>>
      /\ \E error : Caught(d, c, disp[d], error)
  BY DEF StartTimesOut, Abandoned
<1>2. TurnsMove(d, {})
  BY <1>1, StillTurns
<1> QED BY <1>1, <1>2, CaughtRunning

LEMMA BoundCompleted ==
  ASSUME TypeOK, TypeOK', BInv, NEW d \in Dispatch, NEW c \in Caller, Completed(d, c)
  PROVE  BInv' /\ NothingResent
<1> DEFINE own == <<c, boot>>
           end == turn[d][own].st
           s == EndedRow(disp[d], own, end)
<1>1. exec[d][c].pc = "running" /\ end \in Ended /\ UNCHANGED <<turn, recon, boot>>
      /\ TurnsMove(d, {}) /\ turn'[d] = turn[d]
  BY StillTurns DEF Completed
<1>2. CASE \E error \in {"fenced", "error"} : Caught(d, c, disp[d], error)
  BY <1>1, <1>2, CaughtRunning
<1>3. CASE /\ LegalDispatch(disp[d].status, end)
           /\ disp' = [disp EXCEPT ![d] = s] /\ exec' = [exec EXCEPT ![d][c] = Done]
  <2>1. /\ CallIsFree(d, c) /\ RowIsBound(disp[d], turn[d]) /\ disp[d] \in Row
        /\ turn[d][own].thread = exec[d][c].row.thread
        /\ CopyIsBound(exec[d][c].row, disp[d], turn[d])
    BY <1>1, RunningCall, TypeParts DEF CallIsBound, Holding
  <2>2. s.status = end /\ s.thread = disp[d].thread /\ s.turn = {own}
    BY <2>1 DEF EndedRow, Row
  <2>3. turn[d][own].thread = disp[d].thread /\ disp[d].thread # {}
    BY <2>1 DEF CopyIsBound
  <2> HIDE DEF s, own
  <2>4. RowGoesOn(disp[d], s) /\ RowIsBound(s, turn[d]) /\ RowIsStopped(s, turn'[d]) /\ s.status # "absent"
    BY <1>1, <2>2, <2>3 DEF RowGoesOn, RowIsBound, RowIsStopped, Unsubmitted, PreSubmission, Ended, Accepted
  <2> QED BY <1>1, <1>3, <2>1, <2>4, DoneKeeps
<1>4. disp' = [disp EXCEPT ![d] = EndedRow(@, own, end)] => disp' = [disp EXCEPT ![d] = s]
  BY TypeParts
<1> HIDE DEF s
<1> QED BY <1>2, <1>3, <1>4 DEF Completed

-----------------------------------------------------------------------------
\* Reads of the thread.

\* A read shows at most one turn, accepted on the thread of the copy; once a turn is
\* recorded, that one.
LEMMA ObservedTurn ==
  ASSUME NEW d \in Dispatch, NEW k \in Row, NEW found \in Observations(d, k)
  PROVE  \/ found = {}
         \/ \E i \in TurnId : /\ found = {i} /\ turn[d][i].st \in Accepted /\ turn[d][i].thread = k.thread
                              /\ k.status = "cancelling" => i \in k.turn
BY DEF Observations

\* Whatever a read shows, the row it is stored in goes on and names a turn on its thread.
LEMMA ReadBound ==
  ASSUME NEW d \in Dispatch, disp[d] \in Row, NEW k \in Row, NEW found \in Observations(d, k), NEW token, NEW o,
         o = Reconciled(d, k, token, found), RowIsBound(disp[d], turn[d]), CopyIsBound(k, disp[d], turn[d]),
         k.status \in {"turn_submitting", "turn_running", "cancelling", "recovery_attention"}
  PROVE  /\ RowGoesOn(disp[d], o.row) /\ RowIsBound(o.row, turn[d])
         /\ RowIsStopped(disp[d], turn[d]) => RowIsStopped(o.row, turn[d])
         /\ o.row.turn = disp[d].turn \/ o.row.turn = found
<1> DEFINE now == disp[d]
           shown == ShownStatus(d, found)
           bound == IF found = {} THEN now.turn ELSE found
           kept == IF k.status = "turn_submitting" /\ found # {} THEN "turn_running" ELSE k.status
           new(status) == [now EXCEPT !.status = status, !.turn = bound]
<1>1. \/ o.row = now
      \/ o.row = new(shown) /\ shown \in Ended
      \/ o.row = new("recovery_attention")
      \/ o.row = new(kept) /\ LegalDispatch(now.status, kept)
  <2>1. CASE shown \in Ended
    BY <2>1 DEF Reconciled
  <2>2. CASE shown \notin Ended
    BY <2>2 DEF Reconciled
  <2> QED BY <2>1, <2>2
<1>2. \/ found = {}
      \/ \E i \in TurnId : found = {i} /\ turn[d][i].st \in Accepted /\ turn[d][i].thread = k.thread
  BY ObservedTurn
<1>3. /\ \A i \in bound : turn[d][i].st \in Accepted /\ turn[d][i].thread = now.thread
      /\ now.turn # {} => bound # {}
      /\ now.status \notin Unsubmitted /\ now.thread # {}
      /\ bound \in {now.turn, found}
  BY <1>2 DEF RowIsBound, CopyIsBound
<1>4. shown \in Ended => bound # {} /\ \A i \in bound : turn[d][i].st = shown
  BY <1>2 DEF ShownStatus, Ended
<1>5. /\ kept \in {"turn_submitting", "turn_running", "cancelling", "recovery_attention"}
      /\ kept = "turn_running" => bound # {}
      /\ kept = "turn_submitting" => found = {}
  BY <1>3 DEF CopyIsBound
<1>6. kept = "turn_submitting" /\ LegalDispatch(now.status, kept) => bound = {}
  <2>1. kept = "turn_submitting" /\ LegalDispatch(now.status, kept) => now.status \in {"thread_created", "turn_submitting"}
    BY DEF LegalDispatch, TurnDispatchTransitions, TerminalTurnDispatchStatuses
  <2>2. now.status = "turn_submitting" => now.turn = {}
    BY DEF RowIsBound
  <2> QED BY <1>3, <1>5, <2>1, <2>2 DEF Unsubmitted, PreSubmission
<1>7. ASSUME NEW status \in Ended \cup {"recovery_attention", "turn_submitting", "turn_running", "cancelling"}, o.row = new(status),
             status = "turn_running" => bound # {}, status = "turn_submitting" => bound = {},
             status \in {"completed", "interrupted"} => bound # {} /\ \A i \in bound : turn[d][i].st = status
      PROVE  /\ RowGoesOn(now, o.row) /\ RowIsBound(o.row, turn[d]) /\ RowIsStopped(o.row, turn[d])
             /\ o.row.turn \in {now.turn, found}
  <2>1. o.row.status = status /\ o.row.turn = bound /\ o.row.thread = now.thread
    <3> HIDE DEF bound
    <3> QED BY <1>7 DEF Row
  <2> HIDE DEF bound, new, now
  <2>2. RowGoesOn(now, o.row)
    BY <1>3, <2>1 DEF RowGoesOn, Unsubmitted, PreSubmission, Ended
  <2>3. RowIsBound(o.row, turn[d])
    BY <1>3, <1>7, <2>1 DEF RowIsBound, Unsubmitted, PreSubmission, Ended
  <2>4. RowIsStopped(o.row, turn[d])
    BY <2>1 DEF RowIsStopped, Ended
  <2> QED BY <1>3, <2>1, <2>2, <2>3, <2>4
<1> HIDE DEF bound, kept, new, shown
<1>8. CASE o.row = now
  BY <1>8, SameRow
<1>9. CASE o.row = new(shown) /\ shown \in Ended
  BY <1>4, <1>7, <1>9 DEF Ended
<1>10. CASE o.row = new("recovery_attention")
  BY <1>7, <1>10
<1>11. CASE o.row = new(kept) /\ LegalDispatch(now.status, kept)
  BY <1>5, <1>6, <1>7, <1>11
<1> QED BY <1>1, <1>8, <1>9, <1>10, <1>11

LEMMA OutcomeBound ==
  ASSUME NEW d \in Dispatch, disp[d] \in Row, NEW k \in Row, NEW token, NEW o \in Outcomes(d, k, token),
         RowIsBound(disp[d], turn[d]), CopyIsBound(k, disp[d], turn[d]),
         k.status \in {"turn_submitting", "turn_running", "cancelling", "recovery_attention"}
  PROVE  /\ RowGoesOn(disp[d], o.row) /\ RowIsBound(o.row, turn[d])
         /\ RowIsStopped(disp[d], turn[d]) => RowIsStopped(o.row, turn[d])
<1>1. CASE o = [out |-> "throw", row |-> disp[d]]
  BY <1>1, SameRow
<1>2. CASE \E found \in Observations(d, k) : o = Reconciled(d, k, token, found)
  BY <1>2, ReadBound
<1> QED BY <1>1, <1>2 DEF Outcomes

\* The interrupted turn is stored with the row that needs attention.
LEMMA ExpireBound ==
  ASSUME NEW d \in Dispatch, disp[d] \in Row, NEW k \in Row, k.turn # {},
         RowIsBound(disp[d], turn[d]), CopyIsBound(k, disp[d], turn[d])
  PROVE  LET s == Expire(d, k) IN
         /\ RowGoesOn(disp[d], s) /\ RowIsBound(s, turn[d])
         /\ RowIsStopped(disp[d], turn[d]) => RowIsStopped(s, turn[d])
<1> DEFINE s == Expire(d, k)
<1>1. CASE s = disp[d]
  BY <1>1, SameRow
<1>2. CASE s = [disp[d] EXCEPT !.status = "recovery_attention", !.turn = k.turn]
  <2>1. s.status = "recovery_attention" /\ s.turn = k.turn /\ s.thread = disp[d].thread
    BY <1>2 DEF Row
  <2> HIDE DEF s
  <2>2. RowGoesOn(disp[d], s) /\ RowIsBound(s, turn[d]) /\ RowIsStopped(s, turn[d])
    BY <2>1 DEF RowGoesOn, RowIsBound, RowIsStopped, CopyIsBound, Unsubmitted, PreSubmission
  <2> QED BY <2>2 DEF s
<1> QED BY <1>1, <1>2 DEF Expire

LEMMA BoundObserve ==
  ASSUME TypeOK, TypeOK', BInv, NEW d \in Dispatch, NEW c \in Caller, Observe(d, c)
  PROVE  BInv' /\ NothingResent
<1> DEFINE k == exec[d][c].row
           x == [exec[d][c] EXCEPT !.pc = "expiring"]
<1>1. exec[d][c].pc = "observing" /\ UNCHANGED <<turn, recon, boot>> /\ TurnsMove(d, {}) /\ turn'[d] = turn[d]
  BY StillTurns DEF Observe
<1>2. PICK o \in Outcomes(d, exec[d][c].row, exec[d][c].row.owner) :
        \/ disp' = [disp EXCEPT ![d] = o.row] /\ exec' = [exec EXCEPT ![d][c] = Done]
        \/ exec' = [exec EXCEPT ![d][c].pc = "expiring"] /\ UNCHANGED disp
        \/ \E error \in {"error", "fenced"} : Caught(d, c, disp[d], error)
  BY DEF Observe
<1>3. /\ disp[d] \in Row /\ exec[d][c] \in [pc : ExecPc, row : Row] /\ k \in Row
      /\ CallIsFree(d, c) /\ RowIsBound(disp[d], turn[d]) /\ disp[d].status # "absent"
      /\ CallIsBound(exec[d][c], disp[d], turn[d], <<c, boot>>)
      /\ Unshared(d) => RowIsStopped(disp[d], turn[d])
  BY <1>1, RunningCall, TypeParts DEF ExecType, CallIsAlone
<1>4. CopyIsBound(k, disp[d], turn[d]) /\ k.status = "turn_running" /\ k.turn # {}
  BY <1>1, <1>3 DEF CallIsBound, Holding
<1> HIDE DEF k
<1>5. CASE disp' = [disp EXCEPT ![d] = o.row] /\ exec' = [exec EXCEPT ![d][c] = Done]
  <2>1. /\ RowGoesOn(disp[d], o.row) /\ RowIsBound(o.row, turn[d])
        /\ RowIsStopped(disp[d], turn[d]) => RowIsStopped(o.row, turn[d])
    BY <1>2, <1>3, <1>4, OutcomeBound DEF k
  <2>2. o.row.status # "absent"
    BY <1>3, <2>1 DEF RowGoesOn
  <2> QED BY <1>1, <1>3, <1>5, <2>1, <2>2, DoneKeeps
<1>6. CASE exec' = [exec EXCEPT ![d][c].pc = "expiring"] /\ UNCHANGED disp
  <2>1. x.pc = "expiring" /\ x.row = k
    BY <1>3 DEF k
  <2>2. exec' = [exec EXCEPT ![d][c] = x] /\ disp' = [disp EXCEPT ![d] = disp[d]]
    BY <1>6, TypeParts DEF ExecType
  <2> HIDE DEF x
  <2>3. CallIsBound(x, disp[d], turn'[d], <<c, boot>>)
    BY <1>1, <1>3, <1>4, <2>1 DEF CallIsBound
  <2> QED BY <1>1, <1>3, <2>1, <2>2, <2>3, SameRow, CallQuiet
<1>7. CASE \E error \in {"error", "fenced"} : Caught(d, c, disp[d], error)
  BY <1>1, <1>7, CaughtRunning
<1> QED BY <1>2, <1>5, <1>6, <1>7

LEMMA BoundObserveExpired ==
  ASSUME TypeOK, TypeOK', BInv, NEW d \in Dispatch, NEW c \in Caller, ObserveExpired(d, c)
  PROVE  BInv' /\ NothingResent
<1> DEFINE k == exec[d][c].row
           s == Expire(d, k)
<1>1. exec[d][c].pc = "expiring" /\ UNCHANGED <<recon, boot>> /\ TurnsMove(d, {})
  BY TypeParts, AskMoves DEF ObserveExpired
<1>2. CASE disp' = [disp EXCEPT ![d] = s] /\ exec' = [exec EXCEPT ![d][c] = Done]
  <2>1. /\ disp[d] \in Row /\ k \in Row
        /\ CallIsFree(d, c) /\ RowIsBound(disp[d], turn[d]) /\ disp[d].status # "absent"
        /\ CopyIsBound(k, disp[d], turn[d]) /\ k.turn # {}
        /\ Unshared(d) => RowIsStopped(disp[d], turn[d])
    <3>1. /\ CallIsFree(d, c) /\ RowIsBound(disp[d], turn[d]) /\ disp[d].status # "absent"
          /\ CallIsBound(exec[d][c], disp[d], turn[d], <<c, boot>>) /\ (Unshared(d) => CallIsAlone(d))
      BY <1>1, RunningCall
    <3>2. disp[d] \in Row /\ k \in Row
      BY TypeParts DEF ExecType
    <3> QED BY <1>1, <3>1, <3>2 DEF CallIsAlone, CallIsBound, Holding
  <2> HIDE DEF k
  <2>2. /\ RowGoesOn(disp[d], s) /\ RowIsBound(s, turn[d])
        /\ RowIsStopped(disp[d], turn[d]) => RowIsStopped(s, turn[d])
    BY <2>1, ExpireBound
  <2>3. s \in Row
    BY <1>2, TypeParts
  <2> HIDE DEF s
  <2>4. s.status # "absent" /\ (Unshared(d) => RowIsStopped(s, turn'[d]))
    BY <1>1, <2>1, <2>2, <2>3, RowStays DEF RowGoesOn, TurnsMove
  <2> QED BY <1>1, <1>2, <2>1, <2>2, <2>4, DoneKeeps
<1>3. CASE Caught(d, c, disp[d], "error")
  BY <1>1, <1>3, CaughtRunning
<1> QED BY <1>2, <1>3 DEF ObserveExpired

-----------------------------------------------------------------------------
\* The way into a dispatch.

LEMMA ClaimBound ==
  ASSUME NEW d \in Dispatch, NEW r \in Row, NEW u, NEW s \in Claims(d, r), boot \in 1..MaxBoots, RowIsBound(r, u)
  PROVE  s \in Row /\ s.status = r.status /\ s.turn = r.turn /\ s.thread = r.thread /\ RowGoesOn(r, s) /\ RowIsBound(s, u)
<1>1. s \in Row /\ s.status = r.status /\ s.turn = r.turn /\ s.thread = r.thread
  BY NewClaimType DEF Claims
<1> QED BY <1>1 DEF RowGoesOn, RowIsBound

LEMMA EntryBound ==
  ASSUME NEW r \in Row, NEW u, NEW own, RowIsBound(r, u), Active(r), r.status # "cancelling", u[own].st = "none"
  PROVE  LET s == EntryRow(r)
             x == At(EntryPc(r), s)
         IN  /\ RowGoesOn(r, s) /\ RowIsBound(s, u) /\ RowIsStopped(s, u) /\ s.status # "absent"
             /\ CallIsBound(x, s, u, own)
             /\ x.pc # "interrupting" /\ (x.pc = "resuming" => s.turn = {})
<1> DEFINE s == EntryRow(r)
           x == At(EntryPc(r), s)
<1>1. r.status \in {"prepared", "thread_acquiring", "thread_created", "turn_submitting", "turn_running"}
  BY DEF Active, ActiveTurnDispatchStatuses
<1>2. x.pc = EntryPc(r) /\ x.row = s
  BY DEF At
<1>3. CASE r.status \in {"prepared", "thread_acquiring"}
  <2>1. s = Status(r, "thread_acquiring") /\ x.pc = "acquiring"
    BY <1>2, <1>3 DEF EntryRow, EntryPc
  <2>2. s.status = "thread_acquiring" /\ s.turn = r.turn /\ s.thread = r.thread
    BY <2>1, StatusType DEF TurnDispatchStatuses, ActiveTurnDispatchStatuses
  <2> HIDE DEF s, x
  <2> QED BY <1>3, <2>1, <2>2 DEF RowGoesOn, RowIsBound, RowIsStopped, CallIsBound, Holding, Unsubmitted, PreSubmission, s, x
<1>4. CASE r.status = "thread_created"
  <2>1. s = r /\ x.pc = "bound"
    BY <1>2, <1>4 DEF EntryRow, EntryPc
  <2> HIDE DEF s, x
  <2>2. CallIsBound(x, s, u, own)
    BY <1>4, <2>1 DEF CallIsBound, Holding
  <2> QED BY <1>4, <2>1, <2>2, SameRow DEF RowIsStopped, s, x
<1>5. CASE r.status \in {"turn_submitting", "turn_running"} /\ r.turn = {}
  <2>1. s = r /\ x.pc = "resuming" /\ r.thread # {}
    BY <1>2, <1>5 DEF EntryRow, EntryPc, RowIsBound
  <2>2. CopyIsBound(r, r, u)
    BY <1>5, <2>1, FreshCopy DEF Unsubmitted, PreSubmission
  <2> HIDE DEF s, x
  <2>3. CallIsBound(x, s, u, own)
    BY <1>2, <1>5, <2>1, <2>2 DEF CallIsBound, Holding
  <2> QED BY <1>5, <2>1, <2>3, SameRow DEF RowIsStopped, s, x
<1>6. CASE r.status \in {"turn_submitting", "turn_running"} /\ r.turn # {}
  <2>1. s = Status(r, "turn_running") /\ x.pc = "observing" /\ r.thread # {}
    BY <1>2, <1>6 DEF EntryRow, EntryPc, RowIsBound
  <2>2. s \in Row /\ s.status = "turn_running" /\ s.turn = r.turn /\ s.thread = r.thread
    BY <2>1, StatusType DEF TurnDispatchStatuses, ActiveTurnDispatchStatuses
  <2> HIDE DEF s, x
  <2>3. RowGoesOn(r, s) /\ RowIsBound(s, u) /\ RowIsStopped(s, u)
    BY <1>6, <2>1, <2>2 DEF RowGoesOn, RowIsBound, RowIsStopped, Unsubmitted, PreSubmission
  <2>4. CopyIsBound(s, s, u)
    BY <2>1, <2>2, <2>3, FreshCopy DEF Unsubmitted, PreSubmission
  <2>5. CallIsBound(x, s, u, own)
    BY <1>2, <1>6, <2>1, <2>2, <2>4 DEF CallIsBound, Holding
  <2> QED BY <2>1, <2>2, <2>3, <2>5 DEF s, x
<1> QED BY <1>1, <1>3, <1>4, <1>5, <1>6

LEMMA BoundBegin ==
  ASSUME TypeOK, TypeOK', BInv, NEW d \in Dispatch, NEW c \in Caller, Begin(d, c)
  PROVE  BInv' /\ NothingResent
<1> DEFINE prepared == IF disp[d].status = "absent" THEN Status(Absent, "prepared") ELSE disp[d]
<1>1. /\ UNCHANGED <<turn, recon, boot>> /\ TurnsMove(d, {}) /\ turn'[d] = turn[d]
      /\ exec[d][c].pc = "idle" /\ c \in CallersOf[d] /\ recon[d].pc = "idle"
      /\ d \in TaskDispatch => disp[d].status = "absent"
  BY StillTurns DEF Begin
<1>2. PICK row \in Claims(d, prepared) :
        \/ disp' = [disp EXCEPT ![d] = row] /\ exec' = [exec EXCEPT ![d][c] = Done]
        \/ \E error \in {"fenced", "error"} : Caught(d, c, row, error)
        \/ row.status # "cancelling" /\ Goes(d, c, EntryPc(row), EntryRow(row))
  BY DEF Begin
<1>3. Active(prepared)
  BY DEF Begin
<1>4. disp[d] \in Row /\ boot \in 1..MaxBoots /\ DispatchIsBound(d) /\ (Unshared(d) => CallIsAlone(d))
  BY TypeParts DEF BInv
<1>5. prepared \in Row /\ RowGoesOn(disp[d], prepared) /\ RowIsBound(prepared, turn[d])
  <2>1. CASE disp[d].status = "absent"
    <3>1. prepared \in Row /\ prepared.status = "prepared" /\ prepared.turn = {} /\ prepared.thread = {}
      <4>1. "prepared" \in TurnDispatchStatuses /\ Absent.turn = {} /\ Absent.thread = {}
        BY DEF TurnDispatchStatuses, ActiveTurnDispatchStatuses, Absent
      <4> QED BY <2>1, <4>1, AbsentType, StatusType
    <3>2. disp[d].turn = {}
      BY <1>4, <2>1 DEF DispatchIsBound, RowIsBound, Unsubmitted
    <3> HIDE DEF prepared
    <3> QED BY <2>1, <3>1, <3>2 DEF RowGoesOn, RowIsBound, Unsubmitted
  <2>2. CASE disp[d].status # "absent"
    BY <1>4, <2>2, SameRow DEF DispatchIsBound
  <2> QED BY <2>1, <2>2
<1> HIDE DEF prepared
<1>6. /\ row \in Row /\ Active(row) /\ RowGoesOn(disp[d], row) /\ RowIsBound(row, turn[d])
      /\ row.status # "absent" /\ RowIsStopped(row, turn[d])
  <2>1. row \in Row /\ row.status = prepared.status /\ RowGoesOn(prepared, row) /\ RowIsBound(row, turn[d])
    BY <1>4, <1>5, ClaimBound
  <2> QED BY <1>3, <1>5, <2>1, GoesOnTwice DEF Active, ActiveTurnDispatchStatuses, RowIsStopped
<1>7. CallIsFree(d, c)
  <2>1. ASSUME Unshared(d), NEW e \in Caller \ {c} PROVE exec[d][e].pc = "idle"
    <3>1. CASE d \in TaskDispatch
      BY <1>1, <1>4, <3>1 DEF DispatchIsBound, CallIsBound
    <3>2. CASE d \notin TaskDispatch
      <4>1. \A f \in CallersOf[d] : f = c
        BY <1>1, <2>1, <3>2 DEF Unshared
      <4> QED BY <1>4, <2>1, <4>1 DEF CallIsAlone
    <3> QED BY <3>1, <3>2
  <2> QED BY <1>1, <2>1 DEF CallIsFree
<1>8. CASE disp' = [disp EXCEPT ![d] = row] /\ exec' = [exec EXCEPT ![d][c] = Done]
  BY <1>1, <1>6, <1>7, <1>8, DoneKeeps
<1>9. CASE \E error \in {"fenced", "error"} : Caught(d, c, row, error)
  BY <1>1, <1>6, <1>7, <1>9, CaughtKeeps
<1>10. CASE row.status # "cancelling" /\ Goes(d, c, EntryPc(row), EntryRow(row))
  <2> DEFINE s == EntryRow(row)
             x == At(EntryPc(row), s)
  <2>1. turn[d][<<c, boot>>].st = "none"
    BY <1>1, <1>4 DEF DispatchIsBound, CallIsBound
  <2>2. /\ RowGoesOn(row, s) /\ RowIsBound(s, turn[d]) /\ RowIsStopped(s, turn[d])
        /\ CallIsBound(x, s, turn[d], <<c, boot>>)
        /\ x.pc # "interrupting" /\ (x.pc = "resuming" => s.turn = {})
    BY <1>6, <1>10, <2>1, EntryBound
  <2>3. disp' = [disp EXCEPT ![d] = s] /\ exec' = [exec EXCEPT ![d][c] = x]
    BY <1>10 DEF Goes
  <2> HIDE DEF s, x
  <2>4. RowGoesOn(disp[d], s)
    BY <1>6, <2>2, GoesOnTwice
  <2> QED BY <1>1, <1>7, <2>2, <2>3, <2>4, CallQuiet
<1> QED BY <1>2, <1>8, <1>9, <1>10

-----------------------------------------------------------------------------
\* The start-up reconciliation.

LEMMA NothingSent ==
  ASSUME NEW d \in Dispatch, TurnsMove(d, {})
  PROVE  NothingResent
BY DEF NothingResent, TurnsMove, TurnsStay

LEMMA ReconKeeps ==
  ASSUME TypeOK, TypeOK', BInv, NEW d \in Dispatch, NEW s, NEW x, recon[d].pc # "idle",
         disp' = [disp EXCEPT ![d] = s], recon' = [recon EXCEPT ![d] = x], UNCHANGED <<exec, boot>>,
         TurnsMove(d, {}), RowGoesOn(disp[d], s), RowIsBound(s, turn'[d]), ReconIsBound(x, s, turn'[d]),
         Unshared(d) => RowIsStopped(s, turn'[d])
  PROVE  BInv' /\ NothingResent
<1>1. /\ disp \in [Dispatch -> Row] /\ exec \in ExecType /\ boot \in 1..MaxBoots /\ recon \in ReconType
  BY TypeParts
<1>2. /\ disp'[d] = s /\ recon'[d] = x
      /\ \A e \in Dispatch \ {d} : disp'[e] = disp[e] /\ recon'[e] = recon[e] /\ turn'[e] = turn[e] /\ exec'[e] = exec[e]
  BY <1>1 DEF ReconType, TurnsMove
<1>3. \A e \in Dispatch \ {d} : DispatchIsBound(e)' /\ (Unshared(e)' => CallIsAlone(e)')
  BY <1>2, UntouchedStays DEF BInv
<1>4. DispatchIsBound(d) /\ (Unshared(d) => CallIsAlone(d)) /\ \A c \in Caller : exec[d][c].pc = "idle"
  BY DEF BInv, DispatchIsBound
<1>5. \A i \in TurnId : turn[d][i].st = "none" => turn'[d][i].st = "none"
  BY DEF TurnsMove, TurnsStay
<1>6. ASSUME NEW c \in Caller PROVE CallIsBound(exec[d][c], s, turn'[d], <<c, boot>>)
  <2>1. turn'[d][<<c, boot>>].st = "none"
    BY <1>1, <1>4, <1>5, OwnTurn DEF DispatchIsBound, CallIsBound
  <2> QED BY <1>4, <2>1 DEF CallIsBound, Holding
<1>7. ASSUME NEW c \in Caller, NEW b \in 1..MaxBoots, b > boot PROVE turn'[d][<<c, b>>].st = "none"
  <2>1. <<c, b>> \in TurnId
    BY DEF TurnId
  <2> QED BY <1>4, <1>5, <1>7, <2>1 DEF DispatchIsBound
<1>8. DispatchIsBound(d)'
  BY <1>2, <1>4, <1>6, <1>7 DEF DispatchIsBound
<1>9. Unshared(d) => CallIsAlone(d)'
  BY <1>2, <1>4 DEF CallIsAlone
<1> QED BY <1>3, <1>8, <1>9, NothingSent DEF BInv, Unshared

\* The usual case: the reconciliation of the dispatch is over.
LEMMA ReconEnds ==
  ASSUME TypeOK, TypeOK', BInv, NEW d \in Dispatch, NEW s, recon[d].pc # "idle", ReconGoes(d, "idle", s),
         UNCHANGED <<exec, boot>>, TurnsMove(d, {}),
         RowGoesOn(disp[d], s), RowIsBound(s, turn[d]), Unshared(d) => RowIsStopped(s, turn[d])
  PROVE  BInv' /\ NothingResent
<1>1. recon' = [recon EXCEPT ![d] = Idle] /\ disp' = [disp EXCEPT ![d] = s] /\ Idle.pc = "idle"
  BY DEF ReconGoes, Idle, At
<1>2. s \in Row
  BY <1>1, TypeParts
<1>3. RowIsBound(s, turn'[d]) /\ (Unshared(d) => RowIsStopped(s, turn'[d]))
  BY <1>2, RowStays DEF TurnsMove
<1>4. ReconIsBound(Idle, s, turn'[d])
  BY <1>1 DEF ReconIsBound
<1> QED BY <1>1, <1>3, <1>4, ReconKeeps

\* What a reconciliation that is under way knows.
LEMMA RunningRecon ==
  ASSUME TypeOK, BInv, NEW d \in Dispatch
  PROVE  /\ disp[d] \in Row /\ recon[d] \in [pc : ReconPc, row : Row] /\ recon[d].row \in Row
         /\ RowIsBound(disp[d], turn[d]) /\ ReconIsBound(recon[d], disp[d], turn[d])
         /\ Unshared(d) => RowIsStopped(disp[d], turn[d])
BY TypeParts DEF BInv, DispatchIsBound, CallIsAlone, ReconType

LEMMA BoundReconCaught ==
  ASSUME TypeOK, TypeOK', BInv, NEW d \in Dispatch, recon[d].pc # "idle", ReconCaught(d),
         UNCHANGED <<exec, boot>>, TurnsMove(d, {})
  PROVE  BInv' /\ NothingResent
<1> DEFINE s == IF Active(disp[d]) THEN Status(disp[d], "recovery_attention") ELSE disp[d]
<1>1. ReconGoes(d, "idle", s)
  BY DEF ReconCaught
<1>2. /\ disp[d] \in Row /\ RowIsBound(disp[d], turn[d])
      /\ Unshared(d) => RowIsStopped(disp[d], turn[d])
  BY RunningRecon
<1>3. RowGoesOn(disp[d], s) /\ RowIsBound(s, turn[d]) /\ (Unshared(d) => RowIsStopped(s, turn[d]))
  BY <1>2, StatusBound, SameRow DEF RowIsStopped
<1> HIDE DEF s
<1> QED BY <1>1, <1>3, ReconEnds

LEMMA BoundReconStopped ==
  ASSUME TypeOK, TypeOK', BInv, NEW d \in Dispatch, ReconStopped(d)
  PROVE  BInv' /\ NothingResent
<1> DEFINE x == At("reading", disp[d])
<1>1. /\ recon[d].pc = "stopping" /\ recon' = [recon EXCEPT ![d] = x] /\ UNCHANGED <<exec, boot>>
      /\ disp' = [disp EXCEPT ![d] = disp[d]]
  BY TypeParts DEF ReconStopped
<1>2. /\ disp[d] \in Row /\ RowIsBound(disp[d], turn[d]) /\ CopyIsBound(recon[d].row, disp[d], turn[d])
      /\ recon[d].row.turn = disp[d].turn /\ disp[d].status = "cancelling"
      /\ Unshared(d) => RowIsStopped(disp[d], turn[d])
  BY <1>1, RunningRecon DEF ReconIsBound
<1>3. TurnsMove(d, {}) /\ \A i \in recon[d].row.turn : i \in TurnId => turn'[d][i].stop
  BY TypeParts, AskMoves DEF ReconStopped
<1>4. RowIsBound(disp[d], turn'[d]) /\ (Unshared(d) => RowIsStopped(disp[d], turn'[d]))
  BY <1>2, <1>3, RowStays DEF TurnsMove
<1>5. x.pc = "reading" /\ x.row = disp[d]
  BY DEF At
<1> HIDE DEF x
<1>6. CopyIsBound(x.row, disp[d], turn'[d])
  BY <1>2, <1>4, <1>5, FreshCopy DEF CopyIsBound
<1>7. \A i \in disp[d].turn : Stopped(turn'[d][i])
  BY <1>2, <1>3 DEF Stopped, Row
<1>8. ReconIsBound(x, disp[d], turn'[d])
  BY <1>2, <1>5, <1>6, <1>7 DEF ReconIsBound
<1> QED BY <1>1, <1>3, <1>4, <1>8, SameRow, ReconKeeps

LEMMA BoundReclaim ==
  ASSUME TypeOK, TypeOK', BInv, NEW d \in Dispatch, Reclaim(d)
  PROVE  BInv' /\ NothingResent
<1> DEFINE r == NewClaim(disp[d])
<1>1. recon[d].pc = "todo" /\ UNCHANGED <<turn, exec, boot>> /\ TurnsMove(d, {}) /\ turn'[d] = turn[d]
  BY StillTurns DEF Reclaim
<1>2. /\ disp[d] \in Row /\ RowIsBound(disp[d], turn[d])
      /\ Unshared(d) => RowIsStopped(disp[d], turn[d])
  BY RunningRecon
<1>3. /\ r \in Row /\ r.status = disp[d].status /\ r.turn = disp[d].turn /\ r.thread = disp[d].thread
  BY <1>2, TypeParts, NewClaimType
<1>4. \/ ReconGoes(d, "idle", disp[d])
      \/ disp[d].status = "recovery_attention" /\ disp[d].thread # {} /\ ReconGoes(d, "probing", disp[d])
      \/ \E status \in {"failed", "recovery_attention"} : ReconGoes(d, "idle", Status(r, status))
      \/ ReconGoes(d, "idle", r)
      \/ r.thread = {} /\ ReconGoes(d, "idle", Status(r, "cancelled"))
      \/ r.status = "cancelling" /\ r.thread # {} /\ ReconGoes(d, "stopping", r)
      \/ r.status = "cancelling" /\ r.thread # {} /\ r.turn = {} /\ ReconGoes(d, "reading", r)
      \/ r.status \in {"turn_submitting", "turn_running"} /\ ReconGoes(d, "reading", r)
  BY DEF Reclaim
<1> HIDE DEF r
<1>5. RowGoesOn(disp[d], r) /\ RowIsBound(r, turn[d]) /\ (Unshared(d) => RowIsStopped(r, turn[d]))
  BY <1>2, <1>3 DEF RowGoesOn, RowIsBound, RowIsStopped
<1>6. ASSUME NEW s \in {disp[d], r}, NEW pc \in {"probing", "stopping", "reading"}, ReconGoes(d, pc, s),
             s.status \notin Unsubmitted, s.thread # {},
             pc = "probing" => s.status = "recovery_attention", pc = "stopping" => s.status = "cancelling",
             pc = "reading" => \/ s.status \in {"turn_submitting", "turn_running"}
                               \/ s.status = "cancelling" /\ s.turn = {}
      PROVE  BInv' /\ NothingResent
  <2>1. recon' = [recon EXCEPT ![d] = At(pc, s)] /\ disp' = [disp EXCEPT ![d] = s]
    BY <1>6 DEF ReconGoes
  <2>2. At(pc, s).pc = pc /\ At(pc, s).row = s
    BY DEF At
  <2>3. s \in Row /\ RowGoesOn(disp[d], s) /\ RowIsBound(s, turn[d]) /\ (Unshared(d) => RowIsStopped(s, turn[d]))
    BY <1>2, <1>3, <1>5, SameRow
  <2>4. CopyIsBound(s, s, turn[d])
    BY <1>6, <2>3, FreshCopy
  <2>5. ReconIsBound(At(pc, s), s, turn[d])
    BY <1>6, <2>2, <2>4 DEF ReconIsBound
  <2> QED BY <1>1, <2>1, <2>3, <2>5, ReconKeeps
<1>7. CASE ReconGoes(d, "idle", disp[d])
  BY <1>1, <1>2, <1>7, SameRow, ReconEnds
<1>8. CASE disp[d].status = "recovery_attention" /\ disp[d].thread # {} /\ ReconGoes(d, "probing", disp[d])
  BY <1>6, <1>8 DEF Unsubmitted, PreSubmission
<1>9. CASE ReconGoes(d, "idle", r)
  BY <1>1, <1>5, <1>9, ReconEnds
<1>10. ASSUME NEW status \in {"failed", "recovery_attention", "cancelled"}, ReconGoes(d, "idle", Status(r, status)),
              status = "cancelled" => r.thread = {}
       PROVE  BInv' /\ NothingResent
  <2>1. /\ RowGoesOn(r, Status(r, status)) /\ RowIsBound(Status(r, status), turn[d])
        /\ Status(r, status).turn = r.turn /\ Status(r, status).status = status
    BY <1>3, <1>5, StatusBound
  <2>2. r.thread = {} => r.turn = {}
    BY <1>5 DEF RowIsBound
  <2>3. RowIsStopped(Status(r, status), turn[d])
    BY <1>10, <2>1, <2>2 DEF RowIsStopped
  <2> QED BY <1>1, <1>5, <1>10, <2>1, <2>3, GoesOnTwice, ReconEnds
<1>11. CASE r.status = "cancelling" /\ r.thread # {} /\ ReconGoes(d, "stopping", r)
  BY <1>6, <1>11 DEF Unsubmitted, PreSubmission
<1>12. CASE r.status = "cancelling" /\ r.thread # {} /\ r.turn = {} /\ ReconGoes(d, "reading", r)
  BY <1>6, <1>12 DEF Unsubmitted, PreSubmission
<1>13. CASE r.status \in {"turn_submitting", "turn_running"} /\ ReconGoes(d, "reading", r)
  <2>1. r.thread # {}
    BY <1>5, <1>13 DEF RowIsBound
  <2> QED BY <1>6, <1>13, <2>1 DEF Unsubmitted, PreSubmission
<1> QED BY <1>4, <1>7, <1>8, <1>9, <1>10, <1>11, <1>12, <1>13

LEMMA BoundReconRead ==
  ASSUME TypeOK, TypeOK', BInv, NEW d \in Dispatch, ReconRead(d)
  PROVE  BInv' /\ NothingResent
<1> DEFINE k == recon[d].row
<1>1. recon[d].pc = "reading" /\ UNCHANGED <<turn, exec, boot>> /\ TurnsMove(d, {}) /\ turn'[d] = turn[d]
  BY StillTurns DEF ReconRead
<1>2. /\ disp[d] \in Row /\ k \in Row /\ RowIsBound(disp[d], turn[d]) /\ CopyIsBound(k, disp[d], turn[d])
      /\ k.status \in {"turn_submitting", "turn_running", "cancelling"}
      /\ k.status = "cancelling" => k.turn = disp[d].turn /\ \A i \in disp[d].turn : Stopped(turn[d][i])
      /\ Unshared(d) => RowIsStopped(disp[d], turn[d])
  BY <1>1, RunningRecon DEF ReconIsBound
<1>3. PICK found \in Observations(d, k) : \E o :
        /\ o = Reconciled(d, k, k.owner, found)
        /\ \/ ReconGoes(d, "idle", o.row)
           \/ k.status = "cancelling" /\ ReconGoes(d, "idle", Status(o.row, "cancelled"))
           \/ o.out = "expiring" /\ recon' = [recon EXCEPT ![d] = At("expiring", [k EXCEPT !.turn = found])]
              /\ UNCHANGED disp
           \/ ReconCaught(d)
  BY DEF ReconRead
<1>4. PICK o :
        /\ o = Reconciled(d, k, k.owner, found)
        /\ \/ ReconGoes(d, "idle", o.row)
           \/ k.status = "cancelling" /\ ReconGoes(d, "idle", Status(o.row, "cancelled"))
           \/ o.out = "expiring" /\ recon' = [recon EXCEPT ![d] = At("expiring", [k EXCEPT !.turn = found])]
              /\ UNCHANGED disp
           \/ ReconCaught(d)
  BY <1>3
<1>5. o.out = "expiring" => found # {}
  BY <1>4 DEF Reconciled
<1> HIDE DEF k
<1>6. /\ RowGoesOn(disp[d], o.row) /\ RowIsBound(o.row, turn[d]) /\ o.row \in Row
      /\ RowIsStopped(disp[d], turn[d]) => RowIsStopped(o.row, turn[d])
      /\ o.row.turn = disp[d].turn \/ o.row.turn = found
  BY <1>2, <1>3, <1>4, ReadBound, ObservationsType, ReconciledType
<1>7. \/ found = {}
      \/ \E i \in TurnId : /\ found = {i} /\ turn[d][i].st \in Accepted /\ turn[d][i].thread = k.thread
                           /\ k.status = "cancelling" => i \in k.turn
  BY <1>2, <1>3, ObservedTurn
<1>8. CASE ReconGoes(d, "idle", o.row)
  BY <1>1, <1>2, <1>6, <1>8, ReconEnds
<1>9. CASE k.status = "cancelling" /\ ReconGoes(d, "idle", Status(o.row, "cancelled"))
  <2> DEFINE s == Status(o.row, "cancelled")
  <2>1. RowGoesOn(o.row, s) /\ RowIsBound(s, turn[d]) /\ s.turn = o.row.turn
    BY <1>6, StatusBound
  <2>2. \A i \in o.row.turn : Stopped(turn[d][i])
    BY <1>2, <1>6, <1>7, <1>9
  <2> HIDE DEF s
  <2>3. RowGoesOn(disp[d], s) /\ RowIsStopped(s, turn[d])
    BY <1>6, <2>1, <2>2, GoesOnTwice DEF RowIsStopped
  <2> QED BY <1>1, <1>9, <2>1, <2>3, ReconEnds DEF s
<1>10. CASE o.out = "expiring" /\ recon' = [recon EXCEPT ![d] = At("expiring", [k EXCEPT !.turn = found])] /\ UNCHANGED disp
  <2> DEFINE y == [k EXCEPT !.turn = found]
             x == At("expiring", y)
  <2>1. x.pc = "expiring" /\ x.row = y /\ y.turn = found /\ y.thread = k.thread /\ y.status = k.status
    BY <1>2 DEF At, Row
  <2>2. recon' = [recon EXCEPT ![d] = x] /\ disp' = [disp EXCEPT ![d] = disp[d]]
    BY <1>10, TypeParts
  <2> HIDE DEF x, y
  <2>3. CopyIsBound(y, disp[d], turn[d])
    BY <1>2, <1>7, <2>1 DEF CopyIsBound
  <2>4. ReconIsBound(x, disp[d], turn[d])
    BY <1>5, <1>10, <2>1, <2>3 DEF ReconIsBound
  <2> QED BY <1>1, <1>2, <2>2, <2>4, SameRow, ReconKeeps
<1>11. CASE ReconCaught(d)
  BY <1>1, <1>11, BoundReconCaught
<1> QED BY <1>4, <1>8, <1>9, <1>10, <1>11

LEMMA BoundReconReadFails ==
  ASSUME TypeOK, TypeOK', BInv, NEW d \in Dispatch, ReconReadFails(d)
  PROVE  BInv' /\ NothingResent
<1>1. recon[d].pc # "idle" /\ ReconCaught(d) /\ UNCHANGED <<exec, boot>> /\ TurnsMove(d, {})
  BY StillTurns DEF ReconReadFails
<1> QED BY <1>1, BoundReconCaught

LEMMA BoundReconExpired ==
  ASSUME TypeOK, TypeOK', BInv, NEW d \in Dispatch, ReconExpired(d)
  PROVE  BInv' /\ NothingResent
<1> DEFINE k == recon[d].row
           s == Expire(d, k)
<1>1. recon[d].pc = "expiring" /\ UNCHANGED <<exec, boot>> /\ TurnsMove(d, {})
  BY TypeParts, AskMoves DEF ReconExpired
<1>2. CASE ReconGoes(d, "idle", s)
  <2>1. /\ disp[d] \in Row /\ k \in Row /\ RowIsBound(disp[d], turn[d]) /\ CopyIsBound(k, disp[d], turn[d])
        /\ k.turn # {} /\ (Unshared(d) => RowIsStopped(disp[d], turn[d]))
    BY <1>1, RunningRecon DEF ReconIsBound
  <2> HIDE DEF k
  <2>2. /\ RowGoesOn(disp[d], s) /\ RowIsBound(s, turn[d])
        /\ RowIsStopped(disp[d], turn[d]) => RowIsStopped(s, turn[d])
    BY <2>1, ExpireBound
  <2> HIDE DEF s
  <2> QED BY <1>1, <1>2, <2>1, <2>2, ReconEnds
<1>3. CASE ReconCaught(d)
  BY <1>1, <1>3, BoundReconCaught
<1> QED BY <1>2, <1>3 DEF ReconExpired

LEMMA BoundReconProbe ==
  ASSUME TypeOK, TypeOK', BInv, NEW d \in Dispatch, ReconProbe(d)
  PROVE  BInv' /\ NothingResent
<1> DEFINE k == recon[d].row
<1>1. recon[d].pc = "probing" /\ UNCHANGED <<exec, boot>> /\ TurnsMove(d, {})
  BY StillTurns DEF ReconProbe
<1>2. PICK o \in Outcomes(d, k, k.owner) : ReconGoes(d, "idle", o.row)
  BY DEF ReconProbe
<1>3. /\ disp[d] \in Row /\ k \in Row /\ RowIsBound(disp[d], turn[d]) /\ CopyIsBound(k, disp[d], turn[d])
      /\ k.status = "recovery_attention" /\ (Unshared(d) => RowIsStopped(disp[d], turn[d]))
  BY <1>1, RunningRecon DEF ReconIsBound
<1> HIDE DEF k
<1>4. /\ RowGoesOn(disp[d], o.row) /\ RowIsBound(o.row, turn[d])
      /\ RowIsStopped(disp[d], turn[d]) => RowIsStopped(o.row, turn[d])
  BY <1>2, <1>3, OutcomeBound
<1> QED BY <1>1, <1>2, <1>3, <1>4, ReconEnds

-----------------------------------------------------------------------------
\* Cancellation, the environment and the theorems.

\* What neither a call nor the reconciliation does: it leaves every turn known, and
\* rows only begin to be cancelled.
LEMMA OthersKeep ==
  ASSUME TypeOK, TypeOK', BInv, UNCHANGED <<exec, recon, boot>>,
         \A d \in Dispatch :
           /\ disp'[d] \in {disp[d]} \/ (Active(disp[d]) /\ disp'[d].status = "cancelling"
                                         /\ disp'[d].turn = disp[d].turn /\ disp'[d].thread = disp[d].thread)
           /\ TurnsGoOn(turn[d], turn'[d]) /\ TurnsStay(turn[d], turn'[d], {})
  PROVE  BInv' /\ NothingResent
<1>1. ASSUME NEW d \in Dispatch PROVE DispatchIsBound(d)' /\ (Unshared(d)' => CallIsAlone(d)')
  <2>1. /\ disp[d] \in Row /\ disp'[d] \in Row /\ boot \in 1..MaxBoots
        /\ recon[d] \in [pc : ReconPc, row : Row] /\ \A c \in Caller : exec[d][c] \in [pc : ExecPc, row : Row]
    BY TypeParts DEF ReconType, ExecType
  <2>2. DispatchIsBound(d) /\ (Unshared(d) => CallIsAlone(d))
    BY DEF BInv
  <2>3. RowIsBound(disp[d], turn[d])
    BY <2>2 DEF DispatchIsBound
  <2>4. /\ RowGoesOn(disp[d], disp'[d]) /\ RowIsBound(disp'[d], turn[d]) /\ disp'[d].turn = disp[d].turn
        /\ disp[d].status = "cancelling" => disp'[d].status = "cancelling"
        /\ RowIsStopped(disp[d], turn[d]) => RowIsStopped(disp'[d], turn[d])
    <3>1. CASE disp'[d] = disp[d]
      BY <2>3, <3>1, SameRow
    <3>2. CASE /\ disp'[d].status = "cancelling" /\ disp'[d].turn = disp[d].turn
               /\ disp'[d].thread = disp[d].thread
      BY <2>3, <3>2 DEF RowGoesOn, RowIsBound, RowIsStopped, Unsubmitted, PreSubmission
    <3> QED BY <3>1, <3>2
  <2>5. TurnsGoOn(turn[d], turn'[d]) /\ TurnsStay(turn[d], turn'[d], {})
    OBVIOUS
  <2>6. RowIsBound(disp'[d], turn'[d]) /\ (RowIsStopped(disp[d], turn[d]) => RowIsStopped(disp'[d], turn'[d]))
    BY <2>1, <2>4, <2>5, RowStays
  <2>7. ReconIsBound(recon[d], disp'[d], turn'[d])
    BY <2>1, <2>2, <2>3, <2>4, <2>5, ReconStays DEF DispatchIsBound
  <2>8. ASSUME NEW c \in Caller PROVE CallIsBound(exec[d][c], disp'[d], turn'[d], <<c, boot>>)
    <3>1. <<c, boot>> \in TurnId
      BY <2>1, OwnTurn
    <3>2. /\ turn'[d][<<c, boot>>].thread = turn[d][<<c, boot>>].thread
          /\ turn[d][<<c, boot>>].st = "none" => turn'[d][<<c, boot>>].st = "none"
      BY ONLY <2>5, <3>1 DEF TurnsStay
    <3>3. CallIsBound(exec[d][c], disp[d], turn[d], <<c, boot>>) /\ exec[d][c] \in [pc : ExecPc, row : Row]
      BY <2>1, <2>2 DEF DispatchIsBound
    <3>4. RowGoesOn(disp[d], disp'[d]) /\ TurnsGoOn(turn[d], turn'[d])
      BY <2>4, <2>5
    <3> QED BY ONLY <3>2, <3>3, <3>4, CallStays
  <2>9. \A c \in Caller, b \in 1..MaxBoots : <<c, b>> \in TurnId
    BY DEF TurnId
  <2>10. DispatchIsBound(d)'
    <3>1. recon' = recon /\ exec' = exec /\ boot' = boot
      OBVIOUS
    <3>2. \A c \in Caller, b \in 1..MaxBoots : b > boot => turn'[d][<<c, b>>].st = "none"
      BY ONLY <2>2, <2>5, <2>9 DEF DispatchIsBound, TurnsStay
    <3>3. recon[d].pc # "idle" => \A c \in Caller : exec[d][c].pc = "idle"
      BY <2>2 DEF DispatchIsBound
    <3> QED BY ONLY <2>6, <2>7, <2>8, <3>1, <3>2, <3>3 DEF DispatchIsBound
  <2> QED BY <2>2, <2>4, <2>6, <2>10 DEF CallIsAlone, Unshared
<1>2. NothingResent
  BY DEF NothingResent, TurnsStay
<1> QED BY <1>1, <1>2 DEF BInv

LEMMA BoundStill ==
  ASSUME TypeOK, TypeOK', BInv, UNCHANGED <<disp, turn, exec, recon, boot>>
  PROVE  BInv' /\ NothingResent
BY SameTurns, OthersKeep

LEMMA BoundCancelling ==
  ASSUME TypeOK, TypeOK', BInv, NEW p, disp' = Cancelling(p), UNCHANGED <<turn, exec, recon, boot>>
  PROVE  BInv' /\ NothingResent
<1>1. ASSUME NEW d \in Dispatch
      PROVE  \/ disp'[d] = disp[d]
             \/ /\ Active(disp[d]) /\ disp'[d].status = "cancelling"
                /\ disp'[d].turn = disp[d].turn /\ disp'[d].thread = disp[d].thread
  <2>1. disp[d] \in Row
    BY TypeParts
  <2> QED BY <2>1 DEF Cancelling, Row
<1> QED BY <1>1, SameTurns, OthersKeep

LEMMA BoundTurns ==
  ASSUME TypeOK, TypeOK', BInv, UNCHANGED <<disp, exec, recon, boot>>, NEW d \in Dispatch, TurnsMove(d, {})
  PROVE  BInv' /\ NothingResent
<1>1. \A e \in Dispatch : TurnsGoOn(turn[e], turn'[e]) /\ TurnsStay(turn[e], turn'[e], {})
  BY SameTurns DEF TurnsMove
<1> QED BY <1>1, OthersKeep

LEMMA BoundAppServer ==
  ASSUME TypeOK, TypeOK', BInv, NEW d \in Dispatch, NEW i \in TurnId,
         TurnAccepted(d, i) \/ TurnRefused(d, i) \/ TurnEnds(d, i)
  PROVE  BInv' /\ NothingResent
<1>1. PICK from \in {"sent", "active"}, to \in {"refused"} \cup Accepted :
        AppServer(d, i, from, to) /\ (from = "active" => to \in Ended)
  BY DEF TurnAccepted, TurnRefused, TurnEnds, Accepted, Ended
<1>2. /\ turn[d][i].st = from /\ UNCHANGED <<disp, exec, recon, boot>>
      /\ turn' = [turn EXCEPT ![d][i].st = to] /\ turn \in TurnType
  BY <1>1, TypeParts DEF AppServer
<1>3. /\ turn'[d][i].st = to /\ turn'[d][i].thread = turn[d][i].thread /\ turn'[d][i].stop = turn[d][i].stop
      /\ \A j \in TurnId \ {i} : turn'[d][j] = turn[d][j]
      /\ \A e \in Dispatch \ {d} : turn'[e] = turn[e]
  BY <1>2 DEF TurnType
<1>4. TurnsGoOn(turn[d], turn'[d])
  <2> SUFFICES ASSUME NEW j \in TurnId
               PROVE  /\ turn[d][j].st \in Accepted => turn'[d][j].st \in Accepted /\ turn'[d][j].thread = turn[d][j].thread
                      /\ turn[d][j].st \in Ended => turn'[d][j].st = turn[d][j].st
                      /\ turn[d][j].st \in Accepted /\ Stopped(turn[d][j]) => Stopped(turn'[d][j])
    BY DEF TurnsGoOn
  <2>1. CASE j = i
    BY <1>1, <1>2, <1>3, <2>1 DEF Accepted, Ended, Stopped
  <2>2. CASE j # i
    BY <1>3, <2>2
  <2> QED BY <2>1, <2>2
<1>5. TurnsStay(turn[d], turn'[d], {})
  BY <1>2, <1>3 DEF TurnsStay
<1> QED BY <1>2, <1>3, <1>4, <1>5, BoundTurns DEF TurnsMove

LEMMA BoundRestart ==
  ASSUME TypeOK, TypeOK', BInv, Restart
  PROVE  BInv' /\ NothingResent
<1>1. boot \in 1..MaxBoots /\ boot' = boot + 1 /\ boot' \in 1..MaxBoots /\ UNCHANGED <<disp, turn>>
  BY TypeParts DEF Restart
<1>2. \A d \in Dispatch, c \in Caller : exec'[d][c].pc = "idle"
  BY DEF Restart, Idle, At
<1>3. \A d \in Dispatch : recon'[d].pc \in {"idle", "todo"}
  BY DEF Restart, Idle, At
<1>4. ASSUME NEW d \in Dispatch PROVE DispatchIsBound(d)' /\ (Unshared(d)' => CallIsAlone(d)')
  <2>1. DispatchIsBound(d) /\ (Unshared(d) => CallIsAlone(d))
    BY DEF BInv
  <2>2. boot' > boot /\ (\A b : b \in 1..MaxBoots /\ b > boot' => b > boot)
    BY <1>1, DispatchAssumption
  <2>3. \A c \in Caller : CallIsBound(exec'[d][c], disp'[d], turn'[d], <<c, boot'>>)
    <3>1. \A c \in Caller : turn'[d][<<c, boot'>>].st = "none"
      BY <1>1, <2>1, <2>2 DEF DispatchIsBound
    <3> QED BY <1>2, <3>1 DEF CallIsBound, Holding
  <2>4. ReconIsBound(recon'[d], disp'[d], turn'[d])
    BY <1>3 DEF ReconIsBound
  <2>5. DispatchIsBound(d)'
    BY <1>1, <1>2, <2>1, <2>2, <2>3, <2>4 DEF DispatchIsBound
  <2>6. Unshared(d) => CallIsAlone(d)'
    BY <1>1, <1>2, <2>1 DEF CallIsAlone
  <2> QED BY <2>5, <2>6 DEF Unshared
<1>5. NothingResent
  BY <1>1 DEF NothingResent
<1> QED BY <1>4, <1>5 DEF BInv

\* One case per action.
LEMMA NextBound ==
  ASSUME TypeOK, BInv, [Next]_vars
  PROVE  BInv' /\ NothingResent
<1>1. TypeOK'
  BY NextStep
<1>2. CASE UNCHANGED vars
  BY <1>1, <1>2, BoundStill DEF vars
<1>3. ASSUME NEW d \in Dispatch, NEW c \in Caller, Begin(d, c) PROVE BInv' /\ NothingResent
  BY <1>1, <1>3, BoundBegin
<1>4. ASSUME NEW d \in Dispatch, NEW c \in Caller, ExecStep(d, c) PROVE BInv' /\ NothingResent
  BY <1>1, <1>4, BoundAcquired, BoundSubmit, BoundResumed, BoundResponse, BoundThrows,
     BoundCompleted, BoundInterrupted, BoundObserve, BoundObserveExpired
     DEF ExecStep
<1>5. ASSUME NEW d \in Dispatch, ReconStep(d) PROVE BInv' /\ NothingResent
  BY <1>1, <1>5, BoundReclaim, BoundReconStopped, BoundReconRead, BoundReconReadFails,
     BoundReconExpired, BoundReconProbe
     DEF ReconStep
<1>6. ASSUME NEW p \in Parent, CancelRun(p) \/ CancelTask(p) PROVE BInv' /\ NothingResent
  BY <1>1, <1>6, BoundCancelling DEF CancelRun, CancelTask
<1>7. ASSUME NEW p \in Parent, NEW d \in Dispatch, CancelInterrupts(p, d) PROVE BInv' /\ NothingResent
  <2>1. TurnsMove(d, {}) /\ UNCHANGED <<disp, exec, recon, boot>>
    BY <1>7, TypeParts, AskMoves DEF CancelInterrupts
  <2> QED BY <1>1, <2>1, BoundTurns
<1>8. ASSUME NEW p \in Parent, CancelEnds(p) \/ ParentEnds(p) PROVE BInv' /\ NothingResent
  BY <1>1, <1>8, BoundStill DEF CancelEnds, ParentEnds
<1>9. ASSUME NEW d \in Dispatch, NEW i \in TurnId, TurnAccepted(d, i) \/ TurnRefused(d, i) \/ TurnEnds(d, i)
      PROVE  BInv' /\ NothingResent
  BY <1>1, <1>9, BoundAppServer
<1>10. ASSUME NEW t \in Thread, SessionReleased(t) PROVE BInv' /\ NothingResent
  BY <1>1, <1>10, BoundStill DEF SessionReleased
<1>11. ASSUME NEW d \in Dispatch, DeadlinePasses(d) PROVE BInv' /\ NothingResent
  BY <1>1, <1>11, BoundStill DEF DeadlinePasses
<1>12. CASE Restart
  BY <1>1, <1>12, BoundRestart
<1> QED BY <1>2, <1>3, <1>4, <1>5, <1>6, <1>7, <1>8, <1>9, <1>10, <1>11, <1>12 DEF Next, CancelStep

LEMMA InitBound == Init => BInv
<1> SUFFICES ASSUME Init, NEW d \in Dispatch PROVE DispatchIsBound(d) /\ CallIsAlone(d)
  BY DEF BInv
<1>1. /\ disp[d] = Absent /\ Absent.status = "absent" /\ Absent.turn = {} /\ Absent.thread = {}
      /\ recon[d].pc = "idle" /\ (\A c \in Caller : exec[d][c].pc = "idle")
      /\ (\A i \in TurnId : turn[d][i].st = "none") /\ boot \in 1..MaxBoots
  BY DispatchAssumption DEF Init, Absent, Idle, At
<1>2. RowIsBound(disp[d], turn[d]) /\ RowIsStopped(disp[d], turn[d]) /\ ReconIsBound(recon[d], disp[d], turn[d])
  BY <1>1 DEF RowIsBound, RowIsStopped, ReconIsBound
<1>3. \A c \in Caller, b \in 1..MaxBoots : <<c, b>> \in TurnId
  BY DEF TurnId
<1> QED BY <1>1, <1>2, <1>3 DEF DispatchIsBound, CallIsAlone, CallIsBound, Holding

LEMMA BInvHolds == Spec => [](TypeOK /\ BInv)
<1>1. Init => TypeOK /\ BInv
  BY InitType, InitBound
<1>2. TypeOK /\ BInv /\ [Next]_vars => (TypeOK /\ BInv)'
  BY NextStep, NextBound
<1> QED BY <1>1, <1>2, PTL DEF Spec

\* A row says turn_running only with a turn the App Server accepted on the row's own
\* thread, whichever of the callers that share it, or the start-up reconciliation,
\* wrote it last.
THEOREM RunningBound == Spec => []RunningIsBound
<1>1. TypeOK /\ BInv => RunningIsBound
  BY DEF BInv, DispatchIsBound, RowIsBound, RunningIsBound
<1> QED BY <1>1, BInvHolds, PTL

\* The outcome a row records is that of the turn it names: no late response, no
\* recovery read and no other caller stores the end of one turn beside another.
THEOREM OutcomesObserved == Spec => []OutcomeIsObserved
<1>1. TypeOK /\ BInv => OutcomeIsObserved
  BY DEF BInv, DispatchIsBound, RowIsBound, OutcomeIsObserved
<1> QED BY <1>1, BInvHolds, PTL

\* Where every dispatch has one caller, a row is closed as cancelled only after its
\* turn was asked to stop or had ended; a third caller of the same dispatch could close
\* it while the call that knows the turn still waits for its interrupt.
THEOREM CancelledTurnsStopped ==
  ASSUME \A d \in Dispatch : Unshared(d)
  PROVE  Spec => []CancelledTurnWasStopped
<1>1. TypeOK /\ BInv => CancelledTurnWasStopped
  BY DEF BInv, CallIsAlone, RowIsStopped, Stopped, CancelledTurnWasStopped
<1> QED BY <1>1, BInvHolds, PTL

\* Where every dispatch has one caller, a dispatch whose turn is known is never sent
\* again, restarts included; a second caller may hold the row it read before.
THEOREM BoundTurnsNotResent ==
  ASSUME \A d \in Dispatch : Unshared(d)
  PROVE  Spec => BoundTurnIsNotResent
<1> DEFINE Prop == \A d \in Dispatch, i \in TurnId :
                     turn[d][i].st = "none" /\ turn'[d][i].st # "none" => disp[d].turn = {}
<1>1. TypeOK /\ BInv /\ [Next]_vars => Prop
  BY NextBound DEF NothingResent
<1>2. TypeOK /\ BInv /\ [Next]_vars => [Prop]_vars
  BY <1>1
<1> QED BY <1>2, BInvHolds, PTL DEF Spec, BoundTurnIsNotResent, Prop
=============================================================================
