---------------------------- MODULE TurnDispatch ----------------------------
(***************************************************************************)
(* A TurnDispatch row carries one prompt to one Codex turn.  Callers       *)
(* (planner, worker, validator, synthesizer) execute it, the App Server    *)
(* answers or does not, a Run or Task may be cancelled at any await, and   *)
(* the daemon may die and reconcile what it left behind when it starts     *)
(* again.  Every registry call is one SQLite statement run synchronously,  *)
(* so the atomic steps are the stretches of code between two awaits.       *)
(***************************************************************************)
EXTENDS Naturals, FiniteSets, DomainStates

CONSTANTS
  Dispatch,           \* dispatch rows: one subject, purpose and revision each
  Caller,             \* in-process callers of execute()
  CallersOf,          \* the callers that can reach a dispatch
  Thread,             \* Codex threads
  ThreadsOf,          \* the threads a dispatch may acquire (agent leases keep them apart)
  Parent,             \* what a dispatch works for: a Run or Plan, or a Task with its Run
  ParentOf,
  TaskDispatch,       \* dispatches with a parentTaskId
  WorkerDispatch,     \* those of them with purpose "execution"
  ClosingDispatch,    \* dispatches with allowTerminalParent
  MaxRows,            \* bound: dispatches created in one behaviour
  MaxBoots            \* bound: daemon processes in one behaviour

ASSUME DispatchAssumption ==
  /\ MaxBoots \in Nat \ {0}
  /\ MaxRows \in Nat
  /\ CallersOf \in [Dispatch -> SUBSET Caller]
  /\ ThreadsOf \in [Dispatch -> SUBSET Thread]
  /\ ParentOf \in [Dispatch -> Parent]
  /\ WorkerDispatch \subseteq TaskDispatch
  /\ TaskDispatch \subseteq Dispatch
  /\ ClosingDispatch \subseteq Dispatch
  /\ \A d, e \in Dispatch : ParentOf[d] = ParentOf[e] => (d \in TaskDispatch <=> e \in TaskDispatch)

VARIABLES
  disp,      \* the turn_dispatches table
  late,      \* dispatches whose deadlineAt has passed
  turn,      \* the App Server: what became of every turn/start request
  exec,      \* running execute() calls: where they wait and the row they hold
  recon,     \* the start-up reconciliation of each dispatch
  canc,      \* RunController.cancel calls that wait for their interrupts
  parent,    \* "active" or "terminal"
  session,   \* threads with an App Server session of this daemon
  boot       \* which daemon process runs

vars == <<disp, late, turn, exec, recon, canc, parent, session, boot>>

\* A turn is named by the submission that asks for it: the caller and the boot.
TurnId == Caller \X (1..MaxBoots)

\* threadId and turnId are sets of at most one element, {} for null.
Row == [status : TurnDispatchStatuses \cup {"absent"}, gen : Nat, owner : Nat, holder : 0..MaxBoots,
        thread : SUBSET Thread, turn : SUBSET TurnId]

Absent == [status |-> "absent", gen |-> 0, owner |-> 0, holder |-> 0, thread |-> {}, turn |-> {}]

Ended == {"completed", "failed", "interrupted"}
Accepted == {"active"} \cup Ended
PreSubmission == {"prepared", "thread_acquiring", "thread_created"}

ExecPc == {"idle", "acquiring", "bound", "resuming", "waiting", "running",
           "observing", "expiring", "interrupting", "done"}
ReconPc == {"idle", "todo", "stopping", "reading", "expiring", "probing"}

At(pc, row) == [pc |-> pc, row |-> row]
Idle == At("idle", Absent)
Done == At("done", Absent)

TypeOK ==
  /\ disp \in [Dispatch -> Row]
  /\ late \in SUBSET Dispatch
  /\ turn \in [Dispatch -> [TurnId -> [st : {"none", "sent", "refused"} \cup Accepted,
                                       thread : SUBSET Thread, stop : BOOLEAN]]]
  /\ exec \in [Dispatch -> [Caller -> [pc : ExecPc, row : Row]]]
  /\ recon \in [Dispatch -> [pc : ReconPc, row : Row]]
  /\ canc \in [Parent -> [on : BOOLEAN, left : SUBSET Dispatch]]
  /\ parent \in [Parent -> {"active", "terminal"}]
  /\ session \in SUBSET Thread
  /\ boot \in 1..MaxBoots

Init ==
  /\ disp = [d \in Dispatch |-> Absent]
  /\ late = {}
  /\ turn = [d \in Dispatch |-> [i \in TurnId |-> [st |-> "none", thread |-> {}, stop |-> FALSE]]]
  /\ exec = [d \in Dispatch |-> [c \in Caller |-> Idle]]
  /\ recon = [d \in Dispatch |-> Idle]
  /\ canc = [p \in Parent |-> [on |-> FALSE, left |-> {}]]
  /\ parent \in [Parent -> {"active", "terminal"}]
  /\ session = {}
  /\ boot = 1

-----------------------------------------------------------------------------
\* Reading and writing rows

Active(row) == row.status \in ActiveTurnDispatchStatuses
Terminal(row) == row.status \in TerminalTurnDispatchStatuses
Status(row, status) == [row EXCEPT !.status = status]

\* #assertParent
LiveParent(d) == parent[ParentOf[d]] = "active" \/ d \in ClosingDispatch

\* The ownership and generation half of the fence, checked by every fenced write.
SameFence(d, row) == disp[d].owner = row.owner /\ disp[d].gen = row.gen

\* #fenced: the row this call started from is still the one it may advance.
Fenced(d, row) == ~ SameFence(d, row) \/ disp[d].status = "cancelling"

\* claimTurnDispatch: the same daemon keeps its token while the lease lives, and
\* the heartbeat of an execute() that waits for its turn keeps the lease alive.
\* Any other claim gets a token that was never used before.
Heartbeats(d) == \E c \in Caller :
  exec[d][c].pc \in {"resuming", "waiting", "running"} /\ exec[d][c].row.owner = disp[d].owner
NewClaim(row) == [row EXCEPT !.owner = @ + 1, !.holder = boot]
Claims(d, row) ==
  (IF row.holder = boot THEN {row} ELSE {}) \cup (IF Heartbeats(d) THEN {} ELSE {NewClaim(row)})

\* turn/start leaves the process; turn/interrupt has been asked for.
Start(d, i, thread) ==
  turn' = [turn EXCEPT ![d][i] = [st |-> "sent", thread |-> thread, stop |-> FALSE]]
AskStop(d, ids) ==
  turn' = [turn EXCEPT ![d] = [i \in TurnId |->
             IF i \in ids THEN [turn[d][i] EXCEPT !.stop = TRUE] ELSE turn[d][i]]]

-----------------------------------------------------------------------------
\* Errors.  execute() interrupts the turn a fenced or cancelled call knows of.  A
\* worker reaches execute() only with its thread: what is thrown before that, and
\* what execute() rethrows, meets failBeforeSubmission in #runTask's own catch.

Thrown(d, error) == IF d \in WorkerDispatch THEN "before" ELSE error

FailBeforeSubmission(row) ==
  IF Active(row) /\ row.status # "cancelling" THEN Status(row, "failed") ELSE row

NeverInterrupt(row, error) == FALSE      \* mutant: the fenced turn is left alone

MustInterrupt(row, error) ==
  /\ Active(row) /\ error # "before"
  /\ error = "fenced" \/ row.status = "cancelling"
  /\ row.turn # {}

MisspeltFence(d, row) ==      \* mutant: the Task's spelling of the status
  IF row.status = "cancelling" THEN Status(row, "canceled") ELSE row

AfterFence(d, row) ==
  IF row.status = "cancelling" THEN Status(row, "cancelled")
  ELSE IF d \in WorkerDispatch THEN FailBeforeSubmission(row)
  ELSE row

CaughtRow(d, row, error) ==
  IF Terminal(row) \/ MustInterrupt(row, error) THEN row
  ELSE IF error = "before" THEN FailBeforeSubmission(row)
  ELSE IF error = "fenced" \/ row.status = "cancelling" THEN AfterFence(d, row)
  ELSE IF error = "uncertain" THEN Status(row, "recovery_attention")
  ELSE Status(row, "failed")

Caught(d, c, row, error) ==
  /\ disp' = [disp EXCEPT ![d] = CaughtRow(d, row, error)]
  /\ exec' = [exec EXCEPT ![d][c] =
                IF MustInterrupt(row, error) THEN At("interrupting", row) ELSE Done]

\* The interrupt was answered or failed; both are ignored.
Interrupted(d, c) ==
  /\ exec[d][c].pc = "interrupting"
  /\ AskStop(d, exec[d][c].row.turn)
  /\ disp' = [disp EXCEPT ![d] = AfterFence(d, @)]
  /\ exec' = [exec EXCEPT ![d][c] = Done]
  /\ UNCHANGED <<late, recon, canc, parent, session, boot>>

\* The call goes on to wait at pc with the row it has just written.
Goes(d, c, pc, row) ==
  /\ disp' = [disp EXCEPT ![d] = row]
  /\ exec' = [exec EXCEPT ![d][c] = At(pc, row)]

-----------------------------------------------------------------------------
\* execute() and, for workers, beginThreadAcquisition and acquireThread

ResendingEntry(row) ==      \* mutant: a known turn is submitted again
  CASE row.status \in {"prepared", "thread_acquiring"} -> "acquiring"
    [] row.status = "thread_created" -> "bound"
    [] OTHER -> "resuming"

UnboundEntry(row) ==      \* mutant: a submitting row counts as running
  CASE row.status \in {"prepared", "thread_acquiring"} -> Status(row, "thread_acquiring")
    [] row.status = "thread_created" -> row
    [] OTHER -> Status(row, "turn_running")

\* Where the stored status lets execute() go on, and what it stores on the way.  A
\* row whose turn is known is only observed.
EntryPc(row) ==
  CASE row.status \in {"prepared", "thread_acquiring"} -> "acquiring"
    [] row.status = "thread_created" -> "bound"
    [] OTHER -> IF row.turn = {} THEN "resuming" ELSE "observing"

EntryRow(row) ==
  CASE row.status \in {"prepared", "thread_acquiring"} -> Status(row, "thread_acquiring")
    [] row.status = "thread_created" -> row
    [] OTHER -> IF row.turn = {} THEN row ELSE Status(row, "turn_running")

\* prepare, claim and the way to the first await.  A task's revision is executed by
\* the claim that creates it; any other subject finds its row again by its prompt,
\* after the start-up reconciliation.
Begin(d, c) ==
  /\ exec[d][c].pc = "idle" /\ c \in CallersOf[d]
  /\ recon[d].pc = "idle"
  /\ d \in TaskDispatch => disp[d].status = "absent"
  /\ disp[d].status = "absent" => Cardinality({e \in Dispatch : disp[e].status # "absent"}) < MaxRows
  /\ LET prepared == IF disp[d].status = "absent" THEN Status(Absent, "prepared") ELSE disp[d]
     IN  /\ Active(prepared)
         /\ \E row \in Claims(d, prepared) :
              \/ /\ ~ LiveParent(d) /\ d \in WorkerDispatch
                 /\ disp' = [disp EXCEPT ![d] = row] /\ exec' = [exec EXCEPT ![d][c] = Done]
              \/ /\ ~ LiveParent(d) /\ d \notin WorkerDispatch
                 /\ Caught(d, c, row, "fenced")
              \/ /\ LiveParent(d) /\ row.status = "cancelling"
                 /\ Caught(d, c, row, "error")
              \/ /\ LiveParent(d) /\ row.status # "cancelling"
                 /\ Goes(d, c, EntryPc(row), EntryRow(row))
  /\ UNCHANGED <<late, turn, recon, canc, parent, session, boot>>

\* A thread was spawned, forked or resumed.
Acquired(d, c) ==
  /\ exec[d][c].pc = "acquiring"
  /\ \E t \in ThreadsOf[d] :
       /\ session' = session \cup {t}
       /\ \/ /\ Fenced(d, exec[d][c].row) \/ ~ LiveParent(d)
             /\ Caught(d, c, disp[d], Thrown(d, "fenced"))
          \/ /\ ~ Fenced(d, exec[d][c].row) /\ LiveParent(d)
             /\ IF LegalDispatch(disp[d].status, "thread_created")
                THEN Goes(d, c, "bound", [disp[d] EXCEPT !.status = "thread_created", !.thread = {t}])
                ELSE Caught(d, c, disp[d], Thrown(d, "error"))
  /\ UNCHANGED <<late, turn, recon, canc, parent, boot>>

\* Persist the submission intent; the request follows at once when the thread has
\* a session, and after OwnedThreadControl.runTask has resumed it otherwise.
Submit(d, c) ==
  /\ exec[d][c].pc = "bound"
  /\ LET row == Status(disp[d], "turn_submitting")
     IN  \/ /\ ~ LiveParent(d)
            /\ Caught(d, c, disp[d], "fenced") /\ UNCHANGED turn
         \/ /\ LiveParent(d) /\ ~ LegalDispatch(disp[d].status, "turn_submitting")
            /\ Caught(d, c, disp[d], "error") /\ UNCHANGED turn
         \/ /\ LiveParent(d) /\ LegalDispatch(disp[d].status, "turn_submitting")
            /\ ~ SameFence(d, exec[d][c].row)
            /\ Caught(d, c, disp[d], "fenced") /\ UNCHANGED turn
         \/ /\ LiveParent(d) /\ LegalDispatch(disp[d].status, "turn_submitting")
            /\ SameFence(d, exec[d][c].row)
            /\ IF row.thread \subseteq session
               THEN Goes(d, c, "waiting", row) /\ Start(d, <<c, boot>>, row.thread)
               ELSE Goes(d, c, "resuming", row) /\ UNCHANGED turn
  /\ UNCHANGED <<late, recon, canc, parent, session, boot>>

\* The session is back: runTask sends turn/start without looking at the row again.
Resumed(d, c) ==
  /\ exec[d][c].pc = "resuming"
  /\ session' = session \cup exec[d][c].row.thread
  /\ Start(d, <<c, boot>>, exec[d][c].row.thread)
  /\ exec' = [exec EXCEPT ![d][c].pc = "waiting"]
  /\ UNCHANGED <<disp, late, recon, canc, parent, boot>>

\* onStarted, in the turn/start response.
Response(d, c) ==
  /\ exec[d][c].pc = "waiting"
  /\ turn[d][<<c, boot>>].st \in Accepted
  /\ \/ /\ Fenced(d, exec[d][c].row) \/ ~ LiveParent(d)
        /\ Caught(d, c, disp[d], "fenced")
     \/ /\ ~ Fenced(d, exec[d][c].row) /\ LiveParent(d)
        /\ IF LegalDispatch(disp[d].status, "turn_running")
           THEN Goes(d, c, "running", [disp[d] EXCEPT !.status = "turn_running", !.turn = {<<c, boot>>}])
           ELSE Caught(d, c, disp[d], "error")
  /\ UNCHANGED <<late, turn, recon, canc, parent, session, boot>>

\* turn/start was not answered in requestTimeoutMs.
StartTimesOut(d, c) ==
  /\ exec[d][c].pc = "waiting"
  /\ Caught(d, c, disp[d], "uncertain")
  /\ UNCHANGED <<late, turn, recon, canc, parent, session, boot>>

EndlessWait(d, c) ==      \* mutant: a running turn has no timeout of its own
  /\ exec[d][c].pc \in {"acquiring", "resuming", "waiting"}
  /\ Caught(d, c, disp[d], "error")
  /\ UNCHANGED <<late, turn, recon, canc, parent, session, boot>>

\* The awaited call throws: the acquisition or resume fails, turn/start is refused,
\* the App Server exits, an error notification arrives or the turn's own timeout ends.
Abandoned(d, c) ==
  /\ \/ /\ exec[d][c].pc \in {"resuming", "waiting", "running"}
        /\ Caught(d, c, disp[d], "error")
     \/ /\ exec[d][c].pc = "acquiring"
        /\ Caught(d, c, disp[d], Thrown(d, "error"))
     \/ /\ exec[d][c].pc = "bound" /\ d \in WorkerDispatch
        /\ Caught(d, c, disp[d], "before")
  /\ UNCHANGED <<late, turn, recon, canc, parent, session, boot>>

KeptTurn(row, i, end) == Status(row, end)      \* mutant: the stored turn is left as it is

\* The outcome is stored together with the turn it belongs to.
EndedRow(row, i, end) == [row EXCEPT !.status = end, !.turn = {i}]

\* The turn ended and runTask returned; its session was released.
Completed(d, c) ==
  LET end == turn[d][<<c, boot>>].st
  IN  /\ exec[d][c].pc = "running" /\ end \in Ended
      /\ session' = session \ exec[d][c].row.thread
      /\ \/ /\ Fenced(d, exec[d][c].row)
            /\ Caught(d, c, disp[d], "fenced")
         \/ /\ ~ Fenced(d, exec[d][c].row) /\ ~ LegalDispatch(disp[d].status, end)
            /\ Caught(d, c, disp[d], "error")
         \/ /\ ~ Fenced(d, exec[d][c].row) /\ LegalDispatch(disp[d].status, end)
            /\ disp' = [disp EXCEPT ![d] = EndedRow(@, <<c, boot>>, end)]
            /\ exec' = [exec EXCEPT ![d][c] = Done]
      /\ UNCHANGED <<late, turn, recon, canc, parent, boot>>

-----------------------------------------------------------------------------
\* reconcile(): read the thread and take over what it shows.

\* The turn the read shows: the recorded one, or, when none is recorded, one that
\* carries this dispatch's prompt.  A set of one turn, or {} when none is found.
Observations(d, row) ==
  LET seen == {i \in TurnId :
        /\ turn[d][i].st \in Accepted /\ turn[d][i].thread = row.thread
        /\ \/ i \in row.turn
           \/ row.turn = {} /\ row.status \in {"turn_submitting", "recovery_attention"}}
  IN  IF seen = {} THEN {{}} ELSE {{i} : i \in seen}

MissingIsInterrupted(d, found) ==      \* mutant: a turn that is not shown counts as interrupted
  IF found = {} THEN "interrupted" ELSE turn[d][CHOOSE i \in found : TRUE].st

ShownStatus(d, found) == IF found = {} THEN "none" ELSE turn[d][CHOOSE i \in found : TRUE].st

\* The row and how the call ends: "result", "pending" (no terminal turn), "throw"
\* or "fenced", or "expiring" when it first interrupts a turn past its deadline.
\* row is the copy read before the await, token the observer's ownership.
Reconciled(d, row, token, found) ==
  LET now == disp[d]
      shown == ShownStatus(d, found)
      bound == IF found = {} THEN now.turn ELSE found
      kept == IF row.status = "turn_submitting" /\ found # {} THEN "turn_running" ELSE row.status
      ends(status, how) == [out |-> how, row |-> [now EXCEPT !.status = status, !.turn = bound]]
      refused(how) == [out |-> how, row |-> now]
  IN  CASE shown \in Ended ->
             IF ~ LegalDispatch(now.status, shown)
                /\ ~ (row.status = "recovery_attention" /\ ObservedTerminal(now.status, shown))
               THEN refused("throw")
             ELSE IF now.owner # token \/ now.gen # row.gen THEN refused("fenced")
             ELSE ends(shown, "result")
        [] shown \notin Ended /\ d \in late /\ Active(row) ->
             IF found # {} THEN refused("expiring")
             ELSE IF ~ LegalDispatch(now.status, "recovery_attention") THEN refused("throw")
             ELSE IF now.owner # token THEN refused("pending")
             ELSE ends("recovery_attention", "pending")
        [] OTHER ->
             IF ~ LegalDispatch(now.status, kept) THEN refused("throw")
             ELSE IF now.owner # token THEN refused("pending")
             ELSE ends(kept, "pending")

\* What the read may lead to; the read itself may fail.
Outcomes(d, row, token) ==
  {Reconciled(d, row, token, found) : found \in Observations(d, row)}
    \cup {[out |-> "throw", row |-> disp[d]]}

\* An execute() that found its turn already submitted only observes it.
Observe(d, c) ==
  /\ exec[d][c].pc = "observing"
  /\ \E o \in Outcomes(d, exec[d][c].row, exec[d][c].row.owner) :
       \/ /\ o.out \in {"result", "pending"}
          /\ disp' = [disp EXCEPT ![d] = o.row]
          /\ exec' = [exec EXCEPT ![d][c] = Done]
       \/ /\ o.out = "expiring"
          /\ exec' = [exec EXCEPT ![d][c].pc = "expiring"] /\ UNCHANGED disp
       \/ o.out = "throw" /\ Caught(d, c, disp[d], "error")
       \/ o.out = "fenced" /\ Caught(d, c, disp[d], "fenced")
  /\ UNCHANGED <<late, turn, recon, canc, parent, session, boot>>

Expire(d, row) ==
  IF disp[d].owner = row.owner
  THEN [disp[d] EXCEPT !.status = "recovery_attention", !.turn = row.turn]
  ELSE disp[d]

\* The deadline interrupt was answered or failed.
ObserveExpired(d, c) ==
  /\ exec[d][c].pc = "expiring"
  /\ AskStop(d, exec[d][c].row.turn)
  /\ IF LegalDispatch(disp[d].status, "recovery_attention")
     THEN /\ disp' = [disp EXCEPT ![d] = Expire(d, exec[d][c].row)]
          /\ exec' = [exec EXCEPT ![d][c] = Done]
     ELSE Caught(d, c, disp[d], "error")
  /\ UNCHANGED <<late, recon, canc, parent, session, boot>>

-----------------------------------------------------------------------------
\* #reconcileTurnDispatches, once per daemon start: it takes every dispatch that was
\* active, one after the other, and probes those in recovery_attention.

\* The Task of a dispatch that needs attention is finished, or its Plan fails.
FailParent(d) ==
  parent' = IF d \in ClosingDispatch THEN parent ELSE [parent EXCEPT ![ParentOf[d]] = "terminal"]

ReconTurn(d) == \A e \in Dispatch \ {d} : recon[e].pc \in {"idle", "todo"}

ReconGoes(d, pc, row) ==
  /\ disp' = [disp EXCEPT ![d] = row]
  /\ recon' = [recon EXCEPT ![d] = IF pc = "idle" THEN Idle ELSE At(pc, row)]

\* Force the claim, then decide on the stored status up to the first await.
Reclaim(d) ==
  /\ recon[d].pc = "todo" /\ ReconTurn(d)
  /\ LET row == NewClaim(disp[d])
     IN  \/ /\ ~ Active(disp[d])
            /\ ReconGoes(d, IF disp[d].status = "recovery_attention" /\ disp[d].thread # {}
                            THEN "probing" ELSE "idle", disp[d])
            /\ UNCHANGED parent
         \/ /\ row.status \in PreSubmission /\ d \in late
            /\ ReconGoes(d, "idle", Status(row, "recovery_attention"))
            /\ FailParent(d)
         \/ /\ row.status \in PreSubmission /\ d \notin late
            /\ ReconGoes(d, "idle", IF d \in TaskDispatch THEN Status(row, "failed") ELSE row)
            /\ UNCHANGED parent
         \/ /\ row.status = "cancelling" /\ row.thread = {}
            /\ ReconGoes(d, "idle", Status(row, "cancelled"))
            /\ UNCHANGED parent
         \/ /\ row.status = "cancelling" /\ row.thread # {}
            /\ ReconGoes(d, IF row.turn # {} THEN "stopping" ELSE "reading", row)
            /\ UNCHANGED parent
         \/ /\ row.status \in {"turn_submitting", "turn_running"}
            /\ ReconGoes(d, "reading", row)
            /\ UNCHANGED parent
  /\ UNCHANGED <<late, turn, exec, canc, session, boot>>

\* The interrupt of a cancelled turn was answered or failed.
ReconStopped(d) ==
  /\ recon[d].pc = "stopping"
  /\ AskStop(d, recon[d].row.turn)
  /\ recon' = [recon EXCEPT ![d] = At("reading", disp[d])]
  /\ UNCHANGED <<disp, late, exec, canc, parent, session, boot>>

ReconIgnored(d) == ReconGoes(d, "idle", disp[d])      \* mutant: the catch only logs

\* The catch of the loop: what is still active needs attention.
ReconCaught(d) ==
  ReconGoes(d, "idle", IF Active(disp[d]) THEN Status(disp[d], "recovery_attention") ELSE disp[d])

ReconRead(d) ==
  /\ recon[d].pc = "reading"
  /\ \E found \in Observations(d, recon[d].row) :
       LET o == Reconciled(d, recon[d].row, recon[d].row.owner, found)
           settled == IF recon[d].row.status = "cancelling" /\ o.out = "pending"
                      THEN IF LegalDispatch(o.row.status, "cancelled") THEN Status(o.row, "cancelled")
                           ELSE o.row
                      ELSE o.row
       IN  \/ /\ o.out \in {"result", "pending"}
              /\ ReconGoes(d, "idle", settled)
              /\ IF settled.status = "recovery_attention" /\ recon[d].row.status # "cancelling"
                    /\ d \in TaskDispatch
                 THEN FailParent(d) ELSE UNCHANGED parent
           \/ /\ o.out = "expiring"
              /\ recon' = [recon EXCEPT ![d] = At("expiring", [@.row EXCEPT !.turn = found])]
              /\ UNCHANGED <<disp, parent>>
           \/ o.out \in {"throw", "fenced"} /\ ReconCaught(d) /\ UNCHANGED parent
  /\ UNCHANGED <<late, turn, exec, canc, session, boot>>

\* thread/read fails.
ReconReadFails(d) ==
  /\ recon[d].pc = "reading"
  /\ ReconCaught(d)
  /\ UNCHANGED <<late, turn, exec, canc, parent, session, boot>>

ReconExpired(d) ==
  /\ recon[d].pc = "expiring"
  /\ AskStop(d, recon[d].row.turn)
  /\ IF LegalDispatch(disp[d].status, "recovery_attention")
     THEN /\ ReconGoes(d, "idle", Expire(d, recon[d].row))
          /\ IF recon[d].row.status # "cancelling" /\ d \in TaskDispatch /\ disp[d].owner = recon[d].row.owner
             THEN FailParent(d) ELSE UNCHANGED parent
     ELSE ReconCaught(d) /\ UNCHANGED parent
  /\ UNCHANGED <<late, exec, canc, session, boot>>

\* The probe of an uncertain submission only records what it is shown.
ReconProbe(d) ==
  /\ recon[d].pc = "probing"
  /\ \E o \in Outcomes(d, recon[d].row, recon[d].row.owner) : ReconGoes(d, "idle", o.row)
  /\ UNCHANGED <<late, turn, exec, canc, parent, session, boot>>

-----------------------------------------------------------------------------
\* Cancellation

\* requestTurnDispatchCancellation for one parent.
Cancelling(p) ==
  [d \in Dispatch |-> IF ParentOf[d] = p /\ Active(disp[d])
                      THEN [disp[d] EXCEPT !.status = "cancelling", !.gen = @ + 1] ELSE disp[d]]

\* RunController.cancel up to its first await.
CancelRun(p) ==
  /\ parent[p] = "active" /\ ~ canc[p].on
  /\ disp' = Cancelling(p)
  /\ canc' = [canc EXCEPT ![p] = [on |-> TRUE,
                left |-> {d \in Dispatch : ParentOf[d] = p /\ Active(disp[d]) /\ disp[d].turn # {}}]]
  /\ UNCHANGED <<late, turn, exec, recon, parent, session, boot>>

\* One interrupt of the loop was answered or failed.
CancelInterrupts(p, d) ==
  /\ d \in canc[p].left
  /\ AskStop(d, disp[d].turn)
  /\ canc' = [canc EXCEPT ![p].left = @ \ {d}]
  /\ UNCHANGED <<disp, late, exec, recon, parent, session, boot>>

\* registry.cancelRun; it throws when the Run became terminal in between.
CancelEnds(p) ==
  /\ canc[p].on /\ canc[p].left = {}
  /\ parent' = [parent EXCEPT ![p] = "terminal"]
  /\ canc' = [canc EXCEPT ![p].on = FALSE]
  /\ UNCHANGED <<disp, late, turn, exec, recon, session, boot>>

\* registry.cancelTask: the rows and the Task in one step.
CancelTask(p) ==
  /\ parent[p] = "active"
  /\ \E d \in TaskDispatch : ParentOf[d] = p
  /\ disp' = Cancelling(p)
  /\ parent' = [parent EXCEPT ![p] = "terminal"]
  /\ UNCHANGED <<late, turn, exec, recon, canc, session, boot>>

-----------------------------------------------------------------------------
\* The environment: parents that end for reasons of their own, the App Server, time
\* and the death of the daemon.

ParentEnds(p) ==
  /\ parent[p] = "active"
  /\ parent' = [parent EXCEPT ![p] = "terminal"]
  /\ UNCHANGED <<disp, late, turn, exec, recon, canc, session, boot>>

\* The App Server accepts a request or never will, and ends an accepted turn.
AppServer(d, i, from, to) ==
  /\ turn[d][i].st = from
  /\ turn' = [turn EXCEPT ![d][i].st = to]
  /\ UNCHANGED <<disp, late, exec, recon, canc, parent, session, boot>>

TurnAccepted(d, i) == AppServer(d, i, "sent", "active")
TurnRefused(d, i) == AppServer(d, i, "sent", "refused")
TurnEnds(d, i) == \E end \in Ended : AppServer(d, i, "active", end)

\* inspectAgent releases the session of a thread whose last turn has ended, whoever
\* reads it, unless a turn streams on it.
SessionReleased(t) ==
  /\ t \in session
  /\ \A d \in Dispatch, c \in Caller :
       exec[d][c].pc \in {"waiting", "running"} => t \notin exec[d][c].row.thread
  /\ session' = session \ {t}
  /\ UNCHANGED <<disp, late, turn, exec, recon, canc, parent, boot>>

DeadlinePasses(d) ==
  /\ d \notin late /\ Active(disp[d])
  /\ late' = late \cup {d}
  /\ UNCHANGED <<disp, turn, exec, recon, canc, parent, session, boot>>

\* The daemon dies between any two steps; the next one finds only the registry.
Restart ==
  /\ boot < MaxBoots
  /\ boot' = boot + 1
  /\ exec' = [d \in Dispatch |-> [c \in Caller |-> Idle]]
  /\ recon' = [d \in Dispatch |-> IF Active(disp[d]) \/ disp[d].status = "recovery_attention"
                                  THEN At("todo", Absent) ELSE Idle]
  /\ canc' = [p \in Parent |-> [on |-> FALSE, left |-> {}]]
  /\ session' = {}
  /\ UNCHANGED <<disp, late, turn, parent>>

-----------------------------------------------------------------------------
ExecStep(d, c) ==
  \/ Acquired(d, c) \/ Submit(d, c) \/ Resumed(d, c) \/ Response(d, c) \/ StartTimesOut(d, c)
  \/ Abandoned(d, c) \/ Completed(d, c) \/ Interrupted(d, c) \/ Observe(d, c) \/ ObserveExpired(d, c)

ReconStep(d) ==
  \/ Reclaim(d) \/ ReconStopped(d) \/ ReconRead(d) \/ ReconReadFails(d) \/ ReconExpired(d) \/ ReconProbe(d)

CancelStep(p) == CancelEnds(p) \/ \E d \in Dispatch : CancelInterrupts(p, d)

Next ==
  \/ \E d \in Dispatch, c \in Caller : Begin(d, c) \/ ExecStep(d, c)
  \/ \E d \in Dispatch : ReconStep(d) \/ DeadlinePasses(d)
  \/ \E p \in Parent : CancelRun(p) \/ CancelStep(p) \/ CancelTask(p) \/ ParentEnds(p)
  \/ \E d \in Dispatch, i \in TurnId : TurnAccepted(d, i) \/ TurnRefused(d, i) \/ TurnEnds(d, i)
  \/ \E t \in Thread : SessionReleased(t)
  \/ Restart

Spec == Init /\ [][Next]_vars

\* Every awaited request is answered or times out (requestTimeoutMs, the turn's
\* timeout), the start-up loop and a cancellation run to their end, and deadlines
\* pass.  Calls, cancellations, restarts and the App Server owe nothing.
Fairness ==
  /\ \A d \in Dispatch, c \in Caller : WF_vars(ExecStep(d, c))
  /\ \A d \in Dispatch : WF_vars(ReconStep(d)) /\ WF_vars(DeadlinePasses(d))
  /\ \A p \in Parent : WF_vars(CancelStep(p))

FairSpec == Spec /\ Fairness

-----------------------------------------------------------------------------
(***************************************************************************)
(* Properties                                                              *)
(***************************************************************************)

\* A command that may have left the process is never stored as unsent: the start-up
\* reconciliation treats pre-submission rows as safe to continue or to fail as
\* retryable, so turn_submitting must be durable before turn/start (execute).
SubmissionIsRecorded ==
  \A d \in Dispatch : disp[d].status \in PreSubmission \cup {"absent"} =>
    \A i \in TurnId : turn[d][i].st = "none"

\* turn_running is stored only with a thread and a turn the App Server accepted, and
\* a stored turn always lies on the stored thread, whoever else acquired one for the
\* same row in the meantime (acquireThread, onStarted, reconcile).
RunningIsBound ==
  \A d \in Dispatch :
    /\ disp[d].status = "turn_running" => disp[d].turn # {}
    /\ \A i \in disp[d].turn : turn[d][i].st \in Accepted /\ turn[d][i].thread = disp[d].thread

\* A row that claims its turn completed, or was interrupted, names a turn that did:
\* no caller, late response or recovery read records another turn's outcome.
OutcomeIsObserved ==
  \A d \in Dispatch : disp[d].status \in {"completed", "interrupted"} =>
    /\ disp[d].turn # {}
    /\ \A i \in disp[d].turn : turn[d][i].st = disp[d].status

\* Once a cancellation has bumped the generation the row only waits for its end:
\* no thread, turn response or recovery read that arrives later revives it.
CancellationSticks ==
  \A d \in Dispatch : disp[d].gen > 0 => disp[d].status = "cancelling" \/ Terminal(disp[d])

\* A row is closed as cancelled only after its known turn was asked to stop, or had
\* ended: the catch of execute() and the start-up reconciliation both see to it.
CancelledTurnWasStopped ==
  \A d \in Dispatch : disp[d].status = "cancelled" =>
    \A i \in disp[d].turn : turn[d][i].stop \/ turn[d][i].st \in Ended

\* A terminal row is final.  The one exception is an uncertain submission whose
\* outcome a later read shows (transitionTurnDispatch with observedTerminal).
TerminalIsFinal ==
  [][\A d \in Dispatch : Terminal(disp[d]) =>
       disp'[d].status = disp[d].status \/ ObservedTerminal(disp[d].status, disp'[d].status)]_vars

\* A dispatch whose turn is known is never submitted again (turn_running leads
\* execute() to reconcile); it holds per caller, restarts included.
BoundTurnIsNotResent ==
  [][\A d \in Dispatch, i \in TurnId :
       turn[d][i].st = "none" /\ turn'[d][i].st # "none" => disp[d].turn = {}]_vars

\* A cancellation found at start-up ends: the reconciliation leaves no row of the
\* previous process cancelling, whatever the interrupt and the read answer.
RestartSettlesCancellation ==
  \A d \in Dispatch :
    recon[d].pc # "idle" /\ disp[d].status = "cancelling" ~> Terminal(disp[d])

\* A call that submitted its turn closes the row or is fenced from it: no answer the
\* App Server withholds keeps execute() waiting.
CallsReturn ==
  \A d \in Dispatch, c \in Caller :
    exec[d][c].pc \in {"acquiring", "resuming", "waiting", "running", "observing"}
      ~> exec[d][c].pc \in {"idle", "done"}

-----------------------------------------------------------------------------
(***************************************************************************)
(* What docs/contracts/TURN_DISPATCH.md says and the code does not keep;   *)
(* a run shows SubmittedOnce refuted.                                      *)
(***************************************************************************)

\* "cancelled: no Turn, or its stop confirmed": no cancelled row has a live turn.
CancelledMeansStopped ==
  \A d \in Dispatch : disp[d].status = "cancelled" =>
    \A i \in TurnId : turn[d][i].st # "active"

\* "call turn/start once": a dispatch never has two submissions.
SubmittedOnce ==
  \A d \in Dispatch : \A i, j \in TurnId :
    turn[d][i].st # "none" /\ turn[d][j].st # "none" => i = j

\* "cancellation converges in 60 seconds": cancelling does not last.
CancellationConverges ==
  \A d \in Dispatch : disp[d].status = "cancelling" ~> Terminal(disp[d])
=============================================================================
