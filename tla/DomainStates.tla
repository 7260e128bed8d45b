---------------------------- MODULE DomainStates ----------------------------
(***************************************************************************)
(* The status vocabularies and transition tables of src/domain-states.js.  *)
(* A table is the set of its legal (from, to) pairs; a status is always    *)
(* allowed to stay what it is.                                             *)
(***************************************************************************)

RunStatuses == {"draft", "accepted", "planning", "preparing", "agents_prepared",
                "awaiting_user_start", "running", "completed", "failed", "cancelled"}

TerminalRunStatuses == {"completed", "failed", "cancelled"}

TerminalGlobalRunStatuses == {"completed", "failed", "cancelled", "attention_required"}

GlobalRunStatuses == TerminalGlobalRunStatuses
  \cup {"accepted", "resolving_context", "planning", "preparing", "running", "waiting"}

SuccessfulTaskStatuses == {"completed", "completed_with_warnings", "skipped"}

FailedTaskStatuses == {"rejected", "validation_failed", "failed", "interrupted",
                       "blocked_by_policy", "integration_blocked", "recovery_attention"}

TerminalTaskStatuses == SuccessfulTaskStatuses \cup FailedTaskStatuses \cup {"canceled"}

RepairableTaskStatuses == FailedTaskStatuses \cup {"canceled"}

ActiveTaskStatuses == {"running", "approval_waiting", "agent_done", "validating",
                       "integration_pending", "upgrade_pending"}

WaitingTaskStatuses == {"staged", "blocked", "queued", "retry_waiting", "waiting_for_lease"}

TaskStatuses == TerminalTaskStatuses \cup ActiveTaskStatuses \cup WaitingTaskStatuses

TerminalTurnDispatchStatuses ==
  {"completed", "failed", "interrupted", "cancelled", "recovery_attention"}

ActiveTurnDispatchStatuses ==
  {"prepared", "thread_acquiring", "thread_created", "turn_submitting", "turn_running", "cancelling"}

TurnDispatchStatuses == ActiveTurnDispatchStatuses \cup TerminalTurnDispatchStatuses

-----------------------------------------------------------------------------
RunTransitions ==
       {"draft"} \X {"accepted", "planning", "preparing", "running", "failed", "cancelled"}
  \cup {"accepted"} \X {"planning", "failed", "cancelled"}
  \cup {"planning"} \X {"preparing", "failed", "cancelled"}
  \cup {"preparing"} \X {"agents_prepared", "awaiting_user_start", "running", "failed", "cancelled"}
  \cup {"agents_prepared"} \X {"running", "failed", "cancelled"}
  \cup {"awaiting_user_start"} \X {"preparing", "running", "failed", "cancelled"}
  \cup {"running"} \X TerminalRunStatuses

GlobalRunTransitions ==
       {"accepted"} \X {"resolving_context", "failed", "cancelled"}
  \cup {"resolving_context"} \X {"planning", "failed", "attention_required", "cancelled"}
  \cup {"planning"} \X {"preparing", "failed", "attention_required", "cancelled"}
  \cup {"preparing"} \X {"running", "failed", "attention_required", "cancelled"}
  \cup {"running"} \X {"waiting", "completed", "failed", "attention_required", "cancelled"}
  \cup {"waiting"} \X {"running", "failed", "attention_required", "cancelled"}

ExecutionTerminals == (TerminalTaskStatuses \ {"skipped"})

TaskTransitions ==
       {"staged"} \X {"blocked", "queued", "canceled", "failed", "blocked_by_policy"}
  \cup {"blocked"} \X {"queued", "skipped", "failed", "canceled", "blocked_by_policy", "recovery_attention"}
  \cup {"queued"} \X {"running", "failed", "canceled", "blocked_by_policy", "recovery_attention"}
  \cup {"waiting_for_lease", "retry_waiting"} \X {"running", "failed", "canceled", "recovery_attention"}
  \cup {"running"} \X ({"approval_waiting", "agent_done", "integration_pending", "retry_waiting",
                        "waiting_for_lease"} \cup ExecutionTerminals)
  \cup {"approval_waiting"} \X ({"running", "agent_done", "integration_pending", "retry_waiting"}
                                \cup ExecutionTerminals)
  \cup {"agent_done"} \X ({"validating", "retry_waiting"} \cup ExecutionTerminals)
  \cup {"validating"} \X ({"integration_pending", "retry_waiting"} \cup ExecutionTerminals)
  \cup {"integration_pending"} \X ExecutionTerminals
  \cup {"upgrade_pending"} \X {"queued", "running", "failed", "canceled", "recovery_attention"}
  \cup {<<"recovery_attention", "canceled">>}

TurnDispatchTransitions ==
       {"prepared"} \X {"thread_acquiring", "cancelling", "failed", "cancelled", "recovery_attention"}
  \cup {"thread_acquiring"} \X {"thread_created", "cancelling", "failed", "cancelled", "recovery_attention"}
  \cup {"thread_created"} \X {"turn_submitting", "cancelling", "failed", "cancelled", "recovery_attention"}
  \cup {"turn_submitting"} \X ({"turn_running", "cancelling"} \cup TerminalTurnDispatchStatuses)
  \cup {"turn_running"} \X {"completed", "failed", "interrupted", "cancelling", "recovery_attention"}
  \cup {"cancelling"} \X TerminalTurnDispatchStatuses

-----------------------------------------------------------------------------
\* transitionRun, transitionTask and transitionTurnDispatch accept the pair.
\* allowRepair reopens a terminal Run or sends a repairable Task back to blocked;
\* observedTerminal lets recovery_attention take the outcome a read has shown.

LegalRun(from, to) == from = to \/ <<from, to>> \in RunTransitions

LegalGlobalRun(from, to) == from = to \/ <<from, to>> \in GlobalRunTransitions

LegalTask(from, to) == from = to \/ <<from, to>> \in TaskTransitions

RepairsTask(from, to) == from \in RepairableTaskStatuses /\ to = "blocked"

AnyDispatch(from, to) == TRUE      \* mutant: the table is not consulted

LegalDispatch(from, to) == from = to \/ <<from, to>> \in TurnDispatchTransitions

ObservedTerminal(from, to) ==
  from = "recovery_attention" /\ to \in {"completed", "failed", "interrupted"}

\* deriveRunStatus over the statuses of a Run's Tasks; "none" is its null.
DeriveRunStatus(statuses) ==
  IF statuses = {} \/ ~ statuses \subseteq TerminalTaskStatuses THEN "none"
  ELSE IF statuses \cap FailedTaskStatuses # {} THEN "failed"
  ELSE IF "canceled" \in statuses THEN "cancelled"
  ELSE "completed"
=============================================================================
