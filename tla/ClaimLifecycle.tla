--------------------------- MODULE ClaimLifecycle ---------------------------
(***************************************************************************)
(* What the Task registry promises about claims, whatever its workers,     *)
(* cancellations, repairs and restarts do: a Task is owned by at most one  *)
(* claim, every claim has a token of its own, only an owned Task can       *)
(* complete, and a completed or skipped Task never changes again.          *)
(***************************************************************************)
EXTENDS Naturals

CONSTANT Task

VARIABLES
  phase,     \* waiting, owned, completed, skipped or failed
  holder,    \* the token of the claim that owns the Task, 0 for none
  last       \* the last token given out

cvars == <<phase, holder, last>>

Init ==
  /\ phase = [t \in Task |-> "waiting"]
  /\ holder = [t \in Task |-> 0]
  /\ last = 0

Becomes(t, next) == phase'[t] = next /\ holder'[t] = 0

Stays(t) == phase'[t] = phase[t] /\ holder'[t] = holder[t]

Granted(t) ==
  phase[t] = "waiting" /\ phase'[t] = "owned" /\ last' = last + 1 /\ holder'[t] = last'

\* A claim ends with an outcome, or gives the Task back to wait for the next one.
Settled(t) ==
  phase[t] = "owned" /\ \E next \in {"waiting", "completed", "failed"} : Becomes(t, next)

\* Cancelled, refused, failed or skipped with its dependencies while it waits.
Dropped(t) ==
  phase[t] = "waiting" /\ \E next \in {"skipped", "failed"} : Becomes(t, next)

\* Repaired; its dependencies may settle it at once.
Reopened(t) ==
  phase[t] = "failed" /\ \E next \in {"waiting", "skipped"} : Becomes(t, next)

Move(t) == Stays(t) \/ Granted(t) \/ Settled(t) \/ Dropped(t) \/ Reopened(t)

\* One step may touch several Tasks (a cascade, a cancelled Run, a restart) but
\* grants at most one claim.
Next ==
  /\ last' \in {last, last + 1}
  /\ \A t \in Task : Move(t)
  /\ \A t, u \in Task : Granted(t) /\ Granted(u) => t = u

Spec == Init /\ [][Next]_cvars
=============================================================================
