--------------------------- MODULE MCTaskRegistry ---------------------------
\* Instances of TaskRegistry for TLC: one Task with everything a claim can meet, and a
\* graph in which a fallback has a continuation.
EXTENDS TaskRegistry

CONSTANTS head, rescue, sequel

One == [t \in Task |-> 1]
Two == [t \in Task |-> 2]
NoDeps == [t \in Task |-> {}]
AllSuccess == [t \in Task |-> "all_success"]

\* rescue is the fallback of head; sequel continues rescue.
Fallback == [t \in Task |-> CASE t = head -> {} [] t = rescue -> {head} [] OTHER -> {rescue}]
FallbackPolicy == [t \in Task |-> IF t = rescue THEN "on_failure" ELSE "all_success"]
=============================================================================
