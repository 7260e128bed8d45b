--------------------------- MODULE MCTurnDispatch ---------------------------
(***************************************************************************)
(* Small instances of TurnDispatch for TLC: a planning dispatch, a         *)
(* worker's dispatch and a closing one, which work for a Run, a Task of it *)
(* and the Run again.                                                      *)
(***************************************************************************)
EXTENDS TurnDispatch, TLC

CONSTANTS plan, work, close, c1, c2, t1, t2, r1, k1

RunOrTask == [d \in Dispatch |-> IF d = work THEN k1 ELSE r1]
OneThread == [d \in Dispatch |-> {t1}]
AnyThread == [d \in Dispatch |-> {t1, t2}]
OneCaller == [d \in Dispatch |-> {c1}]

\* Two plan_agent_run calls with one requestKey share a dispatch.
SharedCallers == [d \in Dispatch |-> {c1, c2}]
CallerSymmetry == Permutations({c1, c2})

\* The behaviours in which at most one parent has not ended when its first dispatch is prepared: rows
\* meet only through a common parent.
OneParentInit == Init /\ Cardinality({p \in Parent : parent[p] = "active"}) <= 1
OneParentSpec == OneParentInit /\ [][Next]_vars /\ Fairness
=============================================================================
