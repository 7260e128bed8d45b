---------------------------- MODULE MCGlobalRun ----------------------------
(***************************************************************************)
(* Global Runs of three Project Runs: two producers of one consumer, a     *)
(* chain, one dependency beside an independent Project Run, and a cycle.   *)
(***************************************************************************)
EXTENDS GlobalRun

CONSTANTS p1, p2, p3

Success == [condition |-> "all_success", needs |-> "declared"]
Plain == [condition |-> "all_success", needs |-> "nothing"]
Report == [condition |-> "all_terminal", needs |-> "declared"]
Always == [condition |-> "all_terminal", needs |-> "nothing"]
Failure == [condition |-> "on_failure", needs |-> "nothing"]
Absent == [condition |-> "all_success", needs |-> "undeclared"]

Request(g, first, second, o) ==
  [graph |-> g, optional |-> o, contract |-> [e \in g |-> IF e[1] = p1 THEN first ELSE second]]

Join == {<<p1, p3>>, <<p2, p3>>}
Chain == {<<p1, p2>>, <<p2, p3>>}
One == {<<p1, p2>>}
Cycle == {<<p1, p2>>, <<p2, p1>>}

SomeRequests ==
  {Request(Join, Success, Success, {}), Request(Join, Always, Success, {p2}), Request(Join, Failure, Success, {}),
   Request(Chain, Plain, Success, {}), Request(Chain, Report, Failure, {p3}),
   Request(One, Absent, Absent, {p2}), Request(Cycle, Success, Success, {})}
FallbackRequest == {Request(One, Failure, Failure, {})}
=============================================================================
