----------------------------- MODULE Completion -----------------------------
(***************************************************************************)
(* The verdict on a finished turn: what its native evidence says           *)
(* (assessTaskResult), whether the Task is complete (evaluateTaskCompletion*)
(* with everything its contract asks for) and whether a failure is tried   *)
(* again (decideTaskRetry).  Texts are abstracted to what the code reads   *)
(* in them: a command is a test, a file search or something else, a failed *)
(* one shows nothing, a failure or missing authority.                      *)
(***************************************************************************)
EXTENDS Naturals, Sequences

Accepting == {"accept", "accept_with_warnings"}
Command == [kind : {"test", "search", "other"}, exit : {"zero", "nonzero", "unknown"},
            shows : {"nothing", "failure", "authority"}]

FailureType == {"approval", "configuration", "workspace", "environment", "infrastructure", "coordination",
                "timeout", "interrupted", "validation", "test", "command", "worker"}

\* failed turns carry an error of some type; hydrated is evidenceComplete, "legacy" where it is absent
Result ==
  [turn : {"completed", "failed", "interrupted"}, error : FailureType \cup {"none"},
   hydrated : {"complete", "incomplete", "legacy"}, commands : Seq(Command),
   output : {"report", "empty", "failure", "exitcode"}, named : BOOLEAN, edits : BOOLEAN]

-----------------------------------------------------------------------------
\* Failures

NoFailure == [type |-> "none", category |-> "none", retryable |-> FALSE, nextAction |-> "none"]

CategoryOf(type) ==
  CASE type = "approval" -> "policy"
    [] type \in {"configuration", "workspace"} -> "configuration"
    [] type \in {"environment", "infrastructure"} -> "environment"
    [] type \in {"coordination", "timeout", "interrupted"} -> "coordination"
    [] type = "validation" -> "validation"
    [] OTHER -> "product"

NextActionOf(type) ==
  CASE type \in {"infrastructure", "coordination", "timeout"} -> "retry"
    [] type \in {"validation", "test", "command", "worker"} -> "rework"
    [] type = "configuration" -> "repair_contract"
    [] OTHER -> "manual_intervention"

Failure(type) ==
  [type |-> type, category |-> CategoryOf(type), nextAction |-> NextActionOf(type),
   retryable |-> type \in {"infrastructure", "timeout", "coordination", "test", "command"}]

-----------------------------------------------------------------------------
\* Native evidence

Succeeds(c) == c.exit = "zero"

\* A file search that finds nothing exits with 1 and prints nothing.
EmptySearch(c) == c.kind = "search" /\ c.exit = "nonzero" /\ c.shows = "nothing"

SupersededByAny(commands, i) ==      \* mutant: an earlier success of the test counts too
  /\ commands[i].kind = "test"
  /\ \E j \in 1..Len(commands) : commands[j].kind = "test" /\ Succeeds(commands[j])

\* The same test command succeeded later.
Superseded(commands, i) ==
  /\ commands[i].kind = "test"
  /\ \E j \in i + 1..Len(commands) : commands[j].kind = "test" /\ Succeeds(commands[j])

Failing(commands) ==
  {i \in 1..Len(commands) : /\ ~Succeeds(commands[i]) /\ ~EmptySearch(commands[i])
                            /\ ~Superseded(commands, i)}

CommandFailure(c) ==
  IF c.shows = "authority" THEN Failure("configuration")
                           ELSE Failure(IF c.kind = "test" THEN "test" ELSE "command")

\* The exits an acceptance review may excuse: never a test, missing authority or an unknown exit.
Reviewable(c) == c.exit = "nonzero" /\ CommandFailure(c).type = "command"

ToReview(r, reviews) == IF reviews THEN {i \in Failing(r.commands) : Reviewable(r.commands[i])} ELSE {}

TestPassed(r) == \E i \in 1..Len(r.commands) : r.commands[i].kind = "test" /\ Succeeds(r.commands[i])

TurnFailure(r) ==
  Failure(IF r.error # "none" THEN r.error ELSE IF r.turn = "interrupted" THEN "interrupted" ELSE "worker")

Assess(r, reviews) ==
  LET bad == Failing(r.commands) \ ToReview(r, reviews) IN
  IF r.turn # "completed" \/ r.error # "none" THEN TurnFailure(r)
  ELSE IF bad # {} THEN CommandFailure(r.commands[CHOOSE i \in bad : \A j \in bad : i <= j])
  ELSE IF r.output = "failure" THEN Failure("worker")
  ELSE IF r.output = "exitcode" /\ ~TestPassed(r) THEN Failure("command")
  ELSE NoFailure

-----------------------------------------------------------------------------
(***************************************************************************)
(* The verdict.  e is the evidence: the result, the contract, the          *)
(* acceptance review ("none" or its decision) and the commands it excuses, *)
(* the artifact, the integration, the state of a shared workspace and the  *)
(* check of the destination.                                               *)
(***************************************************************************)
Strict(e) == e.result.hydrated # "legacy"

NeedsReview(k) == k.criteria /\ k.strategy = "none"

Rejection(f) == [decision |-> "reject", failure |-> f]
Attention(type, category, retryable, action) ==
  [decision |-> "attention",
   failure |-> [type |-> type, category |-> category, retryable |-> retryable, nextAction |-> action]]

ReplaySafe(k) == ~k.mutates /\ ~k.effects

\* The test a test Task was to run, in its native receipts.
UntestedTest(e) == e.contract.kind = "test" /\ Strict(e) /\ ~TestPassed(e.result)

ExecutionVerdict(e) ==
  LET f == Assess(e.result, NeedsReview(e.contract))
      safe == ReplaySafe(e.contract) IN
  IF f # NoFailure THEN Rejection(f)
  ELSE IF e.result.hydrated = "incomplete"
    THEN Attention("coordination", "coordination", safe, IF safe THEN "reconcile_dispatch" ELSE "inspect_side_effects")
  ELSE IF UntestedTest(e) THEN Attention("coordination", "coordination", FALSE, "inspect_execution_evidence")
  ELSE [decision |-> "accept", failure |-> NoFailure]

Unreviewed(e) == ToReview(e.result, NeedsReview(e.contract)) \ e.excused

Materialized(e, output) ==
  CASE output = "report" -> e.result.output # "empty"
    [] output = "patch" -> e.artifact = "changed" \/ e.workspace = "changed"
                           \/ (~Strict(e) /\ e.artifact = "none" /\ e.workspace = "none")
    [] OTHER -> e.result.named \/ ~Strict(e)

MissingIntegration(e) ==
  /\ e.contract.strategy # "none"
  /\ ~(e.integrated /\ e.artifact = "changed")
  /\ Strict(e) \/ e.integrated \/ e.artifact # "none"

Missing(e) ==
  \/ \E o \in e.contract.outputs : ~Materialized(e, o)
  \/ e.contract.criteria /\ e.validation = "none"
  \/ MissingIntegration(e)

Conflicting(e) ==
  \/ e.contract.criteria /\ e.validation \notin Accepting \cup {"none"}
  \/ e.postcondition = "failed"

\* A read-only Task saw its shared workspace change: whoever did it.
Unattributed(e) == ~e.contract.mutates /\ e.workspace = "changed"

Rework == Rejection([type |-> "worker", category |-> "product", retryable |-> TRUE, nextAction |-> "rework"])

Verdict(e) ==
  IF ExecutionVerdict(e).decision # "accept" THEN ExecutionVerdict(e)
  ELSE IF Unreviewed(e) # {} THEN Attention("worker", "validation", FALSE, "inspect_execution_evidence")
  ELSE IF Unattributed(e) THEN Attention("coordination", "coordination", FALSE, "inspect_side_effects")
  ELSE IF Missing(e) \/ Conflicting(e) THEN Rework
  ELSE [decision |-> IF ToReview(e.result, NeedsReview(e.contract)) # {} \/ e.validation = "accept_with_warnings"
                     THEN "accept_with_warnings" ELSE "accept",
        failure |-> NoFailure]

-----------------------------------------------------------------------------
\* Retries

\* decideTaskRetry; feedback is that of a validator, new if it was not given before.
Retries(f, remaining, feedback, new) ==
  /\ f.type \notin {"configuration", "policy"} /\ f.category \notin {"configuration", "policy"}
  /\ f.retryable /\ remaining > 0
  /\ \/ f.type \in {"infrastructure", "coordination", "timeout"}
     \/ f.nextAction = "rework" /\ feedback /\ new

\* finishValidationClaim: what a review that does not accept makes of the Task.
ValidationFailure(v) ==
  CASE v.kind \in {"configuration", "policy"} ->
         [type |-> v.kind, category |-> v.kind, retryable |-> FALSE, nextAction |-> "repair_contract"]
    [] v.kind \notin {"configuration", "policy"} /\ v.decision = "error" ->
         [type |-> "infrastructure", category |-> "environment", retryable |-> TRUE, nextAction |-> "retry"]
    [] OTHER ->
         [type |-> "validation", category |-> IF v.kind = "product" THEN "product" ELSE "validation",
          retryable |-> TRUE, nextAction |-> "rework"]
=============================================================================
