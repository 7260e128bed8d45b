--------------------------- MODULE MCIntegration ----------------------------
\* Instances of Integration for TLC: one Task with every contract, outcome and review that makes a
\* difference, and two Tasks whose integrations follow each other.
EXTENDS Integration

Ok(kind) == [kind |-> kind, exit |-> "zero", shows |-> "nothing"]
Bad(kind, shows) == [kind |-> kind, exit |-> "nonzero", shows |-> shows]
Clean == [turn |-> "completed", error |-> "none", hydrated |-> "complete", commands |-> <<>>,
          output |-> "report", named |-> FALSE, edits |-> TRUE]

\* A test that fails first, the same the other way round, a diagnostic, no edits, a lost connection.
SomeOutcomes ==
  {[Clean EXCEPT !.commands = <<Bad("test", "failure"), Ok("test")>>],
   [Clean EXCEPT !.commands = <<Ok("test"), Bad("test", "failure")>>],
   [Clean EXCEPT !.commands = <<Bad("search", "nothing"), Bad("other", "failure")>>],
   [Clean EXCEPT !.edits = FALSE],
   [Clean EXCEPT !.turn = "failed", !.error = "infrastructure"]}

Accept == [decision |-> "accept", kind |-> "none", excused |-> {}]
SomeOpinions ==
  {Accept, [Accept EXCEPT !.excused = {2}, !.decision = "accept_with_warnings"],
   [Accept EXCEPT !.decision = "reject", !.kind = "product"], [Accept EXCEPT !.decision = "error", !.kind = "environment"]}

OneOutcome == {Clean}
OneOpinion == {Accept}

Work == [criteria |-> FALSE, kind |-> "work", strategy |-> "patch", mutates |-> TRUE, effects |-> FALSE,
         outputs |-> {"report", "patch"}]
JustWork == {Work}
SomeContracts ==
  {Work, [Work EXCEPT !.criteria = TRUE, !.strategy = "commit"],
   [Work EXCEPT !.criteria = TRUE, !.strategy = "none", !.mutates = FALSE, !.outputs = {"report"}],
   [Work EXCEPT !.kind = "test", !.strategy = "none", !.mutates = FALSE, !.outputs = {"report"}]}
=============================================================================
