------------------------- MODULE MCWorkflowRuntime -------------------------
(* Instances of WorkflowRuntime for TLC. *)
EXTENDS WorkflowRuntime, TLC

\* github_corpus_code_compliance without its pure hook.in and corpus.query steps.
DispatchTemplate == <<"agent", "finding.emit", "change.propose",
                      "gate.policy", "gate.human", "hook.out">>
\* policy_gap_analysis reduced likewise: the human gate is its last step.
GateLastTemplate == <<"agent", "finding.emit", "change.propose",
                      "gate.policy", "gate.human">>
\* code_compliance_scan: no gate, no hook.out.
ScanTemplate == <<"hook.in", "corpus.query", "agent", "finding.emit">>

\* A scan without its pure steps: the agent, and what it found.
AgentTemplate == <<"agent", "finding.emit">>

\* Explore the behaviours of fewer than MaxRequests requests.
FewRequests == requests < MaxRequests

Symmetry == Permutations(Sessions)
=============================================================================
