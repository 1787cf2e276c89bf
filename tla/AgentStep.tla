------------------------------ MODULE AgentStep ------------------------------
(***************************************************************************)
(* What an agent step of a workflow reports.  The API bundles documents    *)
(* and settings into a manifest (production_workflows.py), a sandbox runs  *)
(* a harness on it that may call a model (harness/agent_step.py) or scan a *)
(* GitHub repository (harness/github_code_compliance.py), the orchestrator *)
(* looks for the harness's output in the logs (orchestrator.py), and the   *)
(* API makes findings and a status of what comes back.  Each stage has     *)
(* fallbacks of its own; SandboxLaunch tells when a launch is a replay.    *)
(***************************************************************************)
EXTENDS Integers, Sequences, FiniteSets, SequencesExt

CONSTANTS
    Sizes,     \* sizes a document can have
    DocCap,    \* _INLINE_DOC_BYTES
    TotalCap,  \* _INLINE_TOTAL_BYTES
    MaxDocs,   \* bound on the documents of the selected corpora
    MaxItems   \* bound on the findings a model returns

ASSUME AgentAssumption ==
    Sizes \subseteq Nat /\ DocCap \in Nat /\ TotalCap \in Nat /\ MaxDocs \in Nat /\ MaxItems \in Nat

VARIABLES
    stage,     \* how far the step has come
    manifest,  \* settings and documents the step runs with
    asked,     \* history: what became of the model call or the download
    launched,  \* exit code and agent_step_output of the launch
    outcome    \* what the step reports

agentVars == <<stage, manifest, asked, launched, outcome>>

Topics == {"email", "secret", "exec"}
Modes == {"auto", "live", "dry_run"}

\* Where a finding comes from: the model, the scan, or the runtime itself, which
\* puts an expected_finding into every manifest.
Sources == {"model", "scan", "expected"}
Calls == {"none", "sandbox_live", "sandbox_dry_run", "sandbox_replay",
          "sandbox_replay_unavailable", "sandbox_static_verifier", "sandbox_missing_output"}
Sum(sizes) == LET sum[k \in 0..Len(sizes)] == IF k = 0 THEN 0 ELSE sum[k - 1] + sizes[k]
              IN  sum[Len(sizes)]

Output == [ok : BOOLEAN, call : Calls, findings : Seq(Sources)]
NoOutput == [ok |-> FALSE, call |-> "none", findings |-> <<>>]

AgentTypeOK ==
    /\ stage \in {"documents", "settings", "launch", "harness", "logs", "collect", "done"}
    /\ manifest.mode \in Modes
    /\ {manifest.provider, manifest.key, manifest.github} \subseteq BOOLEAN
    /\ manifest.inlined \in Seq(Sizes \cap 1..DocCap) /\ Sum(manifest.inlined) <= TotalCap
    /\ manifest.topics \subseteq Topics
    /\ asked \in {"not", "answered", "failed"}
    /\ launched.exit_code \in Nat /\ launched.output \in Output
    /\ outcome.status \in {"none", "succeeded", "failed"} /\ outcome.output \in Output

AgentInit ==
    /\ stage = "documents"
    /\ manifest = [mode |-> "auto", provider |-> FALSE, key |-> FALSE, github |-> FALSE,
                   inlined |-> <<>>, topics |-> {}]
    /\ asked = "not"
    /\ launched = [exit_code |-> 0, output |-> NoOutput]
    /\ outcome = [status |-> "none", output |-> NoOutput]

-----------------------------------------------------------------------------
(* The manifest *)

\* Faulty variant: the total is not counted.
InlineAll(inlined, size) ==
    IF size > 0 /\ size <= DocCap THEN Append(inlined, size) ELSE inlined

\* A document is inlined when it is small enough, and there is room; it is
\* referenced otherwise, and a later, smaller one may still find room.
Inline(inlined, size) ==
    IF size > 0 /\ size <= DocCap /\ Sum(inlined) + size <= TotalCap
    THEN Append(inlined, size) ELSE inlined

\* Documents are taken one after the other.
Inlined(documents) ==
    LET inlined[k \in 0..Len(documents)] ==
            IF k = 0 THEN <<>> ELSE Inline(inlined[k - 1], documents[k])
    IN  inlined[Len(documents)]

_collect_workflow_documents ==
    /\ stage = "documents"
    /\ \E documents \in BoundedSeq(Sizes, MaxDocs), topics \in SUBSET Topics :
        LET inlined == Inlined(documents) IN
        manifest' = [manifest EXCEPT !.inlined = inlined,
                                     !.topics = IF inlined = <<>> THEN {} ELSE topics]
    /\ stage' = "settings"
    /\ UNCHANGED <<asked, launched, outcome>>

\* provider: one the harness knows; key: its key is configured and not blank.
_agent_sandbox_manifest ==
    /\ stage = "settings"
    /\ \E mode \in Modes, provider, key, github \in BOOLEAN :
        manifest' = [manifest EXCEPT !.mode = mode, !.provider = provider, !.key = key,
                                     !.github = github]
    /\ stage' = "launch"
    /\ UNCHANGED <<asked, launched, outcome>>

-----------------------------------------------------------------------------
(* The launch *)

Expected(call) == [ok |-> TRUE, call |-> call, findings |-> <<"expected">>]

\* The API replays: not for a GitHub scan, which needs the download.
_sandbox_replay ==
    /\ stage = "launch"
    /\ launched' = [exit_code |-> 0, output |->
            IF manifest.github
            THEN [ok |-> FALSE, call |-> "sandbox_replay_unavailable", findings |-> <<>>]
            ELSE Expected("sandbox_replay")]
    /\ stage' = "collect"
    /\ UNCHANGED <<manifest, asked, outcome>>

\* The orchestrator replays, and asks for nothing but an agent in the manifest.
_agent_output_from_manifest ==
    /\ stage = "launch"
    /\ launched' = [exit_code |-> 0, output |-> Expected("sandbox_replay")]
    /\ stage' = "collect"
    /\ UNCHANGED <<manifest, asked, outcome>>

ContainerStarts ==
    /\ stage = "launch"
    /\ stage' = "harness"
    /\ UNCHANGED <<manifest, asked, launched, outcome>>

Emit(exit_code, output) ==
    /\ launched' = [exit_code |-> exit_code, output |-> output]
    /\ stage' = "logs"
    /\ UNCHANGED <<manifest, outcome>>

-----------------------------------------------------------------------------
(* harness/agent_step.py *)

_should_attempt_live == manifest.key /\ manifest.provider /\ manifest.mode \in {"live", "auto"}

\* items: the findings the model returned, TRUE for those that are objects.  None
\* left is answered by the expected finding.
_normalize_findings(items) ==
    LET objects == Cardinality({i \in DOMAIN items : items[i]}) IN
    IF objects = 0 THEN <<"expected">> ELSE [i \in 1..objects |-> "model"]

\* The answer holds a JSON object; its findings may be anything.
_try_live ==
    /\ stage = "harness" /\ ~manifest.github /\ _should_attempt_live
    /\ asked' = "answered"
    /\ \E items \in BoundedSeq(BOOLEAN, MaxItems) :
        Emit(0, [ok |-> TRUE, call |-> "sandbox_live", findings |-> _normalize_findings(items)])

\* Faulty variant: a failed call is reported as the model's.
StubAsLive ==
    /\ stage = "harness" /\ ~manifest.github
    /\ asked' = IF _should_attempt_live THEN "failed" ELSE "not"
    /\ Emit(0, [ok |-> TRUE, call |-> "sandbox_live", findings |-> <<"model">>])

\* Live mode or not, the stub stands in for a call that was not made, failed
\* (network, status, JSON) or answered with no JSON object.
_stub_output ==
    /\ stage = "harness" /\ ~manifest.github
    /\ asked' = IF _should_attempt_live THEN "failed" ELSE "not"
    /\ Emit(0, Expected("sandbox_dry_run"))

\* An exception nobody catches (an answer of another shape), or the container is
\* killed: no marker in the logs.
HarnessDies ==
    /\ stage = "harness"
    /\ asked' = IF ~manifest.github /\ _should_attempt_live THEN "failed" ELSE "not"
    /\ Emit(1, NoOutput)

-----------------------------------------------------------------------------
(* harness/github_code_compliance.py *)

\* With no document that could be decoded every rule is on.
_rule_enabled(topic) == manifest.topics = {} \/ topic \in manifest.topics

\* hits: rules some file of the repository breaks.
_scan ==
    /\ stage = "harness" /\ manifest.github
    /\ \E hits \in SUBSET Topics :
        LET findings == SetToSeq({topic \in hits : _rule_enabled(topic)}) IN
        Emit(0, [ok |-> TRUE, call |-> "sandbox_static_verifier",
                 findings |-> [i \in DOMAIN findings |-> "scan"]])
    /\ UNCHANGED asked

\* Faulty variant: a failed download is an empty repository.
DownloadNothing ==
    /\ stage = "harness" /\ manifest.github
    /\ asked' = "failed"
    /\ Emit(0, [ok |-> TRUE, call |-> "sandbox_static_verifier", findings |-> <<>>])

\* Whatever goes wrong from the download to the scan is reported in the output
\* and by exit code 2.
DownloadFails ==
    /\ stage = "harness" /\ manifest.github
    /\ asked' = "failed"
    /\ Emit(2, [ok |-> FALSE, call |-> "sandbox_static_verifier", findings |-> <<>>])

-----------------------------------------------------------------------------
(* Back to the API *)

\* The orchestrator keeps the last 8000 characters of the logs: of an output longer
\* than that the marker is cut off when the logs come over the socket.
_parse_agent_output ==
    /\ stage = "logs"
    /\ \/ UNCHANGED launched
       \/ launched' = [exit_code |-> launched.exit_code, output |-> NoOutput]
    /\ stage' = "collect"
    /\ UNCHANGED <<manifest, asked, outcome>>

\* An output that is missing fails the step but leaves the expected finding.
_agent_output_from_sandbox_launch ==
    /\ stage = "collect"
    /\ LET output == IF launched.output = NoOutput
                     THEN [ok |-> FALSE, call |-> "sandbox_missing_output",
                           findings |-> <<"expected">>]
                     ELSE launched.output
       IN outcome' = [output |-> output, status |->
                        IF output.ok /\ launched.exit_code = 0 THEN "succeeded" ELSE "failed"]
    /\ stage' = "done"
    /\ UNCHANGED <<manifest, asked, launched>>

AgentNext ==
    \/ _collect_workflow_documents
    \/ _agent_sandbox_manifest
    \/ _sandbox_replay
    \/ _agent_output_from_manifest
    \/ ContainerStarts
    \/ _try_live
    \/ _stub_output
    \/ HarnessDies
    \/ _scan
    \/ DownloadFails
    \/ _parse_agent_output
    \/ _agent_output_from_sandbox_launch

AgentSpec == AgentInit /\ [][AgentNext]_agentVars

-----------------------------------------------------------------------------
(* Properties *)

\* Whichever of the four places that make up outputs was used, a finding is called
\* the model's, and a call live, only when the model was asked and answered.
FindingsNameTheirSource ==
    LET output == outcome.output IN
    \/ asked = "answered"
    \/ output.call # "sandbox_live" /\ "model" \notin ToSet(output.findings)

\* An agent step that succeeds has findings to show, or is a scan that was
\* carried out: no lost output, cut log or failed download passes as a clean
\* result.  (A model that finds nothing wrong does not pass as one either.)
SuccessIsBacked ==
    outcome.status = "succeeded" =>
        \/ outcome.output.findings # <<>>
        \/ outcome.output.call = "sandbox_static_verifier" /\ asked = "not"

-----------------------------------------------------------------------------
(* What makes FindingsNameTheirSource and SuccessIsBacked inductive *)

Honest(output) ==
    \/ asked = "answered"
    \/ output.call # "sandbox_live" /\ "model" \notin ToSet(output.findings)

Backed(output) ==
    output.ok => \/ output.findings # <<>>
                 \/ output.call = "sandbox_static_verifier" /\ asked = "not"

\* Nobody is asked, nothing is launched and nothing reported before its time.
InTurn ==
    /\ stage \in {"documents", "settings", "launch", "harness"} =>
            asked = "not" /\ launched.output = NoOutput
    /\ stage # "done" => outcome = [status |-> "none", output |-> NoOutput]

AgentSound ==
    /\ InTurn
    /\ Honest(launched.output) /\ Honest(outcome.output)
    /\ Backed(launched.output) /\ Backed(outcome.output)
    /\ outcome.status = "succeeded" => outcome.output.ok

=============================================================================
