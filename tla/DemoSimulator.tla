---------------------------- MODULE DemoSimulator ----------------------------
(***************************************************************************)
(* The simulator of the demo mode, services/demo_simulator.py, and the     *)
(* requests that meet it.  A run is a dictionary that the coroutine        *)
(* tick_run and the request handlers of one event loop write: nothing      *)
(* interleaves except where the coroutine waits, for a thread that         *)
(* downloads or asks a model, for a delay of the script, or for the        *)
(* decision of a human gate.  What it does from one of those points to the *)
(* next is one action; of a step, only the last wait is kept, since a step *)
(* writes its outcome after it.  Publishing to the in-memory list never    *)
(* waits.  One run is followed; runs share nothing.                        *)
(***************************************************************************)
EXTENDS Naturals, Sequences

VARIABLES
    demo,   \* RUNS[run_id], where tick_run is in it, and whether _REPO_CACHE has a copy
    gate    \* _GATE_EVENTS and _GATE_DECISIONS for the run, and the last decision taken

demoVars == <<demo, gate>>

-----------------------------------------------------------------------------
(* Scripts.  Findings and proposals are told apart by where they are from. *)

ScriptedStep(type, findings, proposals) ==
    [type |-> type, findings |-> findings, proposals |-> proposals,
     pull |-> FALSE, is_live_agent |-> FALSE]

Plainly(type) == ScriptedStep(type, {}, {})
Finds == ScriptedStep("agent", {"scripted"}, {})
Proposes == ScriptedStep("change.propose", {}, {"scripted"})
Pull == [Plainly("hook.in") EXCEPT !.pull = TRUE]

scripted_code_compliance_scan ==
    <<Pull, Plainly("corpus.query"), Finds, Plainly("finding.emit")>>

scripted_code_compliance_scan_full ==
    <<Pull, Plainly("corpus.query"), [Finds EXCEPT !.is_live_agent = TRUE],
      Plainly("finding.emit"), Proposes, Plainly("gate.policy"), Plainly("gate.human"),
      Plainly("hook.out")>>

scripted_vendor_risk_review ==
    <<Plainly("hook.in"), Plainly("corpus.query"), Finds, Plainly("finding.emit"), Proposes>>

scripted_policy_gap_analysis ==
    <<Plainly("hook.in"), Plainly("corpus.query"), Finds, Plainly("finding.emit"), Proposes,
      Plainly("gate.policy"), Plainly("gate.human")>>

scripted_evidence_collection ==
    <<Plainly("hook.in"), Plainly("corpus.query"), Plainly("agent"), Plainly("finding.emit")>>

scripted_ai_system_intake ==
    <<Plainly("hook.in"), Plainly("corpus.query"), Finds, Plainly("gate.policy"),
      Plainly("finding.emit")>>

SCRIPTS == {scripted_code_compliance_scan, scripted_code_compliance_scan_full,
            scripted_vendor_risk_review, scripted_policy_gap_analysis,
            scripted_evidence_collection, scripted_ai_system_intake}

-----------------------------------------------------------------------------
NoRun == [pc |-> "absent", script |-> <<>>, at |-> 0, status |-> "none", steps |-> <<>>,
          cached |-> FALSE, findings |-> {}, proposals |-> {}, live |-> {}]

GateClosed == [event |-> "none", decision |-> "none", verdict |-> "none"]

DemoInit == demo = NoRun /\ gate = GateClosed

\* The answer to the request is the run, still running; its task starts later.
demo_run_workflow ==
    /\ demo.pc = "absent"
    /\ \E s \in SCRIPTS :
           demo' = [NoRun EXCEPT !.pc = "scheduled", !.script = s, !.status = "running",
                                 !.steps = [i \in 1..Len(s) |-> "pending"]]
    /\ UNCHANGED gate

\* The run d goes on to its next step with the gate g: nothing waits in between.
Proceed(d, g) ==
    LET n == d.at + 1 IN
    \/ /\ d.at = Len(d.script)
       /\ demo' = [d EXCEPT !.pc = "returned", !.status = "succeeded", !.cached = FALSE]
       /\ gate' = g
    \/ /\ d.at < Len(d.script)
       /\ d.script[n].type = "gate.human"
       /\ demo' = [d EXCEPT !.pc = "waiting", !.at = n, !.status = "awaiting_approval",
                            !.steps[n] = "awaiting_approval"]
       /\ gate' = [g EXCEPT !.event = "registered"]
    \/ /\ d.at < Len(d.script)
       /\ d.script[n].type # "gate.human"
       /\ demo' = [d EXCEPT !.pc = "step", !.at = n, !.steps[n] = "running"]
       /\ gate' = g

\* Whether there is something to download, for a script with the step "pull":
\* the inputs may name a repository or not.
_parse_repo_input(script) == {FALSE} \cup {script[i].pull : i \in 1..Len(script)}

TickRun ==
    /\ demo.pc = "scheduled"
    /\ \E named \in _parse_repo_input(demo.script) :
           IF named
           THEN demo' = [demo EXCEPT !.pc = "fetching"] /\ UNCHANGED gate
           ELSE Proceed(demo, gate)

\* The archive is kept, or an error that is caught leaves the script to itself.
_fetch_github_repo ==
    /\ demo.pc = "fetching"
    /\ \E fetched \in BOOLEAN : Proceed([demo EXCEPT !.cached = fetched], gate)

\* Any other error ends the task before the block that would record it: the run
\* stays as it is.
FetchRaises ==
    /\ demo.pc = "fetching"
    /\ demo' = [demo EXCEPT !.pc = "lost"]
    /\ UNCHANGED gate

\* The kinds of findings in a model's answer: "patched" is one with a file and a
\* change.
_normalise_findings == SUBSET {"live", "patched"}

\* What a step finds: the script's findings, without a key or when the answer is
\* of no use, or those of the model, for which the script's stand in if it has none.
_emit_live_openai_thoughts(s) ==
    {[live |-> FALSE, findings |-> s.findings]}
    \cup {[live |-> TRUE, findings |-> IF f = {} THEN s.findings ELSE f] :
              f \in IF s.is_live_agent THEN _normalise_findings ELSE {}}

_live_proposals_from_run(d) == {"live" : f \in d.findings \cap {"patched"}}

\* The outputs of a step replace the script's where the download is at hand.
FromRepository(d, s) == d.cached /\ (s.pull \/ s.type = "hook.out")

StepDone(d) == [d EXCEPT !.steps[d.at] = "succeeded"]
Live(d) == [d EXCEPT !.live = @ \cup {d.at}]

ProposeLive(s) ==
    /\ s.type = "change.propose"
    /\ _live_proposals_from_run(demo) # {}
    /\ Proceed(Live(StepDone([demo EXCEPT !.proposals = @ \cup _live_proposals_from_run(demo)])),
               gate)

CallRepository(s) ==
    /\ FromRepository(demo, s)
    /\ Proceed(Live(StepDone(demo)), gate)

PlayScript(s) ==
    /\ ~(s.type = "change.propose" /\ _live_proposals_from_run(demo) # {})
    /\ ~FromRepository(demo, s)
    /\ \E found \in _emit_live_openai_thoughts(s) :
           LET d == [demo EXCEPT !.findings = @ \cup found.findings,
                                 !.proposals = @ \cup s.proposals]
           IN  Proceed(StepDone(IF found.live THEN Live(d) ELSE d), gate)

FinishStep ==
    /\ demo.pc = "step"
    /\ LET s == demo.script[demo.at] IN ProposeLive(s) \/ CallRepository(s) \/ PlayScript(s)

\* An answer the caught errors do not cover ends the run; its step stays running.
StepRaises ==
    /\ demo.pc = "step"
    /\ demo.script[demo.at].is_live_agent
    /\ demo' = [demo EXCEPT !.pc = "returned", !.status = "failed", !.cached = FALSE]
    /\ UNCHANGED gate

\* Faulty variant: the decision is read and left in its dictionary.
WakeKeeping ==
    /\ demo.pc = "waiting"
    /\ gate.event = "set"
    /\ LET approved == gate.decision # "rejected"
           g == [gate EXCEPT !.event = "none",
                             !.verdict = IF approved THEN "approved" ELSE "rejected"]
       IN  IF approved
           THEN Proceed(StepDone([demo EXCEPT !.status = "running"]), g)
           ELSE /\ demo' = [demo EXCEPT !.pc = "returned", !.status = "cancelled",
                                        !.steps[demo.at] = "failed"]
                /\ gate' = g

\* The coroutine runs again some time after the event is set.  Whatever was
\* written to the run meanwhile is overwritten; a rejected run keeps its copy of
\* the repository.
Wake ==
    /\ demo.pc = "waiting"
    /\ gate.event = "set"
    /\ LET approved == gate.decision # "rejected"
           g == [GateClosed EXCEPT !.verdict = IF approved THEN "approved" ELSE "rejected"]
       IN  IF approved
           THEN Proceed(StepDone([demo EXCEPT !.status = "running"]), g)
           ELSE /\ demo' = [demo EXCEPT !.pc = "returned", !.status = "cancelled",
                                        !.steps[demo.at] = "failed"]
                /\ gate' = g

signal_resume(approved) ==
    /\ gate.event # "none"
    /\ gate' = [gate EXCEPT !.event = "set",
                            !.decision = IF approved THEN "approved" ELSE "rejected"]
    /\ UNCHANGED demo

\* Without a registered gate the status is written, whatever it is.
FlipStatus(approved) ==
    /\ gate.event = "none"
    /\ demo' = [demo EXCEPT !.status = IF approved THEN "succeeded" ELSE "cancelled"]
    /\ UNCHANGED gate

resume_workflow ==
    /\ demo.pc # "absent"
    /\ \E approved \in BOOLEAN : signal_resume(approved) \/ FlipStatus(approved)

cancel_workflow ==
    /\ demo.pc # "absent"
    /\ demo' = [demo EXCEPT !.status = "cancelled"]
    /\ UNCHANGED gate

\* Everything is in memory.
DemoRestart ==
    /\ demo.pc # "absent"
    /\ demo' = NoRun
    /\ gate' = GateClosed

DemoNext ==
    \/ demo_run_workflow \/ TickRun \/ _fetch_github_repo \/ FetchRaises
    \/ FinishStep \/ StepRaises \/ Wake
    \/ resume_workflow \/ cancel_workflow \/ DemoRestart

DemoSpec == DemoInit /\ [][DemoNext]_demoVars

-----------------------------------------------------------------------------
\* The run's progress is within its script, and what it found and proposed is from
\* the script or from the model.
DemoTypeOK ==
    /\ demo \in [pc : {"absent", "scheduled", "fetching", "step", "waiting", "returned", "lost"},
                 script : SCRIPTS \cup {<<>>}, at : Nat,
                 status : {"none", "running", "awaiting_approval", "succeeded", "cancelled", "failed"},
                 steps : Seq({"pending", "running", "awaiting_approval", "succeeded", "failed"}),
                 cached : BOOLEAN, findings : SUBSET {"scripted", "live", "patched"},
                 proposals : SUBSET {"scripted", "live"}, live : SUBSET Nat]
    /\ demo.at <= Len(demo.script) /\ Len(demo.steps) = Len(demo.script)
    /\ demo.live \subseteq 1..Len(demo.script)
    /\ gate \in [event : {"none", "registered", "set"}, decision : {"none", "approved", "rejected"},
                 verdict : {"none", "approved", "rejected"}]

\* Decisions find the gate, and the gate finds its decision: a run that shows it
\* awaits approval has a registered event, so a decision cannot be lost; a decision
\* is stored exactly while its event is set and not taken yet, so none is left over
\* for the next gate; and no step after the gate begins unless the decision that
\* was taken is an approval, whatever resumes, double clicks and cancellations
\* wrote to the run before, meanwhile and after (signal_resume, tick_run).
GateIsAnswered ==
    /\ demo.status = "awaiting_approval" => gate.event # "none"
    /\ gate.decision # "none" <=> gate.event = "set"
    /\ \A i \in 1..Len(demo.script) : \A j \in 1..(i - 1) :
           demo.script[j].type = "gate.human" /\ demo.steps[i] # "pending"
               => gate.verdict = "approved"

-----------------------------------------------------------------------------
(* What makes GateIsAnswered inductive *)

\* The event is there exactly while the coroutine waits at a gate.
GateWaits ==
    /\ gate.event # "none" <=> demo.pc = "waiting"
    /\ demo.pc = "waiting" => demo.at > 0 /\ demo.script[demo.at].type = "gate.human"
    /\ demo.pc = "step" => demo.at > 0 /\ demo.script[demo.at].type # "gate.human"
    /\ demo.pc \in {"scheduled", "fetching"} => demo.at = 0

\* Steps begin in their order, and a gate that was passed was approved.
GatePassed ==
    /\ \A i \in (demo.at + 1)..Len(demo.script) : demo.steps[i] = "pending"
    /\ \A j \in 1..(demo.at - 1) : demo.script[j].type = "gate.human" => gate.verdict = "approved"

=============================================================================
