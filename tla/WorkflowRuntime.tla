--------------------------- MODULE WorkflowRuntime ---------------------------
(***************************************************************************)
(* The production workflow runtime of services/production_workflows.py:    *)
(* runs and their step rows in Postgres, and the HTTP sessions that drain, *)
(* execute, resume and cancel them.                                        *)
(*                                                                         *)
(* One action is one transaction (or one external effect) of a handler, so *)
(* everything that can happen between two commits of a session can happen  *)
(* here.  A session works on the copy of the rows it loaded: SQLAlchemy    *)
(* keeps loaded rows until the session ends (db.py, expire_on_commit is    *)
(* False) and at a flush writes only the columns that differ from it.      *)
(***************************************************************************)
EXTENDS Naturals, FiniteSets

CONSTANTS
    NumRuns,        \* how many workflow runs may be created
    NumSteps,       \* length of the template the runs execute
    Kind,           \* Kind[i]: the type of the i-th step of the template
    Sessions,       \* database sessions, one per HTTP request being served
    Nobody,         \* no session: an unowned lease, lock or asset
    BatchLimit,     \* the drain's limit
    ExecutionModes, \* the modes runs are created in: "queued", "sync"
    MaxCrashes,     \* bound on sessions lost in the middle of their work
    MaxOverruns,    \* bound on leases that expire under a live session
    MaxCancels,     \* bound on cancel requests
    MaxRequests     \* how far requests are counted, for state constraints

Runs == 1..NumRuns
Steps == 1..NumSteps

StepKinds == {"hook.in", "corpus.query", "agent", "finding.emit", "change.propose",
              "gate.policy", "gate.human", "hook.out", "transform"}

ASSUME RuntimeAssumption ==
    /\ NumRuns \in Nat /\ NumSteps \in Nat /\ BatchLimit \in Nat \ {0}
    /\ Kind \in [Steps -> StepKinds]
    /\ Nobody \notin Sessions
    /\ ExecutionModes \subseteq {"queued", "sync"}
    /\ MaxCrashes \in Nat /\ MaxOverruns \in Nat /\ MaxCancels \in Nat
    /\ MaxRequests \in Nat

VARIABLES
    run,          \* run[r]: the workflow_run row
    step,         \* step[r][i]: the step_run row of step i
    persisted,    \* persisted[r]: the finding and proposed_change rows of r
    agentAsset,   \* agentAsset[r][i]: the workflow_agent asset of an agent step
    decided,      \* decided[r]: the steps that have a policy_decision row
    hookCalls,    \* hookCalls[r]: idempotency keys of succeeded hook_call rows
    lock,         \* lock[r]: the drain that holds the row lock of r
    sess,         \* sess[s]: what session s is doing and has in memory
    crashes, overruns, cancels, requests,   \* how much of each bound is used
    (* history, read by the properties and for fresh ids only *)
    execs,        \* execs[r][i]: how often step i was started on r
    sends,        \* sends[r]: external writes issued for r
    completed,    \* completed[r]: steps once recorded as succeeded
    approved,     \* the runs a resume request approved
    announced     \* announced[r]: statuses published as workflow.run.finished

rowVars == <<run, step, persisted, agentAsset, decided, hookCalls>>
bounds == <<crashes, overruns, cancels, requests>>
history == <<execs, sends, completed, approved, announced>>
vars == <<rowVars, lock, sess, bounds, history>>

-----------------------------------------------------------------------------
(* Rows *)

RunStatus == {"absent", "queued", "running", "awaiting_approval",
              "succeeded", "failed", "cancelled"}
StepStatus == {"pending", "running", "awaiting_approval",
               "succeeded", "failed", "blocked", "cancelled"}

\* A proposal names the finding it remedies; 0 stands for no finding.
Proposal == [id : Nat, finding : Nat]

\* manual: the run's inputs say approved = False, so gate.human must pause.
RunRow == [status : RunStatus, manual : BOOLEAN,
           findings : SUBSET Nat, proposals : SUBSET Proposal]
AbsentRun == [status |-> "absent", manual |-> FALSE, findings |-> {}, proposals |-> {}]

\* out: the finding or proposal a step put in outputs_redacted, 0 for none.
StepRow == [status : StepStatus, owner : Sessions \cup {Nobody},
            lease : {"none", "live", "expired"}, attempts : Nat, out : Nat]
FreshStep == [status |-> "pending", owner |-> Nobody, lease |-> "none",
              attempts |-> 0, out |-> 0]

Active == {"queued", "running"}

\* What a session holds of a step it has leased and is executing.
Outcome == {"succeeded", "failed", "awaiting_approval"}
Work == [stage : {"none", "leased", "inserting", "sent", "done"},
         status : Outcome, out : Nat]
NoWork == [stage |-> "none", status |-> "failed", out |-> 0]

Session == [pc : {"idle", "select", "lookup", "recover", "load", "mark", "plan",
                  "exec", "refresh", "publish", "rload", "rdecide"},
            batch : SUBSET Runs, run : Runs \cup {0},
            snap : [Runs -> RunRow], cache : [Steps -> StepRow],
            work : [Steps -> Work],
            findings : SUBSET Nat, proposals : SUBSET Proposal,
            verdict : Outcome, resumed : BOOLEAN]
Idle == [pc |-> "idle", batch |-> {}, run |-> 0,
         snap |-> [r \in Runs |-> AbsentRun],
         cache |-> [i \in Steps |-> FreshStep],
         work |-> [i \in Steps |-> NoWork],
         findings |-> {}, proposals |-> {}, verdict |-> "succeeded",
         resumed |-> FALSE]

TypeOK ==
    /\ run \in [Runs -> RunRow]
    /\ step \in [Runs -> [Steps -> StepRow]]
    /\ persisted \in [Runs -> [findings : SUBSET Nat, proposals : SUBSET Proposal]]
    /\ agentAsset \in [Runs -> [Steps -> Sessions \cup {Nobody, "committed"}]]
    /\ decided \in [Runs -> SUBSET Steps]
    /\ hookCalls \in [Runs -> SUBSET Nat]
    /\ lock \in [Runs -> Sessions \cup {Nobody}]
    /\ sess \in [Sessions -> Session]
    /\ crashes \in Nat /\ overruns \in Nat /\ cancels \in Nat /\ requests \in Nat
    /\ execs \in [Runs -> [Steps -> Nat]]
    /\ sends \in [Runs -> Nat]
    /\ completed \in [Runs -> SUBSET Steps]
    /\ approved \in SUBSET Runs
    /\ announced \in [Runs -> SUBSET RunStatus]

Init ==
    /\ run = [r \in Runs |-> AbsentRun]
    /\ step = [r \in Runs |-> [i \in Steps |-> FreshStep]]
    /\ persisted = [r \in Runs |-> [findings |-> {}, proposals |-> {}]]
    /\ agentAsset = [r \in Runs |-> [i \in Steps |-> Nobody]]
    /\ decided = [r \in Runs |-> {}]
    /\ hookCalls = [r \in Runs |-> {}]
    /\ lock = [r \in Runs |-> Nobody]
    /\ sess = [s \in Sessions |-> Idle]
    /\ crashes = 0 /\ overruns = 0 /\ cancels = 0 /\ requests = 0
    /\ execs = [r \in Runs |-> [i \in Steps |-> 0]]
    /\ sends = [r \in Runs |-> 0]
    /\ completed = [r \in Runs |-> {}]
    /\ approved = {}
    /\ announced = [r \in Runs |-> {}]

-----------------------------------------------------------------------------
(* Helpers *)

First(S) == CHOOSE x \in S : \A y \in S : x <= y
Last(S) == CHOOSE x \in S : \A y \in S : y <= x

\* A flush writes a column only if its new value differs from the loaded one.
Flush(stored, loaded, new) == IF new = loaded THEN stored ELSE new

Set(s, me) == sess' = [sess EXCEPT ![s] = me]

\* End of a transaction of s: its row locks go, its flushed inserts stay or go.
Unlock(s) == lock' = [r \in Runs |-> IF lock[r] = s THEN Nobody ELSE lock[r]]
Assets(s, fate) ==
    agentAsset' = [r \in Runs |-> [i \in Steps |->
                      IF agentAsset[r][i] = s THEN fate ELSE agentAsset[r][i]]]

\* Another drain's FOR UPDATE lock makes a writer of the run row wait.
MayWrite(s, r) == lock[r] \in {s, Nobody}

\* Faulty variants, used only to show that the properties notice: recovery that
\* writes a run's status, or that forgets the status.
RecoveredToQueued(row) == [row EXCEPT !.status = "queued", !.owner = Nobody, !.lease = "none"]
LeaseCleared(row) == [row EXCEPT !.owner = Nobody, !.lease = "none"]

Expired(row) == row.status = "running" /\ row.lease = "expired"
Recovered(row) == [row EXCEPT !.status = "pending", !.owner = Nobody, !.lease = "none"]

\* _lease_step.
Leased(row, s) ==
    [row EXCEPT !.status = "running", !.owner = s, !.lease = "live", !.attempts = @ + 1]

\* Faulty variants of Ready: a failed dependency is the only obstacle; a step
\* that succeeded may run again.
ReadyUnlessFailed(c) == {i \in Steps : c[i].status = "pending"
                                       /\ (i > 1 => c[i - 1].status # "failed")}
ReadyAgain(c) == {i \in Steps : c[i].status \in {"pending", "succeeded"}
                                /\ (i > 1 => c[i - 1].status = "succeeded")}

\* Pending steps whose predecessor is in the session's context as succeeded;
\* every registered template is a chain.
Ready(c) == {i \in Steps : c[i].status = "pending"
                            /\ (i > 1 => c[i - 1].status = "succeeded")}

\* _latest_step_outputs: what the last step of a type left in the context.
LatestOut(c, kind) ==
    LET made == {i \in Steps : Kind[i] = kind /\ c[i].status = "succeeded"}
    IN IF made = {} THEN 0 ELSE c[Last(made)].out

\* The session turns to the next run of its batch, or its request ends.
NextRun(me) ==
    IF me.batch = {} THEN Idle
    ELSE [Idle EXCEPT !.pc = "recover", !.run = First(me.batch),
                      !.batch = me.batch \ {First(me.batch)},
                      !.snap = [r \in Runs |-> IF r \in me.batch THEN me.snap[r]
                                               ELSE AbsentRun]]

-----------------------------------------------------------------------------
(* Creating runs, selecting them and preparing one for execution *)

\* A drain, sync run or resume request takes an idle session.
Request(s, me) ==
    /\ sess[s] = Idle
    /\ Set(s, me)
    /\ requests' = IF requests < MaxRequests THEN requests + 1 ELSE requests
    /\ UNCHANGED <<crashes, overruns, cancels>>

NewRun(r, status) ==
    /\ run[r].status = "absent"
    /\ \A q \in Runs : q < r => run[q].status # "absent"
    /\ \E manual \in BOOLEAN :
          run' = [run EXCEPT ![r].status = status, ![r].manual = manual]

\* POST :run in queued mode, or a schedule tick.
Enqueue(r) ==
    /\ "queued" \in ExecutionModes
    /\ NewRun(r, "queued")
    /\ UNCHANGED <<step, persisted, agentAsset, decided, hookCalls, lock, sess, bounds, history>>

\* POST :run in sync mode: the run is committed as running, then processed.
StartSync(s, r) ==
    /\ "sync" \in ExecutionModes
    /\ NewRun(r, "running")
    /\ Request(s, [Idle EXCEPT !.pc = "lookup", !.run = r])
    /\ UNCHANGED <<step, persisted, agentAsset, decided, hookCalls, lock, history>>

\* process_workflow_run reads the run and leaves it alone unless it is active.
Lookup(s) ==
    /\ sess[s].pc = "lookup"
    /\ LET r == sess[s].run
       IN Set(s, IF run[r].status \in Active
                 THEN [sess[s] EXCEPT !.pc = "recover", !.snap[r] = run[r]]
                 ELSE Idle)
    /\ UNCHANGED <<rowVars, lock, bounds, history>>

\* A drain first puts every step whose lease expired back to pending; it also
\* touches the outputs of their running runs, so a locked one makes it wait.
DrainRecover(s) ==
    /\ Request(s, [Idle EXCEPT !.pc = "select"])
    /\ \A r \in Runs : run[r].status = "running" /\ (\E i \in Steps : Expired(step[r][i]))
                        => lock[r] = Nobody
    /\ step' = [r \in Runs |-> [i \in Steps |->
                   IF Expired(step[r][i]) THEN Recovered(step[r][i]) ELSE step[r][i]]]
    /\ UNCHANGED <<run, persisted, agentAsset, decided, hookCalls, lock, history>>

\* It then selects the oldest active runs FOR UPDATE SKIP LOCKED and keeps
\* what it read of them for the whole batch.
DrainSelect(s) ==
    /\ sess[s].pc = "select"
    /\ LET eligible == {r \in Runs : run[r].status \in Active /\ lock[r] = Nobody}
           chosen == {r \in eligible :
                         Cardinality({q \in eligible : q < r}) < BatchLimit}
       IN /\ lock' = [r \in Runs |-> IF r \in chosen THEN s ELSE lock[r]]
          /\ Set(s, NextRun([Idle EXCEPT !.batch = chosen, !.snap = run]))
    /\ UNCHANGED <<rowVars, bounds, history>>

\* The expired leases of this run; a commit if there were any, which writes the
\* outputs of a running run as the session knows them.  After a resume the step
\* rows are already in memory and are not read again.
RecoverRun(s) ==
    /\ sess[s].pc = "recover"
    /\ LET me == sess[s]
           r == me.run
           lost == {i \in Steps : Expired(step[r][i])}
           held == IF me.resumed THEN me.cache ELSE step[r]
           pending == [i \in Steps |-> IF i \in lost THEN Recovered(held[i]) ELSE held[i]]
           touched == lost # {} /\ me.snap[r].status = "running"
       IN /\ step' = [step EXCEPT ![r] = [i \in Steps |->
                IF i \notin lost THEN step[r][i]
                ELSE [step[r][i] EXCEPT
                        !.status = Flush(@, held[i].status, "pending"),
                        !.owner = Flush(@, held[i].owner, Nobody),
                        !.lease = Flush(@, held[i].lease, "none"),
                        !.out = held[i].out]]]
          /\ touched => MayWrite(s, r)
          /\ run' = [run EXCEPT
                ![r].findings = IF touched THEN me.snap[r].findings ELSE @,
                ![r].proposals = IF touched THEN me.snap[r].proposals ELSE @]
          /\ IF lost = {} THEN UNCHANGED lock ELSE Unlock(s)
          /\ Set(s, [me EXCEPT !.pc = "load",
                               !.cache = IF me.resumed THEN pending ELSE @])
    /\ UNCHANGED <<persisted, agentAsset, decided, hookCalls, bounds, history>>

LoadSteps(s) ==
    /\ sess[s].pc = "load"
    /\ Set(s, [sess[s] EXCEPT !.pc = "mark",
                 !.cache = IF sess[s].resumed THEN @ ELSE step[sess[s].run]])
    /\ UNCHANGED <<rowVars, lock, bounds, history>>

\* status = "running" and the commit that ends the drain's row locks, those of
\* the rest of its batch included.
MarkRunning(s) ==
    /\ sess[s].pc = "mark"
    /\ LET me == sess[s]
           r == me.run
       IN /\ me.snap[r].status # "running" => MayWrite(s, r)
          /\ run' = [run EXCEPT ![r].status = Flush(@, me.snap[r].status, "running")]
          /\ Set(s, [me EXCEPT !.pc = "plan", !.findings = me.snap[r].findings,
                               !.proposals = me.snap[r].proposals])
    /\ Unlock(s)
    /\ UNCHANGED <<step, persisted, agentAsset, decided, hookCalls, bounds, history>>

-----------------------------------------------------------------------------
(* The execution loop *)

\* Lease every ready step and commit: the row no longer looks pending.
LeaseReady(s) ==
    /\ sess[s].pc = "plan" /\ sess[s].verdict = "succeeded"
    /\ LET me == sess[s]
           r == me.run
           ready == Ready(me.cache)
           leased == [i \in Steps |-> Leased(me.cache[i], s)]
       IN /\ ready # {}
          /\ step' = [step EXCEPT ![r] = [i \in Steps |->
                IF i \in ready THEN [leased[i] EXCEPT !.out = step[r][i].out]
                ELSE step[r][i]]]
          /\ Set(s, [me EXCEPT !.pc = "exec",
                !.cache = [i \in Steps |-> IF i \in ready THEN leased[i] ELSE me.cache[i]],
                !.work = [i \in Steps |-> IF i \in ready THEN [NoWork EXCEPT !.stage = "leased"]
                                          ELSE NoWork]])
    /\ UNCHANGED <<run, persisted, agentAsset, decided, hookCalls, lock, bounds, history>>

Working(s, i, stage) == sess[s].pc = "exec" /\ sess[s].work[i].stage = stage

Finished(s, i, status, out) ==
    Set(s, [sess[s] EXCEPT !.work[i] = [stage |-> "done", status |-> status, out |-> out]])

Started(s, i) == execs' = [execs EXCEPT ![sess[s].run][i] = @ + 1]

\* The id a step generates now (uuid4): no other execution generates it.
FreshId(s, i) == execs[sess[s].run][i] + 1

\* Faulty variant: the gate ignores inputs.approved.
UngatedOutcomes(kind, manual) ==
    IF kind = "hook.in" THEN {"succeeded", "failed"} ELSE {"succeeded"}

\* The statuses _execute_step may return for the in-process step types.
Outcomes(kind, manual) ==
    IF kind = "hook.in" THEN {"succeeded", "failed"}
    ELSE IF kind = "gate.human" /\ manual THEN {"awaiting_approval"}
    ELSE {"succeeded"}

ExecuteStep(s, i) ==
    /\ Working(s, i, "leased")
    /\ Kind[i] \notin {"agent", "hook.out"}
    /\ LET me == sess[s]
           out == CASE Kind[i] = "finding.emit" -> LatestOut(me.cache, "agent")
                    [] Kind[i] = "change.propose" ->
                         IF LatestOut(me.cache, "finding.emit") = 0 THEN 0 ELSE FreshId(s, i)
                    [] OTHER -> 0
       IN \E status \in Outcomes(Kind[i], me.snap[me.run].manual) : Finished(s, i, status, out)
    /\ Started(s, i)
    /\ UNCHANGED <<rowVars, lock, bounds, sends, completed, approved, announced>>

\* The sandboxed agent reports findings, reports none, or fails.
AgentReports(s, i) ==
    /\ \/ \E out \in {0, FreshId(s, i)} : Finished(s, i, "succeeded", out)
       \/ Finished(s, i, "failed", 0)
    /\ Started(s, i)
    /\ UNCHANGED <<run, step, persisted, decided, hookCalls, lock, bounds,
                   sends, completed, approved, announced>>

\* The agent's workflow_agent asset is looked up; the agent runs if it is there.
AgentFound(s, i) ==
    /\ Working(s, i, "leased") /\ Kind[i] = "agent"
    /\ agentAsset[sess[s].run][i] = "committed"
    /\ AgentReports(s, i)
    /\ UNCHANGED agentAsset

AgentMissing(s, i) ==
    /\ Working(s, i, "leased") /\ Kind[i] = "agent"
    /\ agentAsset[sess[s].run][i] # "committed"
    /\ Set(s, [sess[s] EXCEPT !.work[i].stage = "inserting"])
    /\ UNCHANGED <<rowVars, lock, bounds, history>>

\* Otherwise it is inserted under its unique urn: the insert waits for another
\* session's uncommitted one ...
AgentInserted(s, i) ==
    /\ Working(s, i, "inserting")
    /\ agentAsset[sess[s].run][i] = Nobody
    /\ agentAsset' = [agentAsset EXCEPT ![sess[s].run][i] = s]
    /\ AgentReports(s, i)

\* ... and fails once that is committed: the request ends with an error.
AgentConflict(s, i) ==
    /\ Working(s, i, "inserting")
    /\ agentAsset[sess[s].run][i] = "committed"
    /\ Set(s, Idle) /\ Unlock(s) /\ Assets(s, Nobody)
    /\ UNCHANGED <<run, step, persisted, decided, hookCalls, bounds, history>>

\* _existing_successful_call; faulty variant: no look at earlier calls.
NeverSent(r, key) == FALSE
AlreadySent(r, key) == key \in hookCalls[r]

\* hook.out, in the live-dispatch case: nothing to send without a proposal, a
\* replay if the proposal's idempotency key has a succeeded call, else a
\* request leaves the system.
HookSend(s, i) ==
    /\ Working(s, i, "leased") /\ Kind[i] = "hook.out"
    /\ LET me == sess[s]
           key == LatestOut(me.cache, "change.propose")
       IN IF key = 0 \/ AlreadySent(me.run, key)
          THEN /\ Finished(s, i, "succeeded", 0)
               /\ UNCHANGED sends
          ELSE /\ Set(s, [me EXCEPT !.work[i].stage = "sent"])
               /\ sends' = [sends EXCEPT ![me.run] = @ + 1]
    /\ Started(s, i)
    /\ UNCHANGED <<rowVars, lock, bounds, completed, approved, announced>>

\* The hook_call row is committed, and with it whatever the session flushed.
HookSave(s, i) ==
    /\ Working(s, i, "sent")
    /\ \/ /\ Finished(s, i, "succeeded", 0)
          /\ hookCalls' = [hookCalls EXCEPT ![sess[s].run] =
                               @ \cup {LatestOut(sess[s].cache, "change.propose")}]
       \/ /\ Finished(s, i, "failed", 0)
          /\ UNCHANGED hookCalls
    /\ Assets(s, "committed")
    /\ UNCHANGED <<run, step, persisted, decided, lock, bounds, history>>

\* The steps that put something of a kind in their outputs; faulty variant:
\* proposals are not collected.
FindingsMade(work, kind) ==
    {i \in Steps : work[i].stage = "done" /\ kind # "change.propose"
                   /\ Kind[i] = kind /\ work[i].out # 0}
Made(work, kind) ==
    {i \in Steps : work[i].stage = "done" /\ Kind[i] = kind /\ work[i].out # 0}

\* final_status after a batch; faulty variant: failures are not fatal.
IgnoredFailure(work) == "succeeded"
Verdict(work) ==
    LET bad == {i \in Steps : work[i].stage = "done" /\ work[i].status # "succeeded"}
    IN IF bad = {} THEN "succeeded" ELSE work[Last(bad)].status

\* All leased steps have a result: write their rows, keep emitted findings and
\* proposals in memory, record policy decisions, commit.
RecordResults(s) ==
    /\ sess[s].pc = "exec"
    /\ \A i \in Steps : sess[s].work[i].stage \in {"none", "done"}
    /\ LET me == sess[s]
           r == me.run
           todo == {i \in Steps : me.work[i].stage = "done"}
           Result(row, i) == [row EXCEPT !.status = me.work[i].status, !.owner = Nobody,
                                         !.lease = "none", !.out = me.work[i].out]
       IN /\ step' = [step EXCEPT ![r] = [i \in Steps |->
                IF i \in todo THEN Result(step[r][i], i) ELSE step[r][i]]]
          /\ decided' = [decided EXCEPT ![r] =
                            @ \cup {i \in todo : Kind[i] = "gate.policy"}]
          /\ completed' = [completed EXCEPT ![r] = @ \cup {i \in todo : me.work[i].status = "succeeded"}]
          /\ Set(s, [me EXCEPT !.pc = "plan",
                !.cache = [i \in Steps |->
                    IF i \in todo THEN Result(me.cache[i], i) ELSE me.cache[i]],
                !.work = [i \in Steps |-> NoWork],
                !.findings = @ \cup {me.work[i].out : i \in Made(me.work, "finding.emit")},
                !.proposals = @ \cup
                    {[id |-> me.work[i].out,
                      finding |-> LatestOut(me.cache, "finding.emit")] :
                        i \in Made(me.work, "change.propose")},
                !.verdict = Verdict(me.work)])
    /\ Assets(s, "committed")
    /\ UNCHANGED <<run, persisted, hookCalls, lock, bounds, execs, sends, approved, announced>>

\* The status a session gives the run when it has nothing more to execute;
\* faulty variant: unfinished steps keep even a failed run running.
RunningWhileUnfinished(me) ==
    IF \E i \in Steps : me.cache[i].status \in {"pending", "running"}
    THEN "running" ELSE me.verdict
FinalStatus(me) ==
    IF me.verdict = "succeeded" /\ \E i \in Steps : me.cache[i].status \in {"pending", "running"}
    THEN "running" ELSE me.verdict

Finalize(s) ==
    /\ sess[s].pc = "plan"
    /\ sess[s].verdict # "succeeded" \/ Ready(sess[s].cache) = {}
    /\ LET me == sess[s]
           r == me.run
           final == FinalStatus(me)
           loaded == <<me.snap[r].findings, me.snap[r].proposals>>
           outputs == Flush(<<run[r].findings, run[r].proposals>>, loaded,
                            <<me.findings, me.proposals>>)
           row == [run[r] EXCEPT !.status = Flush(@, "running", final),
                                 !.findings = outputs[1], !.proposals = outputs[2]]
           known == persisted[r].findings \cup me.findings
       IN /\ final # "running" \/ <<me.findings, me.proposals>> # loaded => MayWrite(s, r)
          /\ run' = [run EXCEPT ![r] = row]
          /\ step' = [step EXCEPT ![r] = [i \in Steps |->
                IF final = "failed" /\ me.cache[i].status = "pending"
                THEN [step[r][i] EXCEPT !.status = "blocked"] ELSE step[r][i]]]
          /\ persisted' = [persisted EXCEPT ![r] =
                [findings |-> known,
                 proposals |-> @.proposals \cup {p \in me.proposals : p.finding \in known}]]
          /\ Set(s, [me EXCEPT !.pc = "refresh"])
    /\ UNCHANGED <<agentAsset, decided, hookCalls, lock, bounds, history>>

\* What is published is the run row as it is read again after the commit.
Refresh(s) ==
    /\ sess[s].pc = "refresh"
    /\ Set(s, [sess[s] EXCEPT !.pc = "publish", !.snap[sess[s].run] = run[sess[s].run]])
    /\ UNCHANGED <<rowVars, lock, bounds, history>>

\* Faulty variant: the event carries the loop's verdict, not the run's status.
VerdictStatus(me) == me.verdict
FinishedStatus(me) == me.snap[me.run].status

\* run.started, the step events and run.finished go out.
Publish(s) ==
    /\ sess[s].pc = "publish"
    /\ LET me == sess[s]
       IN /\ announced' = [announced EXCEPT ![me.run] = @ \cup {FinishedStatus(me)}]
          /\ Set(s, NextRun(me))
    /\ UNCHANGED <<rowVars, lock, bounds, execs, sends, completed, approved>>

-----------------------------------------------------------------------------
(* Resuming and cancelling *)

ResumeLookup(s, r) ==
    /\ run[r].status = "awaiting_approval"
    /\ Request(s, [Idle EXCEPT !.pc = "rload", !.run = r, !.snap[r] = run[r]])
    /\ UNCHANGED <<rowVars, lock, history>>

ResumeLoad(s) ==
    /\ sess[s].pc = "rload"
    /\ Set(s, [sess[s] EXCEPT !.pc = "rdecide", !.cache = step[sess[s].run], !.resumed = TRUE])
    /\ UNCHANGED <<rowVars, lock, bounds, history>>

Awaiting(c) == {i \in Steps : c[i].status = "awaiting_approval"}

\* No step is waiting in the rows read: the run is closed as succeeded.
ResumeNothing(s) ==
    /\ sess[s].pc = "rdecide" /\ Awaiting(sess[s].cache) = {}
    /\ MayWrite(s, sess[s].run)
    /\ run' = [run EXCEPT ![sess[s].run].status = "succeeded"]
    /\ Set(s, Idle)
    /\ UNCHANGED <<step, persisted, agentAsset, decided, hookCalls, lock, bounds, history>>

Approve(s) ==
    /\ sess[s].pc = "rdecide" /\ Awaiting(sess[s].cache) # {}
    /\ MayWrite(s, sess[s].run)
    /\ LET me == sess[s]
           r == me.run
           gate == First(Awaiting(me.cache))
           Approved(row, i) ==
               [row EXCEPT !.status = IF i = gate THEN "succeeded"
                                      ELSE IF me.cache[i].status = "blocked" THEN "pending"
                                      ELSE @]
       IN /\ step' = [step EXCEPT ![r] = [i \in Steps |-> Approved(step[r][i], i)]]
          /\ run' = [run EXCEPT ![r].status = "running"]
          /\ Set(s, [me EXCEPT !.pc = "recover", !.snap[r].status = "running",
                               !.cache = [i \in Steps |-> Approved(me.cache[i], i)]])
          /\ approved' = approved \cup {r}
          /\ completed' = [completed EXCEPT ![r] = @ \cup {gate}]
    /\ UNCHANGED <<persisted, agentAsset, decided, hookCalls, lock, bounds,
                   execs, sends, announced>>

Reject(s) ==
    /\ sess[s].pc = "rdecide" /\ Awaiting(sess[s].cache) # {}
    /\ MayWrite(s, sess[s].run)
    /\ LET r == sess[s].run
           gate == First(Awaiting(sess[s].cache))
       IN /\ step' = [step EXCEPT ![r][gate].status = "cancelled"]
          /\ run' = [run EXCEPT ![r].status = "cancelled"]
          /\ Set(s, [sess[s] EXCEPT !.pc = "publish", !.snap[r].status = "cancelled"])
    /\ UNCHANGED <<persisted, agentAsset, decided, hookCalls, lock, bounds, history>>

\* POST :cancel marks the run whatever its status and whoever is executing it.
Cancel(r) ==
    /\ cancels < MaxCancels
    /\ run[r].status # "absent" /\ lock[r] = Nobody
    /\ run' = [run EXCEPT ![r].status = "cancelled"]
    /\ announced' = [announced EXCEPT ![r] = @ \cup {"cancelled"}]
    /\ cancels' = cancels + 1
    /\ UNCHANGED <<step, persisted, agentAsset, decided, hookCalls, lock, sess, crashes,
                   overruns, requests, execs, sends, completed, approved>>

-----------------------------------------------------------------------------
(* Faults and time *)

\* The API process dies, or an exception ends the request: the session's
\* memory and its open transaction are gone, its leases stay.
Crash(s) ==
    /\ crashes < MaxCrashes
    /\ sess[s].pc # "idle"
    /\ Set(s, Idle) /\ Unlock(s) /\ Assets(s, Nobody)
    /\ crashes' = crashes + 1
    /\ UNCHANGED <<run, step, persisted, decided, hookCalls, overruns, cancels, requests, history>>

Held(r, i) == \E s \in Sessions : sess[s].run = r /\ sess[s].work[i].stage # "none"

\* lease_expires_at passes for a step nobody executes any more.
LeaseLapse(r, i) ==
    /\ step[r][i].lease = "live" /\ ~Held(r, i)
    /\ step' = [step EXCEPT ![r][i].lease = "expired"]
    /\ UNCHANGED <<run, persisted, agentAsset, decided, hookCalls, lock, sess, bounds, history>>

\* ... or for one still executing: nothing renews a lease during execution.
LeaseOverrun(r, i) ==
    /\ overruns < MaxOverruns
    /\ step[r][i].lease = "live" /\ Held(r, i)
    /\ step' = [step EXCEPT ![r][i].lease = "expired"]
    /\ overruns' = overruns + 1
    /\ UNCHANGED <<run, persisted, agentAsset, decided, hookCalls, lock, sess,
                   crashes, cancels, requests, history>>

-----------------------------------------------------------------------------
(* Specification *)

\* The steps a request takes by itself once it was made.
StepWork(s) ==
    \E i \in Steps : \/ ExecuteStep(s, i) \/ HookSend(s, i) \/ HookSave(s, i)
                    \/ AgentFound(s, i) \/ AgentMissing(s, i)
                    \/ AgentInserted(s, i) \/ AgentConflict(s, i)

Advance(s) ==
    \/ Lookup(s) \/ DrainSelect(s) \/ RecoverRun(s) \/ LoadSteps(s) \/ MarkRunning(s)
    \/ LeaseReady(s) \/ StepWork(s) \/ RecordResults(s) \/ Finalize(s)
    \/ Refresh(s) \/ Publish(s)
    \/ ResumeLoad(s) \/ ResumeNothing(s) \/ Approve(s) \/ Reject(s)

Next ==
    \/ \E s \in Sessions : \/ Advance(s) \/ DrainRecover(s) \/ Crash(s)
                           \/ \E r \in Runs : StartSync(s, r) \/ ResumeLookup(s, r)
    \/ \E r \in Runs : Enqueue(r) \/ Cancel(r)
    \/ \E r \in Runs, i \in Steps : LeaseLapse(r, i) \/ LeaseOverrun(r, i)

Spec == Init /\ [][Next]_vars

\* Requests run to their end, the worker keeps polling and time passes.  Nobody
\* has to start, approve or cancel anything.
Fairness ==
    /\ \A s \in Sessions : WF_vars(Advance(s)) /\ WF_vars(DrainRecover(s))
    /\ \A r \in Runs, i \in Steps : WF_vars(LeaseLapse(r, i))

FairSpec == Spec /\ Fairness

-----------------------------------------------------------------------------
(* Properties *)

\* An external write for a run leaves the system only after every policy gate
\* before the hook has a policy_decision row and, when the run's inputs demand a
\* human decision, after a resume request approved the run: whatever sessions
\* race, crash or re-execute steps (HookSend).
ExternalWritesGated ==
    \A r \in Runs : sends[r] > 0 =>
        \E h \in Steps :
            /\ Kind[h] = "hook.out"
            /\ \A i \in 1..(h - 1) :
                  /\ Kind[i] = "gate.policy" => i \in decided[r]
                  /\ Kind[i] = "gate.human" /\ run[r].manual => r \in approved

\* No step is ever started before each step ahead of it was recorded as
\* succeeded at least once, however stale the rows its session works on.
StartedAfterPredecessors ==
    \A r \in Runs : \A i \in Steps : execs[r][i] > 0 => 1..(i - 1) \subseteq completed[r]

\* A step row that says running carries an owner and a lease that can expire:
\* otherwise no drain would ever pick it up again (recover_expired_step_leases
\* skips rows without lease_expires_at).  It holds for templates without a human
\* gate, and where requests do not overlap: a resume that recovers a step from rows
\* it read before another session leased it clears the lease and leaves the status.
RunningHasLease ==
    \A r \in Runs : \A i \in Steps : step[r][i].status = "running" =>
        step[r][i].owner # Nobody /\ step[r][i].lease # "none"

\* With one session at a time, a step recorded as succeeded is never put back,
\* leased or executed again, whatever crashes.
CompletedStepStays ==
    [][\A r \in Runs : \A i \in Steps :
         step[r][i].status = "succeeded" =>
            step'[r][i].status = "succeeded" /\ execs'[r][i] = execs[r][i]]_vars

\* With one session at a time, attempt_count never falls behind the executions
\* that happened.
AttemptsCoverExecutions ==
    \A r \in Runs : \A i \in Steps : execs[r][i] <= step[r][i].attempts

\* With one session at a time, once a hook_call row records a successful write
\* for a run, the run never writes outside again: a re-executed hook.out finds the
\* same idempotency key, because no earlier step is executed again either.
RecordedCallIsFinal ==
    [][\A r \in Runs : hookCalls[r] # {} => sends'[r] = sends[r]]_vars

\* A run that says succeeded has only succeeded steps.
SuccessIsComplete ==
    \A r \in Runs : run[r].status = "succeeded" =>
        \A i \in Steps : step[r][i].status = "succeeded"

\* A run that says succeeded has a row for the finding and for the proposal its
\* steps emitted.
EmittedIsPersisted ==
    \A r \in Runs : run[r].status = "succeeded" => \A i \in Steps : step[r][i].out # 0 =>
        /\ Kind[i] = "finding.emit" => step[r][i].out \in persisted[r].findings
        /\ Kind[i] = "change.propose" =>
              \E p \in persisted[r].proposals : p.id = step[r][i].out

\* A cancelled run stays cancelled.
CancelIsFinal ==
    [][\A r \in Runs : run[r].status = "cancelled" => run'[r].status = "cancelled"]_vars

\* A run with a human gate that has to pause succeeds only if it was approved.
SuccessNeedsApproval ==
    \A r \in Runs : run[r].status = "succeeded" /\ run[r].manual /\
        (\E i \in Steps : Kind[i] = "gate.human") => r \in approved

\* Two sessions execute the same step at once only if a lease had expired.
LeaseIsExclusive ==
    overruns = 0 =>
        \A s, t \in Sessions : s # t /\ sess[s].run = sess[t].run =>
            \A i \in Steps : sess[s].work[i].stage = "none" \/ sess[t].work[i].stage = "none"

\* No step stays running: if the session that executes it dies, or its request fails
\* because another one inserts the agent's asset, its lease lapses and a drain puts
\* the step back (recover_expired_step_leases).
LeasesRecovered ==
    \A r \in Runs : \A i \in Steps :
        step[r][i].status = "running" ~> step[r][i].status # "running"

\* Every run that is queued or running settles: it finishes or waits for approval.
RunsSettle ==
    \A r \in Runs : run[r].status \in Active ~> run[r].status \notin Active

\* A status a run settles in for good is published as a workflow.run.finished
\* event: finalizing, re-reading and publishing are separate transactions.
SettledIsAnnounced ==
    \A r \in Runs : \A st \in RunStatus \ {"absent", "queued", "running"} :
        <>[](run[r].status = st) => <>(st \in announced[r])

-----------------------------------------------------------------------------
(* What makes StartedAfterPredecessors and ExternalWritesGated inductive *)

\* A row of step i of run r, stored or in a session's memory, is backed by what
\* happened: its status was earned after every earlier step had completed.
RowBacked(row, r, i) ==
    /\ row.status = "succeeded" => i \in completed[r]
    /\ row.status \in {"succeeded", "awaiting_approval"} => 1..(i - 1) \subseteq completed[r]
    /\ row.status = "awaiting_approval" => Kind[i] = "gate.human"

RowsBacked == \A r \in Runs : \A i \in Steps : RowBacked(step[r][i], r, i)

\* The same for what a session holds of its run: rows it loaded, however stale,
\* and results it has not recorded yet.
SessionBacked(me) ==
    me.run # 0 => \A i \in Steps :
        /\ RowBacked(me.cache[i], me.run, i)
        /\ me.work[i].stage # "none" => 1..(i - 1) \subseteq completed[me.run]
        /\ me.work[i].stage \in {"inserting", "sent"} => Kind[i] # "gate.human"
        /\ me.work[i].stage = "done" =>
              /\ me.work[i].status = "awaiting_approval" => Kind[i] = "gate.human"
              /\ me.work[i].status = "succeeded" /\ Kind[i] = "gate.human"
                    => ~run[me.run].manual

\* A session that is past its selection works on a run that exists, and what it
\* read of the inputs of its runs is what they are.
SessionOnRun(me) ==
    /\ me.pc \notin {"idle", "select"} => me.run # 0
    /\ \A r \in Runs : r = me.run \/ r \in me.batch =>
          /\ run[r].status # "absent"
          /\ (me.pc = "lookup" /\ r = me.run) \/ me.snap[r].manual = run[r].manual

\* Completed steps are a prefix of the template and their gates were honoured.
CompletedGated ==
    \A r \in Runs :
        /\ run[r].status = "absent" => completed[r] = {}
        /\ \A i \in completed[r] :
              /\ 1..(i - 1) \subseteq completed[r]
              /\ Kind[i] = "gate.policy" => i \in decided[r]
              /\ Kind[i] = "gate.human" /\ run[r].manual => r \in approved

SendsBacked ==
    \A r \in Runs : sends[r] > 0 =>
        \E h \in Steps : Kind[h] = "hook.out" /\ 1..(h - 1) \subseteq completed[r]

\* Whatever a session has in memory was true once: rows and results say
\* succeeded only for steps whose predecessors all completed, with policy
\* decisions recorded and approvals given (process_workflow_run, resume).
StatusesEarned ==
    /\ RowsBacked /\ CompletedGated /\ SendsBacked /\ StartedAfterPredecessors
    /\ \A s \in Sessions : SessionBacked(sess[s]) /\ SessionOnRun(sess[s])

-----------------------------------------------------------------------------
(* Refinement of the abstract specification *)

createdBar == {r \in Runs : run[r].status # "absent"}
manualBar == {r \in Runs : run[r].manual}
startedBar == [r \in Runs |-> {i \in Steps : execs[r][i] > 0}]

Governed == INSTANCE GovernedRuns WITH
    created <- createdBar, manual <- manualBar, started <- startedBar

\* What the transactions of all sessions do to a run is, step by step, an
\* execution of its template in order: nothing starts, completes, is approved or
\* sent that the abstract run does not allow, however stale the rows are.
ImplementsGovernedRuns == Governed!GSpec

=============================================================================
