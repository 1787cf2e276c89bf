-------------------------- MODULE OperationsProofs --------------------------
(***************************************************************************)
(* Proofs about the smaller parts around the runtime: launches of          *)
(* sandboxes, schedules, streams of model providers, agent steps and the   *)
(* demo simulator; and that a behaviour of all parts together is one of    *)
(* each, so that what is proved of a part holds of the whole.              *)
(***************************************************************************)
EXTENDS MCOperations, ReviewDispatchProofs, McpOAuthProofs, WorkflowGraphProofs,
        JsonStackProofs, FiniteSetTheorems, TLAPS

-----------------------------------------------------------------------------
(* SandboxLaunch *)

LaunchInv == LaunchTypeOK /\ LaunchSound

Launchers == [pc : {"idle", "waiting", "done"}, answer : Answers]
Threads == [pc : {"idle", "launch", "cli", "create", "start", "wait", "logs", "delete",
                  "reply", "ended"}, answer : Answers]
Containers == [pc : {"none", "created", "running", "exited", "removed"}, code : Codes]

LEMMA AnswersTyped ==
    /\ NoAnswer \in Answers /\ NoAnswer.mode # "docker"
    /\ Replay \in Answers /\ Replay.mode # "docker"
    /\ \A code \in Codes : /\ Docker(code) \in Answers
                           /\ Docker(code).mode = "docker" /\ Docker(code).exit_code = code
BY DEF NoAnswer, Replay, Docker, Answers, Codes

\* What the helpers of the actions write.
LEMMA LaunchHelpers ==
    ASSUME thread \in Threads, container \in Containers
    PROVE  /\ \A step : Thread(step) => thread'.pc = step /\ thread'.answer = thread.answer
           /\ \A answer : Prepare(answer) => thread'.pc = "reply" /\ thread'.answer = answer
           /\ \A state : Contain(state) => container'.pc = state /\ container'.code = container.code
BY DEF Threads, Containers, Thread, Prepare, Contain

LEMMA LaunchInitInv == LaunchInit => LaunchInv
BY AnswersTyped DEF LaunchInit, LaunchInv, LaunchTypeOK, LaunchSound, Prepared, AnswerTaken,
   AnswerTrue, CleanedUp, Codes, NoAnswer, Answers

LEMMA LaunchTypeStep == LaunchTypeOK /\ [LaunchNext]_launchVars => LaunchTypeOK'
<1> SUFFICES ASSUME LaunchTypeOK, [LaunchNext]_launchVars PROVE LaunchTypeOK'
    OBVIOUS
<1>1. /\ launcher \in Launchers /\ thread \in Threads /\ container \in Containers
      /\ refusal \subseteq {"wait", "delete", "run"}
    BY DEF LaunchTypeOK, Launchers, Threads, Containers
<1>2. \A step \in {"idle", "launch", "cli", "create", "start", "wait", "logs", "delete", "reply",
                   "ended"} : Thread(step) => thread' \in Threads
    BY <1>1 DEF Thread, Threads
<1>3. \A answer \in Answers : Prepare(answer) => thread' \in Threads
    BY DEF Prepare, Threads
<1>4. \A state \in {"none", "created", "running", "exited", "removed"} :
        Contain(state) => container' \in Containers
    BY <1>1 DEF Contain, Containers
<1>5. \A answer \in Answers : /\ [pc |-> "logs", answer |-> answer] \in Threads
                              /\ [pc |-> "ended", answer |-> answer] \in Threads
                              /\ [pc |-> "done", answer |-> answer] \in Launchers
    BY DEF Threads, Launchers
<1>6. \A code \in Codes : /\ [pc |-> "removed", code |-> code] \in Containers
                          /\ [pc |-> "exited", code |-> code] \in Containers
    BY DEF Containers
<1>7. 0 \in Codes /\ 1 \in Codes /\ container.code \in Codes /\ thread.answer \in Answers
      /\ container.pc \in {"none", "created", "running", "exited", "removed"}
    BY <1>1 DEF Codes, Containers, Threads
<1> USE <1>1, <1>2, <1>3, <1>4, <1>5, <1>6, <1>7, AnswersTyped
<1> SUFFICES /\ launcher' \in Launchers /\ thread' \in Threads /\ container' \in Containers
             /\ refusal' \subseteq {"wait", "delete", "run"}
    BY DEF LaunchTypeOK, Launchers, Threads, Containers
<1>21. \A step, next, state :
        /\ Done(step, next, state)
        /\ next \in {"start", "wait", "delete", "reply"}
        /\ state \in {"none", "created", "running", "exited", "removed"}
        => thread' \in Threads /\ container' \in Containers /\ UNCHANGED <<launcher, refusal>>
    BY DEF Done
<1>22. \A step, state :
        /\ Lost(step, state)
        /\ state \in {"none", "created", "running", "exited", "removed"}
        => thread' \in Threads /\ container' \in Containers /\ UNCHANGED <<launcher, refusal>>
    <2> SUFFICES ASSUME NEW step, NEW state, Lost(step, state),
                        state \in {"none", "created", "running", "exited", "removed"}
                 PROVE  thread' \in Threads /\ container' \in Containers
                        /\ UNCHANGED <<launcher, refusal>>
        OBVIOUS
    <2>1. Prepare(Replay) \/ thread' = [pc |-> "ended", answer |-> NoAnswer]
        BY DEF Lost
    <2>2. thread' \in Threads
        <3>1. CASE Prepare(Replay)
            BY <3>1
        <3>2. CASE thread' = [pc |-> "ended", answer |-> NoAnswer]
            BY <3>2
        <3> QED
            BY <2>1, <3>1, <3>2
    <2>3. container' \in Containers
        BY DEF Lost
    <2> QED
        BY <2>2, <2>3 DEF Lost
<1>23. \A step : Refuse(step) =>
        thread' \in Threads /\ container' \in Containers /\ UNCHANGED <<launcher, refusal>>
    BY DEF Refuse
<1>8. CASE PostFails
    BY <1>8 DEF PostFails
<1>9. CASE _launch_sandbox
    BY <1>9 DEF _launch_sandbox, Launchers
<1>10. CASE ClientTimeout
    BY <1>10 DEF ClientTimeout
<1>11. CASE do_POST
    BY <1>11 DEF do_POST
<1>12. CASE launch
    BY <1>12 DEF launch
<1>13. CASE DockerRun
    BY <1>13 DEF DockerRun, Codes
<1>14. CASE Create
    BY <1>14, <1>21, <1>22, <1>23 DEF Create
<1>15. CASE Start
    BY <1>15, <1>21, <1>22, <1>23 DEF Start
<1>16. CASE Wait
    BY <1>16, <1>22 DEF Wait, Codes
<1>17. CASE Logs
    BY <1>17, <1>21, <1>22 DEF Logs
<1>18. CASE Delete
    BY <1>18, <1>21, <1>22 DEF Delete
<1>19. CASE ContainerExits
    <2>1. PICK code \in Codes : container' = [pc |-> "exited", code |-> code]
        BY <1>19 DEF ContainerExits
    <2>2. container' \in Containers
        BY <2>1
    <2> QED
        BY <1>19, <2>2 DEF ContainerExits
<1>20. CASE UNCHANGED launchVars
    BY <1>20 DEF launchVars
<1> QED
    BY <1>8, <1>9, <1>10, <1>11, <1>12, <1>13, <1>14, <1>15, <1>16, <1>17, <1>18, <1>19, <1>20
       DEF LaunchNext

LEMMA LaunchSoundStep == LaunchInv /\ [LaunchNext]_launchVars => LaunchSound'
<1> SUFFICES ASSUME LaunchInv, [LaunchNext]_launchVars PROVE LaunchSound'
    OBVIOUS
<1>1. /\ launcher \in Launchers /\ thread \in Threads /\ container \in Containers
    BY DEF LaunchInv, LaunchTypeOK, Launchers, Threads, Containers
<1>2. Prepared /\ AnswerTaken /\ AnswerTrue /\ CleanedUp
    BY DEF LaunchInv, LaunchSound
<1>3. container.code \in Codes
    BY <1>1 DEF Containers
<1> USE <1>2, AnswersTyped, LaunchHelpers, <1>1
<1> USE DEF LaunchSound, Prepared, AnswerTaken, AnswerTrue, CleanedUp
<1>8. CASE PostFails
    BY <1>8 DEF PostFails
<1>9. CASE _launch_sandbox
    BY <1>9 DEF _launch_sandbox, Launchers
<1>10. CASE ClientTimeout
    BY <1>10 DEF ClientTimeout
<1>11. CASE do_POST
    BY <1>11 DEF do_POST
<1>12. CASE launch
    BY <1>12 DEF launch
<1>13. CASE DockerRun
    BY <1>13 DEF DockerRun, Codes
<1>14. CASE Create
    BY <1>14 DEF Create, Done, Refuse, Lost
<1>15. CASE Start
    BY <1>15 DEF Start, Done, Refuse, Lost
<1>16. CASE Wait
    BY <1>3, <1>16 DEF Wait, Lost, Codes
<1>17. CASE Logs
    BY <1>17 DEF Logs, Done, Lost
<1>18. CASE Delete
    BY <1>18 DEF Delete, Done, Lost
<1>19. CASE ContainerExits
    BY <1>19 DEF ContainerExits
<1>20. CASE UNCHANGED launchVars
    BY <1>20 DEF launchVars
<1> QED
    BY <1>8, <1>9, <1>10, <1>11, <1>12, <1>13, <1>14, <1>15, <1>16, <1>17, <1>18, <1>19, <1>20
       DEF LaunchNext

\* Whatever times out, breaks or is refused, an answer that was not made up is the
\* container's, and nothing of it is left: orchestrator.py and _launch_sandbox.
THEOREM LaunchTheorem == LaunchSpec => [](LaunchTypeOK /\ LaunchSound)
<1>1. LaunchInv /\ [LaunchNext]_launchVars => LaunchInv'
    BY LaunchTypeStep, LaunchSoundStep DEF LaunchInv
<1>2. LaunchSpec => []LaunchInv
    BY <1>1, LaunchInitInv, PTL DEF LaunchSpec
<1> QED
    BY <1>2, PTL DEF LaunchInv

\* The exit code the API stores is the one the command ended with, unless the answer
\* is a replay or the daemon refused: launch in orchestrator.py.
THEOREM ExitCodeTheorem == LaunchSpec => []ExitCodeIsTheContainers
<1>1. LaunchSound => ExitCodeIsTheContainers
    BY DEF LaunchSound, AnswerTaken, AnswerTrue, ExitCodeIsTheContainers
<1> QED
    BY <1>1, LaunchTheorem, PTL

\* No launch that reports a result leaves a container behind, unless the daemon
\* refused to remove it: _launch_with_socket in orchestrator.py.
THEOREM LeftoverTheorem == LaunchSpec => []LeftoverIsReplayed
<1>1. LaunchSound => LeftoverIsReplayed
    BY DEF LaunchSound, CleanedUp, LeftoverIsReplayed
<1> QED
    BY <1>1, LaunchTheorem, PTL

-----------------------------------------------------------------------------
(* WorkflowSchedules *)

ScheduleServing == [pc : {"idle", "configure", "patch", "tick"}, w : Workflows,
            was : Triggers, trigger : Triggers, new : Config, rows : [Workflows -> Config],
            left : SUBSET Workflows, created : 0..TickLimit, at : 0..MaxNow]

ScheduleInv == ScheduleTypeOK /\ ConfigurationSurvives

LEMMA ScheduleConstants ==
    /\ Manual \in Config /\ Absent \in Row /\ Absent.trigger_config.edit = 0
    /\ SIdle \in ScheduleServing
<1>1. Manual \in Config
    BY ScheduleAssumption DEF Manual, Config, Times
<1>2. Absent \in Row
    BY <1>1 DEF Absent, Row, Triggers
<1>3. (CHOOSE w \in Workflows : TRUE) \in Workflows
    BY ScheduleAssumption DEF Workflows
<1>4. 0 \in 0..TickLimit /\ 0 \in 0..MaxNow
    BY ScheduleAssumption
<1>5. SIdle \in ScheduleServing
    BY <1>1, <1>3, <1>4 DEF SIdle, ScheduleServing, Triggers
<1> QED
    BY <1>1, <1>2, <1>5 DEF Absent, Manual

LEMMA ScheduleInitInv == ScheduleInit => ScheduleInv
<1> SUFFICES ASSUME ScheduleInit PROVE ScheduleInv
    OBVIOUS
<1>1. /\ workflow \in [Workflows -> Row] /\ latest \in [Workflows -> Nat]
      /\ sreq \in [SReqs -> ScheduleServing] /\ runs = {} /\ edits = 0 /\ now \in 0..MaxNow
    BY ScheduleConstants, ScheduleAssumption DEF ScheduleInit
<1>2. ScheduleTypeOK
    BY <1>1 DEF ScheduleTypeOK, ScheduleServing
<1>3. ConfigurationSurvives
    BY ScheduleConstants DEF ScheduleInit, ConfigurationSurvives
<1> QED
    BY <1>2, <1>3 DEF ScheduleInv

\* A request that begins or goes on writes nothing of it but where it is.
LEMMA AnswerTyped ==
    ASSUME ScheduleTypeOK, NEW s, NEW me \in ScheduleServing, Answer(s, me)
    PROVE  sreq' \in [SReqs -> ScheduleServing]
BY DEF ScheduleTypeOK, ScheduleServing, Answer

LEMMA ScheduleStep == ScheduleInv /\ [ScheduleNext]_scheduleVars => ScheduleInv'
<1> SUFFICES ASSUME ScheduleInv, [ScheduleNext]_scheduleVars PROVE ScheduleInv'
    OBVIOUS
<1> DEFINE Kept == UNCHANGED <<workflow, latest>>
           SameRuns == runs' = runs
<1>1. /\ workflow \in [Workflows -> Row] /\ latest \in [Workflows -> Nat]
      /\ sreq \in [SReqs -> ScheduleServing] /\ edits \in Nat /\ now \in 0..MaxNow
      /\ \A run \in runs : run.w \in Templates /\ run.enabled /\ run.scheduled_for <= run.at
      /\ ScheduleTypeOK /\ \A w \in Workflows : workflow[w].trigger_config.edit = latest[w]
    BY DEF ScheduleInv, ScheduleTypeOK, ConfigurationSurvives, ScheduleServing
<1>2. ASSUME Kept, SameRuns, sreq' \in [SReqs -> ScheduleServing], edits' \in Nat, now' \in 0..MaxNow
      PROVE  ScheduleInv'
    BY <1>1, <1>2 DEF ScheduleInv, ScheduleTypeOK, ConfigurationSurvives, ScheduleServing
<1>3. ASSUME SameRuns, sreq' \in [SReqs -> ScheduleServing], edits' = edits, now' = now,
             workflow' \in [Workflows -> Row], latest' \in [Workflows -> Nat],
             \A w \in Workflows : workflow'[w].trigger_config.edit = latest'[w]
      PROVE  ScheduleInv'
    BY <1>1, <1>3 DEF ScheduleInv, ScheduleTypeOK, ConfigurationSurvives, ScheduleServing
<1> HIDE DEF Kept, SameRuns
<1>4. CASE Advance
    <2>1. now' \in 0..MaxNow
        BY <1>1, <1>4, ScheduleAssumption DEF Advance
    <2> QED
        BY <2>1, <1>1, <1>2, <1>4 DEF Advance, Kept, SameRuns
<1>5. ASSUME NEW w \in Workflows, ensure_workflow(w) PROVE ScheduleInv'
    <2>1. /\ workflow' = [workflow EXCEPT ![w].present = TRUE] /\ latest' = latest
          /\ SameRuns /\ sreq' = sreq /\ edits' = edits /\ now' = now
        BY <1>5 DEF ensure_workflow, SameRuns
    <2>2. \A row \in Row : /\ [row EXCEPT !.present = TRUE] \in Row
                           /\ [row EXCEPT !.present = TRUE].trigger_config = row.trigger_config
        BY DEF Row
    <2>3. workflow' \in [Workflows -> Row]
        BY <1>1, <2>1, <2>2
    <2>4. \A v \in Workflows : workflow'[v].trigger_config = workflow[v].trigger_config
        BY <1>1, <2>1, <2>2
    <2> QED
        BY <1>1, <1>3, <2>1, <2>3, <2>4
<1>6. ASSUME NEW w \in Workflows, NEW trigger \in Triggers, NEW config \in SentConfigs,
             create_custom_workflow(w, trigger, config)
      PROVE  ScheduleInv'
    <2> DEFINE row == [present |-> TRUE, trigger |-> trigger, trigger_config |-> config]
    <2>1. config \in Config /\ config.edit = 0
        <3>1. now \in Times
            BY <1>1, ScheduleAssumption DEF Times
        <3>2. CASE config = Manual
            BY <3>2, ScheduleConstants DEF Manual
        <3>3. CASE config = [enabled |-> TRUE, next_run_at |-> now, edit |-> 0]
            BY <3>1, <3>3 DEF Config
        <3> QED
            BY <3>2, <3>3 DEF SentConfigs
    <2>2. row \in Row /\ row.trigger_config.edit = 0
        BY <2>1 DEF Row
    <2>3. /\ workflow' = [workflow EXCEPT ![w] = row] /\ latest' = [latest EXCEPT ![w] = 0]
          /\ SameRuns /\ sreq' = sreq /\ edits' = edits /\ now' = now
        BY <1>6 DEF create_custom_workflow, SameRuns
    <2> HIDE DEF row
    <2>4. workflow' \in [Workflows -> Row] /\ latest' \in [Workflows -> Nat]
        BY <1>1, <2>2, <2>3
    <2>5. \A v \in Workflows : workflow'[v].trigger_config.edit = latest'[v]
        BY <1>1, <2>2, <2>3
    <2> QED
        BY <1>1, <1>3, <2>3, <2>4, <2>5
<1>7. ASSUME NEW w \in Workflows, delete_custom_workflow(w) PROVE ScheduleInv'
    <2>1. /\ workflow' = [workflow EXCEPT ![w] = Absent] /\ latest' = [latest EXCEPT ![w] = 0]
          /\ SameRuns /\ edits' = edits /\ now' = now
          /\ sreq' = [s \in SReqs |-> IF sreq[s].pc \in {"configure", "patch"} /\ sreq[s].w = w
                                      THEN SIdle ELSE sreq[s]]
        BY <1>7 DEF delete_custom_workflow, SameRuns
    <2>2. workflow' \in [Workflows -> Row] /\ latest' \in [Workflows -> Nat]
        BY <1>1, <2>1, ScheduleConstants
    <2>3. sreq' \in [SReqs -> ScheduleServing]
        BY <1>1, <2>1, ScheduleConstants
    <2>4. \A v \in Workflows : workflow'[v].trigger_config.edit = latest'[v]
        BY <1>1, <2>1, ScheduleConstants
    <2> QED
        BY <1>3, <2>1, <2>2, <2>3, <2>4
<1>8. ASSUME NEW s \in SReqs, NEW w \in Workflows, NEW trigger \in Triggers,
             PatchBegin(s, w, trigger)
      PROVE  ScheduleInv'
    <2> DEFINE was == workflow[w].trigger
               me == [SIdle EXCEPT !.pc = "patch", !.w = w, !.trigger = trigger, !.was = was]
    <2>1. was \in Triggers
        BY <1>1 DEF Row
    <2>2. Answer(s, me) /\ Kept /\ SameRuns /\ edits' = edits /\ now' = now
        BY <1>8 DEF PatchBegin, Kept, SameRuns
    <2> HIDE DEF was
    <2>3. me \in ScheduleServing
        BY <2>1, ScheduleConstants DEF ScheduleServing
    <2> HIDE DEF me
    <2> QED
        BY <1>1, <1>2, <2>2, <2>3, AnswerTyped
<1>9. ASSUME NEW s \in SReqs, update_custom_workflow(s) PROVE ScheduleInv'
    <2> DEFINE w == sreq[s].w
               trigger == sreq[s].trigger
    <2>1. w \in Workflows /\ trigger \in Triggers
        BY <1>1 DEF ScheduleServing
    <2>2. /\ workflow' = workflow \/ workflow' = [workflow EXCEPT ![w].trigger = trigger]
          /\ latest' = latest /\ SameRuns /\ edits' = edits /\ now' = now /\ Answer(s, SIdle)
        BY <1>9 DEF update_custom_workflow, SameRuns
    <2> HIDE DEF w, trigger
    <2>3. \A row \in Row : /\ [row EXCEPT !.trigger = trigger] \in Row
                           /\ [row EXCEPT !.trigger = trigger].trigger_config = row.trigger_config
        BY <2>1 DEF Row
    <2>4. workflow' \in [Workflows -> Row]
        BY <1>1, <2>2, <2>3
    <2>5. \A v \in Workflows : workflow'[v].trigger_config = workflow[v].trigger_config
        BY <1>1, <2>2, <2>3
    <2>6. sreq' \in [SReqs -> ScheduleServing]
        BY <1>1, <2>2, ScheduleConstants, AnswerTyped
    <2> QED
        BY <1>1, <1>3, <2>2, <2>4, <2>5, <2>6
<1>10. ASSUME NEW s \in SReqs, NEW w \in Workflows, NEW enabled \in BOOLEAN,
              NEW start_at \in {now, now + 1}, _workflow_record_for(s, w, enabled, start_at)
       PROVE  ScheduleInv'
    <2> DEFINE was == workflow[w].trigger
               trigger == IF enabled THEN "schedule" ELSE "manual"
               new == [enabled |-> enabled, next_run_at |-> start_at, edit |-> edits + 1]
               me == [SIdle EXCEPT !.pc = "configure", !.w = w, !.was = was,
                        !.trigger = trigger, !.new = new]
    <2>1. was \in Triggers /\ trigger \in Triggers
        BY <1>1 DEF Row, Triggers
    <2>2. start_at \in Times /\ edits + 1 \in Nat
        BY <1>1, ScheduleAssumption DEF Times
    <2>3. new \in Config
        BY <2>2 DEF Config
    <2>4. Answer(s, me) /\ Kept /\ SameRuns /\ edits' = edits + 1 /\ now' = now
        BY <1>10 DEF _workflow_record_for, Kept, SameRuns
    <2> HIDE DEF was, trigger, new
    <2>5. me \in ScheduleServing
        BY <2>1, <2>3, ScheduleConstants DEF ScheduleServing
    <2> HIDE DEF me
    <2> QED
        BY <1>1, <1>2, <2>2, <2>4, <2>5, AnswerTyped
<1>11. ASSUME NEW s \in SReqs, configure_workflow_schedule(s) PROVE ScheduleInv'
    <2> DEFINE w == sreq[s].w
               new == sreq[s].new
               trigger == IF sreq[s].trigger # sreq[s].was THEN sreq[s].trigger ELSE workflow[w].trigger
    <2>1. w \in Workflows /\ new \in Config /\ trigger \in Triggers
        BY <1>1 DEF ScheduleServing, Row
    <2>2. /\ workflow' = [workflow EXCEPT ![w].trigger = trigger, ![w].trigger_config = new]
          /\ latest' = [latest EXCEPT ![w] = new.edit]
          /\ SameRuns /\ edits' = edits /\ now' = now /\ Answer(s, SIdle)
        BY <1>11 DEF configure_workflow_schedule, SameRuns
    <2> HIDE DEF w, new, trigger
    <2>3. workflow' = [workflow EXCEPT ![w] =
                        [workflow[w] EXCEPT !.trigger = trigger, !.trigger_config = new]]
        BY <1>1, <2>1, <2>2
    <2>4. \A row \in Row :
            /\ [row EXCEPT !.trigger = trigger, !.trigger_config = new] \in Row
            /\ [row EXCEPT !.trigger = trigger, !.trigger_config = new].trigger_config = new
        BY <2>1 DEF Row
    <2>5. workflow' \in [Workflows -> Row]
        BY <1>1, <2>1, <2>3, <2>4
    <2>6. latest' \in [Workflows -> Nat]
        BY <1>1, <2>1, <2>2 DEF Config
    <2>7. \A v \in Workflows : workflow'[v].trigger_config.edit = latest'[v]
        <3>1. workflow'[w].trigger_config = new /\ latest'[w] = new.edit
            <4>1. workflow[w] \in Row
                  /\ workflow'[w] = [workflow[w] EXCEPT !.trigger = trigger, !.trigger_config = new]
                BY <1>1, <2>1, <2>3
            <4>2. latest'[w] = new.edit
                BY <1>1, <2>1, <2>2
            <4>3. workflow'[w].trigger_config = new
                BY Zenon, <4>1, <2>4
            <4> QED
                BY <4>2, <4>3
        <3>2. \A v \in Workflows \ {w} : workflow'[v] = workflow[v] /\ latest'[v] = latest[v]
            BY <1>1, <2>1, <2>2, <2>3
        <3> QED
            BY <1>1, <3>1, <3>2
    <2>8. sreq' \in [SReqs -> ScheduleServing]
        BY <1>1, <2>2, ScheduleConstants, AnswerTyped
    <2> QED
        BY <1>3, <2>2, <2>5, <2>6, <2>7, <2>8
<1>12. ASSUME NEW s \in SReqs, TickBegin(s) PROVE ScheduleInv'
    <2> DEFINE rows == [w \in Workflows |-> workflow[w].trigger_config]
               left == {w \in Workflows : workflow[w].present /\ workflow[w].trigger = "schedule"}
               me == [SIdle EXCEPT !.pc = "tick", !.at = now, !.rows = rows, !.left = left]
    <2>1. rows \in [Workflows -> Config] /\ left \in SUBSET Workflows
        BY <1>1 DEF Row
    <2>2. Answer(s, me) /\ Kept /\ SameRuns /\ edits' = edits /\ now' = now
        BY <1>12 DEF TickBegin, Kept, SameRuns
    <2> HIDE DEF rows, left
    <2>3. me \in ScheduleServing
        BY <1>1, <2>1, ScheduleConstants DEF ScheduleServing
    <2> HIDE DEF me
    <2> QED
        BY <1>1, <1>2, <2>2, <2>3, AnswerTyped
<1>13. ASSUME NEW s \in SReqs, NEW w \in Workflows, TickSkips(s, w) PROVE ScheduleInv'
    <2> DEFINE me == sreq[s]
               left == me.left \ {w}
               after == [me EXCEPT !.left = left]
    <2>1. me \in ScheduleServing /\ left \in SUBSET Workflows
        BY <1>1 DEF ScheduleServing
    <2>2. Answer(s, after) /\ Kept /\ SameRuns /\ edits' = edits /\ now' = now
        BY <1>13 DEF TickSkips, Kept, SameRuns
    <2> HIDE DEF me, left
    <2>3. after \in ScheduleServing
        BY <2>1 DEF ScheduleServing
    <2> HIDE DEF after
    <2> QED
        BY <1>1, <1>2, <2>2, <2>3, AnswerTyped
<1>14. ASSUME NEW s \in SReqs, NEW w \in Workflows, TickRaises(s, w) \/ TickEnds(s)
       PROVE  ScheduleInv'
    <2>1. Answer(s, SIdle) /\ Kept /\ SameRuns /\ edits' = edits /\ now' = now
        BY <1>14 DEF TickRaises, TickEnds, Kept, SameRuns
    <2> QED
        BY <1>1, <1>2, <2>1, ScheduleConstants, AnswerTyped
<1>15. ASSUME NEW s \in SReqs, NEW w \in Workflows, enqueue_workflow_run(s, w)
       PROVE  ScheduleInv'
    <2> DEFINE me == sreq[s]
               left == me.left \ {w}
               created == me.created + 1
               after == [me EXCEPT !.left = left, !.created = created]
               run == Enqueued(me, w)
    <2>1. me \in ScheduleServing /\ left \in SUBSET Workflows
        BY <1>1 DEF ScheduleServing
    <2>2. /\ me.created < TickLimit /\ w \in Templates /\ ~NotDue(me, w)
          /\ runs' = runs \cup {run} /\ Answer(s, after)
          /\ Kept /\ edits' = edits /\ now' = now
        BY <1>15 DEF enqueue_workflow_run, Kept
    <2>3. created \in 0..TickLimit
        BY <2>1, <2>2, ScheduleAssumption DEF ScheduleServing
    <2>4. me.rows[w] \in Config /\ me.at \in Nat
        BY <2>1 DEF ScheduleServing
    <2>5. run.w \in Templates /\ run.enabled /\ run.scheduled_for <= run.at
        BY <2>2, <2>4 DEF NotDue, Enqueued, Config, Times
    <2> HIDE DEF me, left, created, run
    <2>6. after \in ScheduleServing
        BY <2>1, <2>3 DEF ScheduleServing
    <2> HIDE DEF after
    <2>7. sreq' \in [SReqs -> ScheduleServing]
        BY <1>1, <2>2, <2>6, AnswerTyped
    <2>8. \A other \in runs' :
            other.w \in Templates /\ other.enabled /\ other.scheduled_for <= other.at
        BY <1>1, <2>2, <2>5
    <2> QED
        BY <1>1, <2>2, <2>7, <2>8
           DEF ScheduleInv, ScheduleTypeOK, ConfigurationSurvives, ScheduleServing, Kept
<1>16. CASE UNCHANGED scheduleVars
    BY <1>1, <1>2, <1>16 DEF scheduleVars, Kept, SameRuns
<1>17. CASE \E s \in SReqs : TickEnds(s)
    BY <1>14, <1>17, ScheduleAssumption DEF Workflows
<1>18. CASE \E w \in Workflows :
            \/ ensure_workflow(w)
            \/ \E trigger \in Triggers, config \in SentConfigs : create_custom_workflow(w, trigger, config)
            \/ delete_custom_workflow(w)
    BY <1>5, <1>6, <1>7, <1>18
<1>19. CASE \E s \in SReqs, w \in Workflows :
            \/ \E trigger \in Triggers : PatchBegin(s, w, trigger)
            \/ \E enabled \in BOOLEAN, start_at \in {now, now + 1} :
                   _workflow_record_for(s, w, enabled, start_at)
            \/ TickSkips(s, w)
            \/ TickRaises(s, w)
            \/ enqueue_workflow_run(s, w)
    BY <1>8, <1>10, <1>13, <1>14, <1>15, <1>19
<1>20. CASE \E s \in SReqs :
            update_custom_workflow(s) \/ configure_workflow_schedule(s) \/ TickBegin(s)
    BY <1>9, <1>11, <1>12, <1>20
<1> QED
    BY Zenon, <1>4, <1>16, <1>17, <1>18, <1>19, <1>20 DEF ScheduleNext

\* However requests and ticks overlap, a row holds the configuration committed last,
\* and runs are enqueued only for templates whose schedule was on and due when the
\* tick looked: configure_workflow_schedule and tick_workflow_schedules.
THEOREM ScheduleTheorem == ScheduleSpec => [](ScheduleTypeOK /\ ConfigurationSurvives)
<1>1. ScheduleSpec => []ScheduleInv
    BY ScheduleInitInv, ScheduleStep, PTL DEF ScheduleSpec
<1> QED
    BY <1>1, PTL DEF ScheduleInv

-----------------------------------------------------------------------------
(* ModelProviders *)

EventTypes == {"start", "delta", "usage", "done", "error", "result"}

\* What is told apart of a stream: who said what, and how much of it.
StreamInv ==
    /\ reply \in Seq(Event) /\ parts \in Nat
    /\ PartsKept /\ StreamIsWhole

\* The rest of the types.
Prompts == [pc : {"idle", "open", "ended", "raised"}, provider : PROVIDERS \cup {"unknown"},
            streamed : BOOLEAN]
PromptType == prompt \in Prompts /\ wire \in 0..MaxWire /\ concluded \in BOOLEAN

LEMMA EventsTyped ==
    /\ \A type \in EventTypes, text \in Nat :
            Plain(type, text) \in Event /\ Plain(type, text).type = type
                /\ Plain(type, text).text = text
    /\ \A status \in {0, 200, 400, 404, 500, 502} :
            Failure(status) \in Event /\ Failure(status).type = "error"
    /\ \A text \in Nat : Result(text) \in Event /\ Result(text).type = "result"
BY DEF EventTypes, Plain, Failure, Result, Event

\* One event more: the deltas before it are the same.
LEMMA DeltasKept ==
    ASSUME NEW events \in Seq(Event), NEW event \in Event, NEW i \in DOMAIN events
    PROVE  /\ Deltas(Append(events, event), i) = Deltas(events, i)
           /\ Append(events, event)[i] = events[i]
BY DEF Deltas

LEMMA DeltasCounted ==
    ASSUME NEW events \in Seq(Event), NEW event \in Event
    PROVE  LET n == Cardinality(Deltas(events, Len(events)))
               more == Append(events, event)
           IN  /\ n \in Nat
               /\ Len(more) = Len(events) + 1 /\ more[Len(more)] = event
               /\ Cardinality(Deltas(more, Len(more))) = IF event.type = "delta" THEN n + 1 ELSE n
<1> DEFINE more == Append(events, event)
           before == Deltas(events, Len(events))
           last == Len(events) + 1
<1>1. Len(events) \in Nat /\ Len(more) = last /\ more[last] = event
      /\ \A i \in 1..Len(events) : more[i] = events[i]
    OBVIOUS
<1>2. IsFiniteSet(before)
    <2>1. IsFiniteSet(1..Len(events)) /\ before \subseteq 1..Len(events)
        BY <1>1, FS_Interval DEF Deltas
    <2> QED
        BY <2>1, FS_Subset
<1>3. Cardinality(before) \in Nat
    BY <1>2, FS_CardinalityType
<1>4. Deltas(more, last) = IF event.type = "delta" THEN before \cup {last} ELSE before
    <2>1. \A i \in 1..last : i = last \/ i \in 1..Len(events)
        BY <1>1
    <2>2. \A i \in 1..Len(events) : i \in 1..last /\ i # last
        BY <1>1
    <2>3. last \in 1..last
        BY <1>1
    <2> HIDE DEF more, last
    <2> QED
        BY <1>1, <2>1, <2>2, <2>3 DEF Deltas
<1>5. last \notin before
    BY <1>1 DEF Deltas
<1>6. Cardinality(before \cup {last}) = Cardinality(before) + 1
    BY <1>2, <1>5, FS_AddElement
<1> QED
    BY <1>1, <1>3, <1>4, <1>6

\* One event more, on its own: what is to be shown of it.
LEMMA StreamGrows ==
    ASSUME StreamInv, prompt.pc = "open", NEW event \in Event,
           reply' = Append(reply, event),
           event.type = "done" => event.text = parts,
           \/ /\ prompt'.pc = "open"
              /\ parts' = IF event.type = "delta" THEN parts + 1 ELSE parts
              /\ concluded' => concluded \/ event.type = "done"
           \/ prompt'.pc = "ended" /\ parts' = parts /\ event.type \in {"done", "error"}
    PROVE  StreamInv'
<1> DEFINE n == Cardinality(Deltas(reply, Len(reply)))
<1>1. /\ reply \in Seq(Event) /\ reply' \in Seq(Event) /\ Len(reply) \in Nat
      /\ Len(reply') = Len(reply) + 1 /\ reply'[Len(reply')] = event
    BY DEF StreamInv
<1>2. /\ n \in Nat
      /\ Cardinality(Deltas(reply', Len(reply'))) = IF event.type = "delta" THEN n + 1 ELSE n
    BY <1>1, DeltasCounted
<1>3. parts = n /\ parts' \in Nat
    BY <1>2 DEF StreamInv, PartsKept
<1>4. \A i \in DOMAIN reply : i \in DOMAIN reply' /\ reply'[i] = reply[i]
                                /\ Deltas(reply', i) = Deltas(reply, i)
    <2>1. \A i \in DOMAIN reply : i \in DOMAIN reply'
        BY <1>1
    <2> QED
        BY <1>1, <2>1, DeltasKept
<1>5. \A i \in DOMAIN reply' : i \in DOMAIN reply \/ i = Len(reply')
    BY <1>1
<1>6. Len(reply') \in DOMAIN reply'
    BY <1>1
<1> HIDE DEF n
<1>7. PartsKept'
    <2>1. prompt'.pc # "idle"
        OBVIOUS
    <2>2. prompt'.pc = "open" => parts' = Cardinality(Deltas(reply', Len(reply')))
        BY <1>2, <1>3
    <2>3. prompt'.pc = "open" /\ concluded' => \E i \in DOMAIN reply' : reply'[i].type = "done"
        BY <1>1, <1>4, <1>6 DEF StreamInv, PartsKept
    <2> QED
        BY <2>1, <2>2, <2>3 DEF PartsKept, Deltas
<1>8. StreamIsWhole'
    <2>1. prompt'.pc = "ended" =>
            \E i \in DOMAIN reply' : reply'[i].type \in {"done", "error", "result"}
        BY <1>1, <1>6
    <2>2. ASSUME NEW i \in DOMAIN reply', reply'[i].type = "done"
          PROVE  reply'[i].text = Cardinality(Deltas(reply', i))
        <3>1. CASE i \in DOMAIN reply
            BY <2>2, <3>1, <1>4 DEF StreamInv, StreamIsWhole
        <3>2. CASE i = Len(reply')
            BY <2>2, <3>2, <1>1, <1>2, <1>3
        <3> QED
            BY <3>1, <3>2, <1>5
    <2> QED
        BY <2>1, <2>2 DEF StreamIsWhole, Deltas
<1> QED
    BY <1>1, <1>3, <1>7, <1>8 DEF StreamInv

\* A request that is answered in one piece: the answer has an end, and no done event.
LEMMA AnsweredAtOnce ==
    ASSUME StreamInv, prompt'.pc = "ended", parts' = parts,
           NEW events \in Seq(Event), reply' = events,
           \A i \in DOMAIN events : events[i].type # "done",
           \E i \in DOMAIN events : events[i].type \in {"error", "result"}
    PROVE  StreamInv'
BY DEF StreamInv, PartsKept, StreamIsWhole

\* The text of a dry run, in chunks pieces.
LEMMA DryRunStep ==
    ASSUME StreamInv, NEW provider \in PROVIDERS, StreamDryRun(provider)
    PROVE  StreamInv'
<1>1. PICK chunks \in 1..MaxWire :
        reply' = <<Plain("start", 0)>> \o [i \in 1..chunks |-> Plain("delta", 1)]
                 \o <<Plain("done", chunks)>>
    BY DEF StreamDryRun
<1> DEFINE deltas == [i \in 1..chunks |-> Plain("delta", 1)]
           first == <<Plain("start", 0)>>
           last == <<Plain("done", chunks)>>
<1>2. chunks \in Nat /\ chunks >= 1
    BY ProviderAssumption
<1>3. /\ Plain("delta", 1) \in Event /\ Plain("delta", 1).type = "delta"
      /\ Plain("start", 0) \in Event /\ Plain("start", 0).type = "start"
      /\ Plain("done", chunks) \in Event /\ Plain("done", chunks).type = "done"
      /\ Plain("done", chunks).text = chunks
    BY <1>2, EventsTyped DEF EventTypes
<1>4. deltas \in Seq(Event) /\ Len(deltas) = chunks /\ first \in Seq(Event) /\ last \in Seq(Event)
      /\ Len(first) = 1 /\ Len(last) = 1
    BY <1>2, <1>3
<1>5. reply' \in Seq(Event) /\ Len(reply') = chunks + 2
    BY <1>1, <1>4
<1>6. /\ reply'[1].type = "start"
      /\ \A i \in 2..chunks + 1 : reply'[i].type = "delta"
      /\ reply'[chunks + 2] = Plain("done", chunks)
    <2>1. reply' = (first \o deltas) \o last
        BY <1>1
    <2>2. first \o deltas \in Seq(Event) /\ Len(first \o deltas) = chunks + 1
        BY <1>4
    <2>3. (first \o deltas)[1] = Plain("start", 0)
          /\ \A i \in 2..chunks + 1 : (first \o deltas)[i] = Plain("delta", 1)
        BY <1>2, <1>4
    <2> DEFINE both == first \o deltas
    <2> HIDE DEF both, last
    <2>4. \A i \in 1..chunks + 1 : reply'[i] = both[i]
        BY <2>1, <2>2, <1>2, <1>4 DEF both
    <2>5. reply'[chunks + 2] = last[1]
        BY <2>1, <2>2, <1>2, <1>4 DEF both
    <2>6. 1 \in 1..chunks + 1 /\ \A i \in 2..chunks + 1 : i \in 1..chunks + 1
        BY <1>2
    <2> QED
        BY <1>3, <2>3, <2>4, <2>5, <2>6 DEF both, last
<1>7. \A i \in DOMAIN reply' : reply'[i].type = "done" => i = chunks + 2
    BY <1>2, <1>5, <1>6
<1>8. Deltas(reply', chunks + 2) = 2..chunks + 1
    <2>1. \A i \in 1..chunks + 2 : i = 1 \/ i = chunks + 2 \/ i \in 2..chunks + 1
        BY <1>2
    <2>2. \A i \in 2..chunks + 1 : i \in 1..chunks + 2
        BY <1>2
    <2> QED
        BY <1>3, <1>6, <2>1, <2>2 DEF Deltas
<1>9. Cardinality(2..chunks + 1) = chunks
    BY <1>2, FS_Interval
<1>10. prompt'.pc = "ended" /\ parts' = parts
    BY DEF StreamDryRun, Ask
<1>11. \A i \in DOMAIN reply' :
        reply'[i].type = "done" => reply'[i].text = Cardinality(Deltas(reply', i))
    BY <1>3, <1>6, <1>7, <1>8, <1>9
<1>12. \E i \in DOMAIN reply' : reply'[i].type \in {"done", "error", "result"}
    BY <1>2, <1>3, <1>5, <1>6
<1>13. StreamIsWhole'
    BY <1>11, <1>12 DEF StreamIsWhole, Deltas
<1> QED
    BY <1>5, <1>10, <1>13 DEF StreamInv, PartsKept

LEMMA StreamInitInv == ProviderInit => StreamInv
<1> SUFFICES ASSUME ProviderInit PROVE StreamInv
    OBVIOUS
<1>1. reply = <<>> /\ parts = 0 /\ concluded = FALSE /\ prompt.pc = "idle"
    BY DEF ProviderInit
<1>2. <<>> \in Seq(Event)
    OBVIOUS
<1> QED
    BY <1>1, <1>2 DEF StreamInv, PartsKept, StreamIsWhole

LEMMA PromptInitType == ProviderInit => PromptType
<1>1. ProviderInit => prompt \in Prompts
    BY DEF ProviderInit, Prompts
<1>2. ProviderInit => wire = 0 /\ concluded = FALSE
    BY DEF ProviderInit
<1>3. 0 \in 0..MaxWire
    BY ProviderAssumption
<1> QED
    BY <1>1, <1>2, <1>3 DEF PromptType

LEMMA PromptStep == PromptType /\ [ProviderNext]_providerVars => PromptType'
<1> SUFFICES ASSUME PromptType, [ProviderNext]_providerVars PROVE PromptType'
    OBVIOUS
<1>1. prompt \in Prompts /\ wire \in 0..MaxWire /\ concluded \in BOOLEAN
    BY DEF PromptType
<1>2. ASSUME NEW pc \in {"open", "ended", "raised"}, NEW provider \in PROVIDERS \cup {"unknown"},
             NEW streamed \in BOOLEAN, Ask(pc, provider, streamed)
      PROVE  PromptType'
    BY <1>1, <1>2 DEF Ask, PromptType, Prompts
<1>3. CASE \E streamed \in BOOLEAN : UnknownProvider(streamed)
    BY <1>2, <1>3 DEF UnknownProvider
<1>4. CASE \E provider \in PROVIDERS :
            \/ complete(provider) \/ check_provider(provider) \/ StreamDryRun(provider)
            \/ StreamRefused(provider) \/ StreamCut(provider) \/ stream_complete(provider)
    BY <1>2, <1>4
       DEF complete, check_provider, StreamDryRun, StreamRefused, StreamCut, stream_complete
<1>5. Wire => prompt' \in Prompts /\ wire' \in 0..MaxWire
    BY <1>1, ProviderAssumption DEF Wire
<1>6. CASE \/ StreamDelta \/ StreamUsage \/ StreamDone \/ StreamError \/ StreamOther
    BY <1>1, <1>5, <1>6
       DEF StreamDelta, StreamUsage, StreamDone, StreamError, StreamOther, Arrives, PromptType
<1>7. CASE StreamCloses \/ StreamBreaks \/ StreamRaises
    BY <1>1, <1>7 DEF StreamCloses, StreamBreaks, StreamRaises, End, PromptType, Prompts
<1>8. CASE UNCHANGED providerVars
    BY <1>1, <1>8 DEF providerVars, PromptType
<1> QED
    BY <1>3, <1>4, <1>6, <1>7, <1>8 DEF ProviderNext

LEMMA StreamStep == PromptType /\ StreamInv /\ [ProviderNext]_providerVars => StreamInv'
<1> SUFFICES ASSUME PromptType, StreamInv, [ProviderNext]_providerVars PROVE StreamInv'
    OBVIOUS
<1>1. ASSUME NEW event \in Event, event.type \in {"error", "result"},
             prompt'.pc = "ended", parts' = parts, reply' = <<event>>
      PROVE  StreamInv'
    <2>1. <<event>> \in Seq(Event) /\ 1 \in DOMAIN <<event>>
          /\ \A i \in DOMAIN <<event>> : <<event>>[i] = event
        OBVIOUS
    <2> QED
        BY <1>1, <2>1, AnsweredAtOnce
<1>2. ASSUME NEW streamed \in BOOLEAN, UnknownProvider(streamed) PROVE StreamInv'
    <2> DEFINE status == IF streamed THEN 0 ELSE 404
               event == [Failure(404) EXCEPT !.status = IF streamed THEN 0 ELSE @]
    <2>1. event \in Event /\ event.type = "error"
        BY DEF Failure, Event
    <2>2. prompt'.pc = "ended" /\ parts' = parts /\ reply' = <<event>>
        BY <1>2 DEF UnknownProvider, Ask
    <2> HIDE DEF event
    <2> QED
        BY <1>1, <2>1, <2>2
<1>3. ASSUME NEW provider \in PROVIDERS, complete(provider) \/ check_provider(provider)
      PROVE  StreamInv'
    <2>1. prompt'.pc = "ended" /\ parts' = parts
        BY <1>3 DEF complete, check_provider, Ask
    <2>2. \/ \E text \in {0, 1} : reply' = <<Result(text)>>
          \/ \E status \in {400, 502, 500} : reply' = <<Failure(status)>>
        BY <1>3 DEF complete, check_provider
    <2> QED
        BY <1>1, <2>1, <2>2, EventsTyped
<1>4. ASSUME NEW provider \in PROVIDERS, StreamRefused(provider) PROVE StreamInv'
    <2>1. PICK status \in {400, 502, 0} : reply' = <<Plain("start", 0), Failure(status)>>
        BY <1>4 DEF StreamRefused
    <2> DEFINE begin == Plain("start", 0)
               failure == Failure(status)
    <2>2. /\ begin \in Event /\ begin.type = "start"
          /\ failure \in Event /\ failure.type = "error"
        BY EventsTyped DEF EventTypes
    <2> HIDE DEF begin, failure
    <2> DEFINE events == <<begin, failure>>
    <2>3. events \in Seq(Event) /\ DOMAIN events = {1, 2}
          /\ events[1] = begin /\ events[2] = failure
        BY <2>2
    <2>4. prompt'.pc = "ended" /\ parts' = parts
        BY <1>4 DEF StreamRefused, Ask
    <2>5. reply' = events
        BY <2>1 DEF begin, failure
    <2> HIDE DEF events
    <2>6. /\ \A i \in DOMAIN events : events[i].type # "done"
          /\ \E i \in DOMAIN events : events[i].type \in {"error", "result"}
        BY <2>2, <2>3
    <2> QED
        BY <2>3, <2>4, <2>5, <2>6, AnsweredAtOnce
<1>5. ASSUME NEW provider \in PROVIDERS, stream_complete(provider) PROVE StreamInv'
    <2> DEFINE begin == Plain("start", 0)
    <2>1. begin \in Event /\ begin.type = "start"
        BY EventsTyped DEF EventTypes
    <2>2. /\ prompt.pc = "idle" /\ prompt'.pc = "open" /\ parts' = parts
          /\ concluded' = concluded /\ reply' = <<begin>>
        BY <1>5 DEF stream_complete, Ask
    <2> HIDE DEF begin
    <2>3. parts = 0 /\ ~concluded
        BY <2>2 DEF StreamInv, PartsKept
    <2>4. reply' \in Seq(Event) /\ Len(reply') = 1 /\ \A i \in 1..1 : reply'[i] = begin
        BY <2>1, <2>2
    <2>5. Deltas(reply', Len(reply')) = {}
        BY <2>1, <2>4 DEF Deltas
    <2>6. Cardinality(Deltas(reply', Len(reply'))) = 0
        BY <2>5, FS_EmptySet
    <2>7. PartsKept'
        BY <2>2, <2>3, <2>6 DEF PartsKept, Deltas
    <2>8. StreamIsWhole'
        BY <2>1, <2>2, <2>4 DEF StreamIsWhole
    <2> QED
        BY <2>2, <2>4, <2>7, <2>8 DEF StreamInv
<1>6. parts \in Nat
    BY DEF StreamInv
<1>7. CASE StreamDelta
    <2>1. prompt.pc = "open" /\ prompt' = prompt /\ parts' = parts + 1 /\ concluded' = concluded
          /\ reply' = Append(reply, Plain("delta", 1))
        BY <1>7 DEF StreamDelta, Arrives, Wire
    <2> QED
        BY <2>1, StreamGrows, EventsTyped DEF EventTypes
<1>8. CASE StreamUsage
    <2>1. prompt.pc = "open" /\ prompt' = prompt /\ parts' = parts /\ concluded' = concluded
          /\ reply' = Append(reply, Plain("usage", 0))
        BY <1>8 DEF StreamUsage, Arrives, Wire
    <2> QED
        BY <2>1, StreamGrows, EventsTyped DEF EventTypes
<1>9. CASE StreamDone
    <2>1. prompt.pc = "open" /\ prompt' = prompt /\ parts' = parts
          /\ reply' = Append(reply, Plain("done", parts))
        BY <1>9 DEF StreamDone, Arrives, Wire
    <2> QED
        BY <1>6, <2>1, StreamGrows, EventsTyped DEF EventTypes
<1>10. CASE StreamError
    <2>1. prompt.pc = "open" /\ prompt' = prompt /\ parts' = parts /\ concluded' = concluded
          /\ reply' = Append(reply, Failure(0))
        BY <1>10 DEF StreamError, Arrives, Wire
    <2> QED
        BY <2>1, StreamGrows, EventsTyped DEF EventTypes
<1>11. ASSUME UNCHANGED <<prompt, parts, concluded, reply>> PROVE StreamInv'
    BY <1>11 DEF StreamInv, PartsKept, StreamIsWhole, Deltas
<1>12. CASE StreamOther
    BY <1>11, <1>12 DEF StreamOther, Wire
<1>13. CASE StreamCloses
    <2>1. prompt.pc = "open" /\ prompt'.pc = "ended" /\ parts' = parts /\ concluded' = concluded
        <3>1. prompt' = [prompt EXCEPT !.pc = "ended"]
            BY <1>13 DEF StreamCloses, End
        <3> QED
            BY <1>13, <3>1 DEF StreamCloses, PromptType, Prompts
    <2>2. CASE concluded
        <3>1. reply' = reply
            BY <1>13, <2>2 DEF StreamCloses
        <3>2. \E i \in DOMAIN reply : reply[i].type = "done"
            BY <2>1, <2>2 DEF StreamInv, PartsKept
        <3> QED
            BY <2>1, <3>1, <3>2 DEF StreamInv, PartsKept, StreamIsWhole, Deltas
    <2>3. CASE ~concluded
        <3>1. reply' = Append(reply, Plain("done", parts))
            BY <1>13, <2>3 DEF StreamCloses
        <3> QED
            BY <1>6, <2>1, <3>1, StreamGrows, EventsTyped DEF EventTypes
    <2> QED
        BY <2>2, <2>3
<1>14. CASE StreamBreaks
    <2>1. prompt.pc = "open" /\ prompt'.pc = "ended" /\ parts' = parts
          /\ reply' = Append(reply, Failure(502))
        BY <1>14 DEF StreamBreaks, End, PromptType, Prompts
    <2> QED
        BY <2>1, StreamGrows, EventsTyped
<1>15. CASE UNCHANGED providerVars
    BY <1>11, <1>15 DEF providerVars
<1>16. ASSUME NEW provider \in PROVIDERS, StreamDryRun(provider) PROVE StreamInv'
    BY <1>16, DryRunStep
<1>17. ASSUME NEW provider \in PROVIDERS, StreamCut(provider) PROVE StreamInv'
    <2> DEFINE begin == Plain("start", 0)
    <2>1. begin \in Event /\ begin.type = "start"
        BY EventsTyped DEF EventTypes
    <2>2. prompt'.pc = "raised" /\ parts' = parts /\ reply' = <<begin>>
        BY <1>17 DEF StreamCut, Ask
    <2> HIDE DEF begin
    <2>3. reply' \in Seq(Event) /\ \A i \in DOMAIN reply' : reply'[i] = begin
        BY <2>1, <2>2
    <2> QED
        BY <2>1, <2>2, <2>3, <1>6 DEF StreamInv, PartsKept, StreamIsWhole
<1>18. CASE StreamRaises
    <2>1. prompt'.pc = "raised" /\ parts' = parts /\ reply' = reply
        BY <1>18 DEF StreamRaises, PromptType, Prompts
    <2> QED
        BY <2>1 DEF StreamInv, PartsKept, StreamIsWhole, Deltas
<1> QED
    BY <1>2, <1>3, <1>4, <1>5, <1>7, <1>8, <1>9, <1>10, <1>12, <1>13, <1>14, <1>15, <1>16, <1>17,
       <1>18 DEF ProviderNext

\* However long a provider's stream is, the client is told that it is over unless an
\* exception that nothing catches cuts it off, and every done event, before such a cut
\* as well, carries the text of all the deltas before it: stream_complete and the
\* stream of every provider in model_providers.py, as routers/models.py serves them.
THEOREM StreamTheorem == ProviderSpec => [](ProviderTypeOK /\ StreamIsWhole)
<1>1. ProviderSpec => [](PromptType /\ StreamInv)
    BY PromptInitType, PromptStep, StreamInitInv, StreamStep, PTL DEF ProviderSpec
<1>2. PromptType /\ StreamInv => ProviderTypeOK /\ StreamIsWhole
    BY DEF StreamInv, PromptType, Prompts, ProviderTypeOK
<1> QED
    BY <1>1, <1>2, PTL

-----------------------------------------------------------------------------
(* AgentStep *)

LEMMA SequenceOf ==
    ASSUME NEW source, NEW output, \A i \in DOMAIN output.findings : output.findings[i] = source
    PROVE  ToSet(output.findings) \subseteq {source}
BY DEF ToSet

\* What does not come from the model is honest, whoever was asked.
LEMMA NotTheModels ==
    ASSUME NEW output, NEW source \in {"scan", "expected"}, output.call # "sandbox_live",
           \A i \in DOMAIN output.findings : output.findings[i] = source
    PROVE  output.call # "sandbox_live" /\ "model" \notin ToSet(output.findings)
<1>1. ToSet(output.findings) \subseteq {source}
    BY SequenceOf
<1>2. source # "model"
    OBVIOUS
<1> QED
    BY <1>1, <1>2

LEMMA NoOutputSound ==
    ASSUME NEW output, output.findings = <<>>, output.call # "sandbox_live"
    PROVE  "model" \notin ToSet(output.findings)
BY DEF ToSet

LEMMA ExpectedSound ==
    ASSUME NEW call, NEW ok, call # "sandbox_live"
    PROVE  LET output == [ok |-> ok, call |-> call, findings |-> <<"expected">>] IN
           /\ output.call # "sandbox_live" /\ "model" \notin ToSet(output.findings)
           /\ output.findings # <<>>
BY DEF ToSet

\* A model's answer is never an empty list.
LEMMA NormalizedSound ==
    ASSUME NEW n \in Nat, NEW items \in BoundedSeq(BOOLEAN, n)
    PROVE  _normalize_findings(items) # <<>>
<1> DEFINE objects == Cardinality({i \in DOMAIN items : items[i]})
<1>1. PICK m \in 0..n : DOMAIN items = 1..m
    BY DEF BoundedSeq, SeqOf
<1>2. IsFiniteSet({i \in DOMAIN items : items[i]})
    BY <1>1, FS_Interval, FS_Subset
<1>3. objects \in Nat
    BY <1>2, FS_CardinalityType
<1>4. CASE objects = 0
    BY <1>4 DEF _normalize_findings
<1>5. CASE objects # 0
    <2>1. _normalize_findings(items) = [i \in 1..objects |-> "model"] /\ 1 \in 1..objects
        BY <1>3, <1>5 DEF _normalize_findings
    <2>2. DOMAIN _normalize_findings(items) # {}
        BY <2>1
    <2>3. DOMAIN <<>> = {}
        OBVIOUS
    <2> QED
        BY <2>2, <2>3
<1> QED
    BY <1>4, <1>5

LEMMA AgentInitSound == AgentInit => AgentSound
BY NoOutputSound DEF AgentInit, AgentSound, InTurn, Honest, Backed, NoOutput

\* Whoever writes what was launched, before anything is reported.
LEMMA LaunchedStep ==
    ASSUME AgentSound, stage # "done", outcome' = outcome,
           stage' \in {"logs", "collect"},
           Honest(launched.output)', Backed(launched.output)'
    PROVE  AgentSound'
<1>1. outcome = [status |-> "none", output |-> NoOutput]
    BY DEF AgentSound, InTurn
<1>2. Honest(outcome.output)' /\ Backed(outcome.output)'
    BY <1>1, NoOutputSound DEF Honest, Backed, NoOutput
<1> QED
    BY <1>1, <1>2 DEF AgentSound, InTurn

LEMMA AgentSoundStep == AgentSound /\ [AgentNext]_agentVars => AgentSound'
<1> SUFFICES ASSUME AgentSound, [AgentNext]_agentVars PROVE AgentSound'
    OBVIOUS
<1>1. ASSUME NEW call, NEW exit_code, call # "sandbox_live", stage # "done",
             stage' \in {"logs", "collect"}, outcome' = outcome,
             launched' = [exit_code |-> exit_code, output |-> Expected(call)]
      PROVE  AgentSound'
    <2>1. launched'.output = Expected(call)
        BY <1>1
    <2>2. Honest(launched.output)' /\ Backed(launched.output)'
        BY <1>1, <2>1, ExpectedSound DEF Honest, Backed, Expected
    <2> QED
        BY <1>1, <2>2, LaunchedStep
<1>2. ASSUME NEW call, NEW exit_code, call # "sandbox_live", stage # "done",
             stage' \in {"logs", "collect"}, outcome' = outcome,
             launched' = [exit_code |-> exit_code,
                          output |-> [ok |-> FALSE, call |-> call, findings |-> <<>>]]
      PROVE  AgentSound'
    <2>1. launched'.output = [ok |-> FALSE, call |-> call, findings |-> <<>>]
        BY <1>2
    <2>2. Honest(launched.output)' /\ Backed(launched.output)'
        BY <1>2, <2>1, NoOutputSound DEF Honest, Backed
    <2> QED
        BY <1>2, <2>2, LaunchedStep
<1>3. CASE _collect_workflow_documents \/ _agent_sandbox_manifest \/ ContainerStarts
    <2>1. /\ UNCHANGED <<asked, launched, outcome>>
          /\ stage \in {"documents", "settings", "launch"}
        BY <1>3 DEF _collect_workflow_documents, _agent_sandbox_manifest, ContainerStarts
    <2> QED
        BY <2>1 DEF AgentSound, InTurn, Honest, Backed
<1>4. CASE _sandbox_replay
    <2>1. CASE manifest.github
        BY <1>2, <1>4, <2>1 DEF _sandbox_replay
    <2>2. CASE ~manifest.github
        BY <1>1, <1>4, <2>2 DEF _sandbox_replay
    <2> QED
        BY <2>1, <2>2
<1>5. CASE _agent_output_from_manifest
    BY <1>1, <1>5 DEF _agent_output_from_manifest
<1>6. CASE _try_live
    <2>1. PICK items \in BoundedSeq(BOOLEAN, MaxItems) :
            Emit(0, [ok |-> TRUE, call |-> "sandbox_live", findings |-> _normalize_findings(items)])
        BY <1>6 DEF _try_live
    <2>2. _normalize_findings(items) # <<>>
        BY NormalizedSound, AgentAssumption
    <2>3. launched'.output.findings = _normalize_findings(items)
          /\ stage' = "logs" /\ outcome' = outcome /\ asked' = "answered" /\ stage = "harness"
        BY <1>6, <2>1 DEF Emit, _try_live
    <2>4. Honest(launched.output)' /\ Backed(launched.output)'
        BY <2>2, <2>3 DEF Honest, Backed
    <2> QED
        BY <2>3, <2>4, LaunchedStep
<1>7. CASE _stub_output
    BY <1>1, <1>7 DEF _stub_output, Emit
<1>8. CASE HarnessDies
    BY <1>2, <1>8 DEF HarnessDies, Emit, NoOutput
<1>9. CASE _scan
    <2>1. PICK findings :
            Emit(0, [ok |-> TRUE, call |-> "sandbox_static_verifier",
                     findings |-> [i \in DOMAIN findings |-> "scan"]])
        BY <1>9 DEF _scan
    <2> DEFINE output == [ok |-> TRUE, call |-> "sandbox_static_verifier",
                          findings |-> [i \in DOMAIN findings |-> "scan"]]
    <2>2. launched'.output = output /\ stage' = "logs" /\ outcome' = outcome
          /\ stage = "harness" /\ asked' = asked
        BY <1>9, <2>1 DEF _scan, Emit
    <2>3. output.call = "sandbox_static_verifier"
          /\ \A i \in DOMAIN output.findings : output.findings[i] = "scan"
        OBVIOUS
    <2> HIDE DEF output
    <2>4. "model" \notin ToSet(output.findings)
        BY <2>3, NotTheModels
    <2>5. asked = "not"
        BY <2>2 DEF AgentSound, InTurn
    <2>6. Honest(launched.output)' /\ Backed(launched.output)'
        BY <2>2, <2>3, <2>4, <2>5 DEF Honest, Backed
    <2> QED
        BY <2>2, <2>6, LaunchedStep
<1>10. CASE DownloadFails
    BY <1>2, <1>10 DEF DownloadFails, Emit
<1>11. CASE _parse_agent_output
    <2>1. stage = "logs" /\ stage' = "collect" /\ asked' = asked /\ outcome' = outcome
        BY <1>11 DEF _parse_agent_output
    <2>2. launched' = launched \/ launched' = [exit_code |-> launched.exit_code, output |-> NoOutput]
        BY <1>11 DEF _parse_agent_output
    <2>3. launched'.output = launched.output \/ launched'.output = NoOutput
        BY <2>2
    <2>4. Honest(launched.output)' /\ Backed(launched.output)'
        <3>1. CASE launched'.output = launched.output
            BY <2>1, <3>1 DEF AgentSound, Honest, Backed
        <3>2. CASE launched'.output = NoOutput
            BY <3>2, NoOutputSound DEF Honest, Backed, NoOutput
        <3> QED
            BY <2>3, <3>1, <3>2
    <2> QED
        BY <2>1, <2>4, LaunchedStep
<1>12. CASE _agent_output_from_sandbox_launch
    <2> DEFINE missing == [ok |-> FALSE, call |-> "sandbox_missing_output",
                           findings |-> <<"expected">>]
               output == IF launched.output = NoOutput THEN missing ELSE launched.output
    <2>1. /\ outcome' = [output |-> output, status |->
                        IF output.ok /\ launched.exit_code = 0 THEN "succeeded" ELSE "failed"]
          /\ stage' = "done" /\ UNCHANGED <<asked, launched>>
        BY <1>12 DEF _agent_output_from_sandbox_launch
    <2>2. Honest(launched.output)' /\ Backed(launched.output)'
        BY <2>1 DEF AgentSound, Honest, Backed
    <2>3. Honest(output) /\ Backed(output)
        BY ExpectedSound DEF AgentSound, Honest, Backed
    <2> HIDE DEF output
    <2>4. outcome'.output = output /\ (outcome'.status = "succeeded" => output.ok)
        BY <2>1
    <2>5. Honest(outcome.output)' /\ Backed(outcome.output)'
        BY <2>1, <2>3, <2>4 DEF Honest, Backed
    <2> QED
        BY <2>1, <2>2, <2>4, <2>5 DEF AgentSound, InTurn
<1>13. CASE UNCHANGED agentVars
    BY <1>13 DEF agentVars, AgentSound, InTurn, Honest, Backed
<1> QED
    BY <1>3, <1>4, <1>5, <1>6, <1>7, <1>8, <1>9, <1>10, <1>11, <1>12, <1>13 DEF AgentNext

LEMMA AgentAlwaysSound == AgentSpec => []AgentSound
BY AgentInitSound, AgentSoundStep, PTL DEF AgentSpec

\* Whatever a model returns and whichever fallback made up the output, nothing is
\* called the model's unless the model was asked and answered: the harness and the
\* two readers of its output, _parse_agent_output and _sandbox_launch.
THEOREM SourceTheorem == AgentSpec => []FindingsNameTheirSource
<1>1. AgentSound => FindingsNameTheirSource
    BY DEF AgentSound, Honest, FindingsNameTheirSource
<1> QED
    BY <1>1, AgentAlwaysSound, PTL

\* A step that succeeds has findings to show or is a scan that was carried out:
\* no lost output, cut log or failed download passes as a clean result
\* (_agent_output_from_sandbox_launch).
THEOREM BackedTheorem == AgentSpec => []SuccessIsBacked
<1>1. AgentSound => SuccessIsBacked
    BY DEF AgentSound, Backed, SuccessIsBacked
<1> QED
    BY <1>1, AgentAlwaysSound, PTL

-----------------------------------------------------------------------------
(* What a recursion over a sequence computes *)

LEMMA Least ==
    ASSUME NEW S, S \subseteq Nat, S # {}
    PROVE  \E x \in S : \A y \in S : x <= y
<1>1. PICK x \in S : \A y \in S : ~ (<<y, x>> \in OpToRel(<, Nat))
    BY NatLessThanWellFounded, WFMin
<1>2. \A y \in S : ~ (y < x)
    BY <1>1, Zenon DEF OpToRel
<1> QED
    BY <1>2

\* The values a sequence takes an accumulator through: step maps the accumulator and an
\* element to the next accumulator.
Accumulations(V, start, step, s, n) ==
    {f \in [0..n -> V] : f[0] = start /\ \A k \in 1..n : f[k] = step[<<f[k - 1], s[k]>>]}

\* They exist, for otherwise there would be a shortest beginning without them.
LEMMA AccumulationsExist ==
    ASSUME NEW V, NEW D, NEW start \in V, NEW step \in [V \X D -> V],
           NEW n \in Nat, NEW s \in [1..n -> D]
    PROVE  Accumulations(V, start, step, s, n) # {}
<1> DEFINE bad == {k \in 0..n : Accumulations(V, start, step, s, k) = {}}
<1>1. SUFFICES ASSUME bad # {} PROVE FALSE
    <2>1. n \in 0..n
        OBVIOUS
    <2> QED
        BY <1>1, <2>1
<1>2. PICK k \in bad : \A j \in bad : k <= j
    <2>1. bad \subseteq Nat
        OBVIOUS
    <2> HIDE DEF bad
    <2> QED
        BY <1>1, <2>1, Least
<1>3. k \in 0..n /\ k \in Nat /\ Accumulations(V, start, step, s, k) = {}
    BY <1>2
<1>4. CASE k = 0
    <2> DEFINE g == [j \in 0..0 |-> start]
    <2>1. g \in [0..0 -> V] /\ g[0] = start /\ 1..0 = {}
        OBVIOUS
    <2> HIDE DEF g
    <2>2. g \in Accumulations(V, start, step, s, 0)
        BY <2>1 DEF Accumulations
    <2> QED
        BY <1>3, <1>4, <2>2
<1>5. CASE k # 0
    <2>1. k - 1 \in 0..n /\ k \in 1..n /\ ~(k <= k - 1) /\ k - 1 \in 0..(k - 1) /\ 0 \in 0..k
        BY <1>3, <1>5
    <2>2. k - 1 \notin bad
        BY <1>2, <2>1, Zenon
    <2>3. PICK f : f \in Accumulations(V, start, step, s, k - 1)
        BY <2>1, <2>2
    <2>4. /\ f \in [0..(k - 1) -> V] /\ f[0] = start
          /\ \A j \in 1..(k - 1) : f[j] = step[<<f[j - 1], s[j]>>]
        BY <2>3 DEF Accumulations
    <2> DEFINE last == step[<<f[k - 1], s[k]>>]
               g == [j \in 0..k |-> IF j = k THEN last ELSE f[j]]
    <2>5. last \in V
        <3>1. f[k - 1] \in V
            BY <2>1, <2>4
        <3>2. s[k] \in D
            BY <2>1
        <3>3. <<f[k - 1], s[k]>> \in V \X D
            BY <3>1, <3>2
        <3> QED
            BY <3>3
    <2>6. g \in [0..k -> V]
        <3>1. \A j \in 0..k : j # k => j \in 0..(k - 1)
            BY <1>3
        <3> HIDE DEF last
        <3>2. ASSUME NEW j \in 0..k PROVE (IF j = k THEN last ELSE f[j]) \in V
            BY <2>4, <2>5, <3>1
        <3> QED
            BY <3>2
    <2>7. g[0] = start
        <3> HIDE DEF last
        <3> QED
            BY <1>5, <2>1, <2>4
    <2>8. ASSUME NEW j \in 1..k PROVE g[j] = step[<<g[j - 1], s[j]>>]
        <3>1. CASE j = k
            <4>1. g[j] = last /\ g[j - 1] = f[k - 1]
                <5> HIDE DEF last
                <5> QED  BY <1>3, <2>1, <3>1
            <4> QED
                BY <3>1, <4>1
        <3>2. CASE j # k
            <4>1. j \in 1..(k - 1) /\ j - 1 \in 0..(k - 1) /\ j \in 0..k /\ j - 1 # k
                BY <1>3, <3>2
            <4>2. g[j] = f[j] /\ g[j - 1] = f[j - 1]
                <5> HIDE DEF last
                <5> QED  BY <3>2, <4>1
            <4> QED
                BY <2>4, <4>1, <4>2
        <3> QED
            BY <3>1, <3>2
    <2> HIDE DEF g
    <2>9. g \in Accumulations(V, start, step, s, k)
        BY <2>6, <2>7, <2>8 DEF Accumulations
    <2> QED
        BY <1>3, <2>9
<1> QED
    BY <1>4, <1>5

\* Sum, as a function that meets its equations.
Sums(s, n) ==
    CHOOSE f : f = [k \in 0..n |-> IF k = 0 THEN 0 ELSE f[k - 1] + s[k]]

LEMMA SumsMeet ==
    ASSUME NEW n \in Nat, NEW s \in [1..n -> Nat]
    PROVE  /\ Sums(s, n) \in [0..n -> Nat]
           /\ Sums(s, n)[0] = 0
           /\ \A k \in 1..n : Sums(s, n)[k] = Sums(s, n)[k - 1] + s[k]
<1> DEFINE step == [p \in Nat \X Nat |-> p[1] + p[2]]
           Body(f, k) == IF k = 0 THEN 0 ELSE f[k - 1] + s[k]
           Meets(f) == f = [k \in 0..n |-> Body(f, k)]
           sums == CHOOSE f : Meets(f)
<1>1. step \in [Nat \X Nat -> Nat] /\ 0 \in Nat
    OBVIOUS
<1>2. PICK f : f \in Accumulations(Nat, 0, step, s, n)
    <2> HIDE DEF step
    <2>1. Accumulations(Nat, 0, step, s, n) # {}
        BY <1>1, AccumulationsExist
    <2> QED
        BY <2>1
<1>3. f \in [0..n -> Nat] /\ f[0] = 0 /\ \A k \in 1..n : f[k] = step[<<f[k - 1], s[k]>>]
    <2> HIDE DEF step
    <2> QED
        BY <1>2 DEF Accumulations
<1>4. ASSUME NEW k \in 0..n PROVE f[k] = Body(f, k)
    <2>1. CASE k = 0
        BY <1>3, <2>1
    <2>2. CASE k # 0
        <3>0. k \in 1..n /\ k - 1 \in 0..n
            BY <2>2
        <3>1. f[k - 1] \in Nat /\ s[k] \in Nat
            <4> HIDE DEF step
            <4> QED  BY <1>3, <3>0
        <3>2. step[<<f[k - 1], s[k]>>] = f[k - 1] + s[k]
            BY <3>1
        <3> HIDE DEF step
        <3> QED
            BY <1>3, <2>2, <3>0, <3>2
    <2> QED
        BY <2>1, <2>2
<1>5. Meets(f)
    <2> HIDE DEF Body
    <2> QED
        BY <1>3, <1>4
<1>6. Meets(sums)
    <2> HIDE DEF Meets
    <2> QED
        BY <1>5
<1>7. sums = [k \in 0..n |-> Body(sums, k)]
    BY <1>6
<1>8. Sums(s, n) = sums
    BY DEF Sums
<1> HIDE DEF sums
<1>9. DOMAIN sums = 0..n /\ \A k \in 0..n : sums[k] = Body(sums, k)
    <2> DEFINE values == [k \in 0..n |-> Body(sums, k)]
    <2>1. DOMAIN values = 0..n /\ \A k \in 0..n : values[k] = Body(sums, k)
        <3> HIDE DEF Body
        <3> QED
            OBVIOUS
    <2>2. sums = values
        BY <1>7
    <2> HIDE DEF values, Body
    <2> QED
        BY <2>1, <2>2
<1>10. ASSUME NEW k \in 0..n PROVE sums[k] \in Nat
    <2> DEFINE bad == {j \in 0..n : sums[j] \notin Nat}
    <2> SUFFICES ASSUME k \in bad PROVE FALSE
        OBVIOUS
    <2>1. PICK j \in bad : \A i \in bad : j <= i
        <3>1. bad \subseteq Nat /\ bad # {}
            OBVIOUS
        <3> HIDE DEF bad
        <3> QED
            BY <3>1, Least
    <2>2. j # 0
        BY <1>9
    <2>3. j - 1 \in 0..n /\ j - 1 \notin bad
        BY <2>1, <2>2
    <2>4. sums[j - 1] \in Nat /\ s[j] \in Nat
        BY <2>1, <2>2, <2>3
    <2> QED
        BY <1>9, <2>1, <2>2, <2>4
<1>11. sums = [k \in 0..n |-> sums[k]]
    <2> DEFINE values == [k \in 0..n |-> Body(sums, k)]
    <2>1. values = [k \in 0..n |-> values[k]]
        <3> HIDE DEF Body
        <3> QED
            OBVIOUS
    <2>2. sums = values
        BY <1>7
    <2> HIDE DEF values
    <2> QED
        BY <2>1, <2>2
<1>12. sums \in [0..n -> Nat]
    BY <1>10, <1>11
<1>13. \A k \in 1..n : sums[k] = sums[k - 1] + s[k]
    BY <1>9
<1> QED
    BY <1>8, <1>9, <1>12, <1>13

LEMMA SumIs ==
    ASSUME NEW n \in Nat, NEW s \in [1..n -> Nat]
    PROVE  Sum(s) = Sums(s, n)[n]
<1>1. s \in Seq(Nat) /\ Len(s) = n
    OBVIOUS
<1> QED
    BY <1>1 DEF Sum, Sums

LEMMA SumOfNone == Sum(<<>>) = 0
<1>1. <<>> \in [1..0 -> Nat]
    OBVIOUS
<1> QED
    BY <1>1, SumIs, SumsMeet

\* An element more adds its value.
LEMMA SumAppend ==
    ASSUME NEW s \in Seq(Nat), NEW x \in Nat
    PROVE  Sum(Append(s, x)) = Sum(s) + x
<1> DEFINE n == Len(s)
           t == Append(s, x)
           a == Sums(s, n)
           b == Sums(t, n + 1)
<1>1. /\ n \in Nat /\ s \in [1..n -> Nat]
      /\ t \in [1..(n + 1) -> Nat]
      /\ t[n + 1] = x /\ (\A k \in 1..n : t[k] = s[k])
    <2>1. n \in Nat /\ s \in [1..n -> Nat] /\ t \in Seq(Nat) /\ Len(t) = n + 1
        OBVIOUS
    <2>2. t[n + 1] = x
        OBVIOUS
    <2>3. ASSUME NEW k \in 1..n PROVE t[k] = s[k]
        OBVIOUS
    <2> HIDE DEF n, t
    <2> QED
        BY <2>1, <2>2, <2>3
<1> HIDE DEF n, t
<1>2. /\ a \in [0..n -> Nat] /\ a[0] = 0
      /\ \A k \in 1..n : a[k] = a[k - 1] + s[k]
    BY <1>1, SumsMeet
<1>3. n + 1 \in Nat
    BY <1>1
<1>4. /\ b \in [0..(n + 1) -> Nat] /\ b[0] = 0
      /\ \A k \in 1..(n + 1) : b[k] = b[k - 1] + t[k]
    BY <1>1, <1>3, SumsMeet
<1>5. Sum(s) = a[n] /\ Sum(t) = b[n + 1]
    BY <1>1, <1>3, SumIs
<1> HIDE DEF a, b
<1>6. ASSUME NEW k \in 0..n PROVE a[k] = b[k]
    <2> DEFINE bad == {j \in 0..n : a[j] # b[j]}
    <2> SUFFICES ASSUME k \in bad PROVE FALSE
        OBVIOUS
    <2>1. PICK j \in bad : \A i \in bad : j <= i
        <3>1. bad \subseteq Nat /\ bad # {}
            BY <1>1
        <3> HIDE DEF bad
        <3> QED
            BY <3>1, Least
    <2>2. j \in 0..n /\ a[j] # b[j] /\ j # 0
        BY <1>2, <1>4, <2>1
    <2>3. j - 1 \in 0..n /\ j \in 1..n /\ j \in 1..(n + 1)
        BY <1>1, <2>2
    <2>4. a[j - 1] = b[j - 1]
        BY <1>1, <2>1, <2>3
    <2>5. a[j] = a[j - 1] + s[j] /\ b[j] = b[j - 1] + t[j] /\ t[j] = s[j]
        BY <1>1, <1>2, <1>4, <2>3
    <2> QED
        BY <2>2, <2>4, <2>5
<1>7. b[n + 1] = b[n] + x /\ a[n] = b[n]
    <2>1. n + 1 \in 1..(n + 1) /\ n \in 0..n /\ (n + 1) - 1 = n
        BY <1>1
    <2>2. a[n] = b[n]
        BY <1>6, <2>1
    <2>3. b[n + 1] = b[(n + 1) - 1] + t[n + 1]
        BY <1>4, <2>1
    <2> QED
        BY <1>1, <2>1, <2>2, <2>3
<1> QED
    BY <1>5, <1>7 DEF t

\* What may be inlined: documents that are small enough, in a list that is.
Fitting == {list \in Seq(Sizes \cap 1..DocCap) : Sum(list) <= TotalCap}

LEMMA InlineFits ==
    ASSUME NEW list \in Fitting, NEW size \in Sizes
    PROVE  Inline(list, size) \in Fitting
<1>1. list \in Seq(Sizes \cap 1..DocCap) /\ Sum(list) <= TotalCap
    BY DEF Fitting
<1>2. CASE size > 0 /\ size <= DocCap /\ Sum(list) + size <= TotalCap
    <2>1. size \in Nat /\ size \in Sizes \cap 1..DocCap
        BY <1>2, AgentAssumption
    <2>2. list \in Seq(Nat)
        <3>1. Sizes \cap 1..DocCap \subseteq Nat
            BY AgentAssumption
        <3> QED
            BY <1>1, <3>1
    <2>3. Sum(Append(list, size)) = Sum(list) + size
        BY <2>1, <2>2, SumAppend
    <2>4. Append(list, size) \in Seq(Sizes \cap 1..DocCap)
        BY <1>1, <2>1
    <2> QED
        BY <1>2, <2>3, <2>4 DEF Inline, Fitting
<1>3. CASE ~(size > 0 /\ size <= DocCap /\ Sum(list) + size <= TotalCap)
    BY <1>3 DEF Inline
<1> QED
    BY <1>2, <1>3

LEMMA NoneFits == <<>> \in Fitting
BY SumOfNone, AgentAssumption DEF Fitting

LEMMA DocumentsTyped ==
    ASSUME NEW m \in Nat, NEW documents \in BoundedSeq(Sizes, m)
    PROVE  \E n \in Nat : documents \in [1..n -> Sizes] /\ Len(documents) = n
<1>1. PICK n \in 0..m : documents \in [1..n -> Sizes]
    BY DEF BoundedSeq, SeqOf
<1> QED
    BY <1>1

\* Whatever the documents, what is inlined of them fits.
LEMMA InlinedFits ==
    ASSUME NEW m \in Nat, NEW documents \in BoundedSeq(Sizes, m)
    PROVE  Inlined(documents) \in Fitting
<1>1. PICK n \in Nat : documents \in [1..n -> Sizes] /\ Len(documents) = n
    BY DocumentsTyped
<1> DEFINE step == [p \in Fitting \X Sizes |-> Inline(p[1], p[2])]
           Body(f, k) == IF k = 0 THEN <<>> ELSE Inline(f[k - 1], documents[k])
           Meets(f) == f = [k \in 0..n |-> Body(f, k)]
           inlined == CHOOSE f : Meets(f)
<1>2. step \in [Fitting \X Sizes -> Fitting]
    BY InlineFits
<1>3. PICK f : f \in Accumulations(Fitting, <<>>, step, documents, n)
    <2> HIDE DEF step
    <2>1. Accumulations(Fitting, <<>>, step, documents, n) # {}
        BY <1>1, <1>2, NoneFits, AccumulationsExist
    <2> QED
        BY <2>1
<1>4. /\ f \in [0..n -> Fitting] /\ f[0] = <<>>
      /\ \A k \in 1..n : f[k] = step[<<f[k - 1], documents[k]>>]
    <2> HIDE DEF step
    <2> QED
        BY <1>3 DEF Accumulations
<1>5. ASSUME NEW k \in 0..n PROVE f[k] = Body(f, k)
    <2>1. CASE k = 0
        BY <1>4, <2>1
    <2>2. CASE k # 0
        <3>1. k \in 1..n /\ k - 1 \in 0..n
            BY <2>2
        <3>2. f[k - 1] \in Fitting /\ documents[k] \in Sizes
            <4> HIDE DEF step
            <4> QED  BY <1>1, <1>4, <3>1
        <3>3. step[<<f[k - 1], documents[k]>>] = Inline(f[k - 1], documents[k])
            BY <3>2
        <3> HIDE DEF step
        <3> QED
            BY <1>4, <2>2, <3>1, <3>3
    <2> QED
        BY <2>1, <2>2
<1>6. Meets(f)
    <2> HIDE DEF Body
    <2> QED
        BY <1>4, <1>5
<1>7. Meets(inlined)
    <2> HIDE DEF Meets
    <2> QED
        BY <1>6
<1>8. inlined = [k \in 0..n |-> Body(inlined, k)]
    BY <1>7
<1>9. Inlined(documents) = inlined[n]
    BY <1>1 DEF Inlined
<1> HIDE DEF inlined
<1>10. \A k \in 0..n : inlined[k] = Body(inlined, k)
    <2> DEFINE values == [k \in 0..n |-> Body(inlined, k)]
    <2>1. \A k \in 0..n : values[k] = Body(inlined, k)
        <3> HIDE DEF Body
        <3> QED
            OBVIOUS
    <2>2. inlined = values
        BY <1>8
    <2> HIDE DEF values, Body
    <2> QED
        BY <2>1, <2>2
<1>11. ASSUME NEW k \in 0..n PROVE inlined[k] \in Fitting
    <2> DEFINE bad == {j \in 0..n : inlined[j] \notin Fitting}
    <2> SUFFICES ASSUME k \in bad PROVE FALSE
        OBVIOUS
    <2>1. PICK j \in bad : \A i \in bad : j <= i
        <3>1. bad \subseteq Nat /\ bad # {}
            OBVIOUS
        <3> HIDE DEF bad
        <3> QED
            BY <3>1, Least
    <2>2. j # 0
        BY <1>10, <2>1, NoneFits
    <2>3. j - 1 \in 0..n /\ ~(j <= j - 1) /\ j \in 1..n
        BY <2>1, <2>2
    <2>4. inlined[j - 1] \in Fitting
        <3>1. j - 1 \notin bad
            BY <2>1, <2>3, Zenon
        <3> QED
            BY <2>3, <3>1
    <2>5. documents[j] \in Sizes
        BY <1>1, <2>3
    <2>6. inlined[j] = Inline(inlined[j - 1], documents[j])
        BY <1>10, <2>1, <2>2
    <2>7. inlined[j] \in Fitting
        BY <2>4, <2>5, <2>6, InlineFits
    <2> QED
        BY <2>1, <2>7
<1> QED
    BY <1>9, <1>11

-----------------------------------------------------------------------------
(* What an agent step can be *)

Manifests == [mode : Modes, provider : BOOLEAN, key : BOOLEAN, github : BOOLEAN,
              inlined : Fitting, topics : SUBSET Topics]

AgentTyped ==
    /\ stage \in {"documents", "settings", "launch", "harness", "logs", "collect", "done"}
    /\ manifest \in Manifests
    /\ asked \in {"not", "answered", "failed"}
    /\ launched \in [exit_code : Nat, output : Output]
    /\ outcome \in [status : {"none", "succeeded", "failed"}, output : Output]

LEMMA AgentTypedOK == AgentTyped => AgentTypeOK
BY DEF AgentTyped, AgentTypeOK, Manifests, Fitting

LEMMA OutputsTyped ==
    /\ NoOutput \in Output
    /\ \A call \in Calls : Expected(call) \in Output
    /\ \A ok \in BOOLEAN, call \in Calls :
            /\ [ok |-> ok, call |-> call, findings |-> <<>>] \in Output
            /\ [ok |-> ok, call |-> call, findings |-> <<"expected">>] \in Output
<1>1. <<"expected">> \in Seq(Sources) /\ <<>> \in Seq(Sources)
    BY DEF Sources
<1> QED
    BY <1>1 DEF NoOutput, Expected, Output, Calls

LEMMA AgentInitTyped == AgentInit => AgentTyped
BY OutputsTyped, NoneFits DEF AgentInit, AgentTyped, Manifests, Modes, Topics

\* What a model's answer is made into, is a list of findings.
LEMMA NormalizedTyped ==
    ASSUME NEW n \in Nat, NEW items \in BoundedSeq(BOOLEAN, n)
    PROVE  _normalize_findings(items) \in Seq(Sources)
<1> DEFINE objects == Cardinality({i \in DOMAIN items : items[i]})
<1>1. PICK m \in 0..n : DOMAIN items = 1..m
    BY DEF BoundedSeq, SeqOf
<1>2. IsFiniteSet({i \in DOMAIN items : items[i]})
    BY <1>1, FS_Interval, FS_Subset
<1>3. objects \in Nat
    BY <1>2, FS_CardinalityType
<1>4. _normalize_findings(items) = IF objects = 0 THEN <<"expected">> ELSE [i \in 1..objects |-> "model"]
    BY DEF _normalize_findings
<1> HIDE DEF objects
<1>5. <<"expected">> \in Seq(Sources) /\ [i \in 1..objects |-> "model"] \in Seq(Sources)
    BY <1>3 DEF Sources
<1> QED
    BY <1>4, <1>5

\* The scan reports a sequence: the listing of a set.
LEMMA ScanTyped ==
    ASSUME NEW S \in SUBSET Topics
    PROVE  [i \in DOMAIN SetToSeq(S) |-> "scan"] \in Seq(Sources)
<1>1. IsFiniteSet(S)
    <2>1. IsFiniteSet({"email"}) /\ IsFiniteSet({"secret"}) /\ IsFiniteSet({"exec"})
        BY FS_Singleton
    <2>2. IsFiniteSet({"email"} \cup {"secret"})
        BY <2>1, FS_Union
    <2>3. IsFiniteSet(({"email"} \cup {"secret"}) \cup {"exec"})
        BY <2>1, <2>2, FS_Union
    <2>4. S \subseteq ({"email"} \cup {"secret"}) \cup {"exec"}
        BY DEF Topics
    <2> QED
        BY <2>3, <2>4, FS_Subset
<1> DEFINE n == Cardinality(S)
<1>2. n \in Nat /\ ExistsBijection(1..n, S)
    BY <1>1, FS_CardinalityType
<1>3. PICK f : f \in Bijection(1..n, S)
    BY <1>2 DEF ExistsBijection
<1> HIDE DEF n
<1>4. f \in [1..n -> S] /\ IsInjective(f)
    BY <1>3 DEF Bijection, Injection, IsInjective
<1>5. SetToSeq(S) = CHOOSE g \in [1..n -> S] : IsInjective(g)
    BY DEF SetToSeq, n
<1>6. SetToSeq(S) \in [1..n -> S]
    BY <1>4, <1>5
<1>7. DOMAIN SetToSeq(S) = 1..n
    BY <1>6
<1> QED
    BY <1>2, <1>7 DEF Sources

\* A launch that is answered with an output leaves the rest as it is.
LEMMA LaunchedTyped ==
    ASSUME AgentTyped, NEW exit_code \in Nat, NEW output \in Output,
           stage' \in {"logs", "collect"}, asked' \in {"not", "answered", "failed"},
           UNCHANGED <<manifest, outcome>>,
           launched' = [exit_code |-> exit_code, output |-> output]
    PROVE  AgentTyped'
BY DEF AgentTyped

LEMMA AgentTypeStep == AgentTyped /\ [AgentNext]_agentVars => AgentTyped'
<1> SUFFICES ASSUME AgentTyped, [AgentNext]_agentVars PROVE AgentTyped'
    OBVIOUS
<1>1. CASE _collect_workflow_documents
    <2>1. PICK documents \in BoundedSeq(Sizes, MaxDocs), topics \in SUBSET Topics :
            manifest' = [manifest EXCEPT !.inlined = Inlined(documents),
                             !.topics = IF Inlined(documents) = <<>> THEN {} ELSE topics]
        BY <1>1, Zenon DEF _collect_workflow_documents
    <2>2. Inlined(documents) \in Fitting
        BY InlinedFits, AgentAssumption
    <2>3. manifest' \in Manifests
        BY <2>1, <2>2 DEF AgentTyped, Manifests
    <2> QED
        BY <1>1, <2>3 DEF AgentTyped, _collect_workflow_documents
<1>2. CASE _agent_sandbox_manifest
    <2>1. PICK mode \in Modes, provider, key, github \in BOOLEAN :
            manifest' = [manifest EXCEPT !.mode = mode, !.provider = provider, !.key = key,
                                         !.github = github]
        BY <1>2 DEF _agent_sandbox_manifest
    <2>2. manifest' \in Manifests
        BY <2>1 DEF AgentTyped, Manifests
    <2> QED
        BY <1>2, <2>2 DEF AgentTyped, _agent_sandbox_manifest
<1>3. CASE ContainerStarts
    BY <1>3 DEF AgentTyped, ContainerStarts
<1>4. CASE _sandbox_replay
    <2> DEFINE output == IF manifest.github
                 THEN [ok |-> FALSE, call |-> "sandbox_replay_unavailable", findings |-> <<>>]
                 ELSE Expected("sandbox_replay")
    <2>1. output \in Output
        BY OutputsTyped DEF Calls
    <2>2. /\ launched' = [exit_code |-> 0, output |-> output]
          /\ stage' = "collect" /\ UNCHANGED <<manifest, asked, outcome>>
        BY <1>4 DEF _sandbox_replay
    <2> HIDE DEF output
    <2> QED
        BY <2>1, <2>2 DEF AgentTyped
<1>5. CASE _agent_output_from_manifest
    <2>1. Expected("sandbox_replay") \in Output
        BY OutputsTyped DEF Calls
    <2> QED
        BY <1>5, <2>1 DEF AgentTyped, _agent_output_from_manifest
<1>6. CASE _try_live
    <2>1. PICK items \in BoundedSeq(BOOLEAN, MaxItems) :
            Emit(0, [ok |-> TRUE, call |-> "sandbox_live", findings |-> _normalize_findings(items)])
        BY <1>6 DEF _try_live
    <2>2. _normalize_findings(items) \in Seq(Sources)
        BY NormalizedTyped, AgentAssumption
    <2> DEFINE output == [ok |-> TRUE, call |-> "sandbox_live", findings |-> _normalize_findings(items)]
    <2>3. output \in Output
        BY <2>2 DEF Output, Calls
    <2>4. /\ launched' = [exit_code |-> 0, output |-> output]
          /\ stage' = "logs" /\ UNCHANGED <<manifest, outcome>> /\ asked' = "answered"
        BY <1>6, <2>1 DEF _try_live, Emit
    <2> HIDE DEF output
    <2> QED
        BY <2>3, <2>4, LaunchedTyped
<1>7. CASE _stub_output
    <2>1. Expected("sandbox_dry_run") \in Output
        BY OutputsTyped DEF Calls
    <2>2. /\ launched' = [exit_code |-> 0, output |-> Expected("sandbox_dry_run")]
          /\ stage' = "logs" /\ UNCHANGED <<manifest, outcome>> /\ asked' \in {"failed", "not"}
        BY <1>7 DEF _stub_output, Emit
    <2> QED
        BY <2>1, <2>2, LaunchedTyped
<1>8. CASE HarnessDies
    <2>1. /\ launched' = [exit_code |-> 1, output |-> NoOutput]
          /\ stage' = "logs" /\ UNCHANGED <<manifest, outcome>> /\ asked' \in {"failed", "not"}
        BY <1>8 DEF HarnessDies, Emit
    <2> QED
        BY <2>1, OutputsTyped, LaunchedTyped
<1>9. CASE _scan
    <2>1. PICK hits \in SUBSET Topics :
            Emit(0, [ok |-> TRUE, call |-> "sandbox_static_verifier", findings |->
                        [i \in DOMAIN SetToSeq({topic \in hits : _rule_enabled(topic)}) |-> "scan"]])
        BY <1>9, Zenon DEF _scan
    <2> DEFINE found == [i \in DOMAIN SetToSeq({topic \in hits : _rule_enabled(topic)}) |-> "scan"]
    <2>2. found \in Seq(Sources)
        BY ScanTyped
    <2> HIDE DEF found
    <2> DEFINE output == [ok |-> TRUE, call |-> "sandbox_static_verifier", findings |-> found]
    <2>3. output \in Output
        BY <2>2 DEF Output, Calls
    <2>4. launched' = [exit_code |-> 0, output |-> output] /\ stage' = "logs"
          /\ UNCHANGED <<manifest, outcome>> /\ asked' = asked
        BY <1>9, <2>1, Zenon DEF _scan, Emit, found
    <2> HIDE DEF output
    <2> QED
        BY <2>3, <2>4, LaunchedTyped DEF AgentTyped
<1>10. CASE DownloadFails
    <2> DEFINE output == [ok |-> FALSE, call |-> "sandbox_static_verifier", findings |-> <<>>]
    <2>1. output \in Output
        BY OutputsTyped DEF Calls
    <2>2. /\ launched' = [exit_code |-> 2, output |-> output]
          /\ stage' = "logs" /\ UNCHANGED <<manifest, outcome>> /\ asked' = "failed"
        BY <1>10 DEF DownloadFails, Emit
    <2> HIDE DEF output
    <2> QED
        BY <2>1, <2>2, LaunchedTyped
<1>11. CASE _parse_agent_output
    <2>1. launched' \in [exit_code : Nat, output : Output]
        BY <1>11, OutputsTyped DEF AgentTyped, _parse_agent_output
    <2> QED
        BY <1>11, <2>1 DEF AgentTyped, _parse_agent_output
<1>12. CASE _agent_output_from_sandbox_launch
    <2> DEFINE missing == [ok |-> FALSE, call |-> "sandbox_missing_output",
                           findings |-> <<"expected">>]
               output == IF launched.output = NoOutput THEN missing ELSE launched.output
    <2>1. missing \in Output
        BY OutputsTyped DEF Calls
    <2>2. /\ outcome' = [output |-> output, status |->
                        IF output.ok /\ launched.exit_code = 0 THEN "succeeded" ELSE "failed"]
          /\ stage' = "done" /\ UNCHANGED <<manifest, asked, launched>>
        BY <1>12 DEF _agent_output_from_sandbox_launch
    <2> HIDE DEF missing
    <2>3. output \in Output
        BY <2>1 DEF AgentTyped
    <2> HIDE DEF output
    <2> QED
        BY <2>2, <2>3 DEF AgentTyped
<1>13. CASE UNCHANGED agentVars
    BY <1>13 DEF agentVars, AgentTyped
<1> QED
    BY <1>1, <1>2, <1>3, <1>4, <1>5, <1>6, <1>7, <1>8, <1>9, <1>10, <1>11, <1>12, <1>13 DEF AgentNext

\* Whatever documents the corpora hold and whichever way the step goes: what is inlined
\* keeps both bounds of the bundle, the one per document and the one on their total, and
\* what is reported is an output.
THEOREM AgentTypeTheorem == AgentSpec => []AgentTypeOK
<1>1. AgentSpec => []AgentTyped
    BY AgentInitTyped, AgentTypeStep, PTL DEF AgentSpec
<1> QED
    BY <1>1, AgentTypedOK, PTL

-----------------------------------------------------------------------------
(* DemoSimulator *)

StepTypes == {"hook.in", "hook.out", "corpus.query", "agent", "finding.emit", "change.propose",
              "gate.policy", "gate.human"}
ScriptSteps == [type : StepTypes, findings : SUBSET {"scripted"}, proposals : SUBSET {"scripted"},
                pull : BOOLEAN, is_live_agent : BOOLEAN]

LEMMA StepsTyped ==
    /\ \A type \in StepTypes : Plainly(type) \in ScriptSteps /\ Plainly(type).type = type
    /\ Finds \in ScriptSteps /\ Finds.type = "agent"
    /\ [Finds EXCEPT !.is_live_agent = TRUE] \in ScriptSteps
    /\ [Finds EXCEPT !.is_live_agent = TRUE].type = "agent"
    /\ Proposes \in ScriptSteps /\ Proposes.type = "change.propose"
    /\ Pull \in ScriptSteps /\ Pull.type = "hook.in"
<1>1. \A type \in StepTypes : Plainly(type) \in ScriptSteps /\ Plainly(type).type = type
    BY DEF Plainly, ScriptedStep, ScriptSteps
<1>2. Finds \in ScriptSteps /\ Finds.type = "agent"
    BY DEF Finds, ScriptedStep, ScriptSteps, StepTypes
<1>3. Proposes \in ScriptSteps /\ Proposes.type = "change.propose"
    BY DEF Proposes, ScriptedStep, ScriptSteps, StepTypes
<1>4. Plainly("hook.in") \in ScriptSteps /\ Plainly("hook.in").type = "hook.in"
    BY <1>1 DEF StepTypes
<1>5. \A step \in ScriptSteps :
        /\ [step EXCEPT !.pull = TRUE] \in ScriptSteps
        /\ [step EXCEPT !.pull = TRUE].type = step.type
        /\ [step EXCEPT !.is_live_agent = TRUE] \in ScriptSteps
        /\ [step EXCEPT !.is_live_agent = TRUE].type = step.type
    BY DEF ScriptSteps
<1>6. Pull \in ScriptSteps /\ Pull.type = "hook.in"
    BY <1>4, <1>5 DEF Pull
<1>7. /\ [Finds EXCEPT !.is_live_agent = TRUE] \in ScriptSteps
      /\ [Finds EXCEPT !.is_live_agent = TRUE].type = "agent"
    BY <1>2, <1>5
<1> QED
    BY <1>1, <1>2, <1>3, <1>6, <1>7

\* No script has two human gates.
OneGate(script) ==
    \A i, j \in 1..Len(script) :
        script[i].type = "gate.human" /\ script[j].type = "gate.human" => i = j

LEMMA ScriptsTyped ==
    ASSUME NEW script \in SCRIPTS \cup {<<>>}
    PROVE  script \in Seq(ScriptSteps) /\ OneGate(script)
<1> DEFINE live == [Finds EXCEPT !.is_live_agent = TRUE]
<1>1. live \in ScriptSteps /\ live.type = "agent"
    BY StepsTyped
<1>2. \A type \in StepTypes : Plainly(type) \in ScriptSteps /\ Plainly(type).type = type
    BY StepsTyped
<1>3. /\ Plainly("hook.in") \in ScriptSteps /\ Plainly("hook.in").type = "hook.in"
      /\ Plainly("hook.out") \in ScriptSteps /\ Plainly("hook.out").type = "hook.out"
      /\ Plainly("agent") \in ScriptSteps /\ Plainly("agent").type = "agent"
      /\ Plainly("corpus.query") \in ScriptSteps /\ Plainly("corpus.query").type = "corpus.query"
      /\ Plainly("finding.emit") \in ScriptSteps /\ Plainly("finding.emit").type = "finding.emit"
      /\ Plainly("gate.policy") \in ScriptSteps /\ Plainly("gate.policy").type = "gate.policy"
      /\ Plainly("gate.human") \in ScriptSteps /\ Plainly("gate.human").type = "gate.human"
    BY <1>2 DEF StepTypes
<1>4. scripted_code_compliance_scan \in Seq(ScriptSteps) /\ OneGate(scripted_code_compliance_scan)
    BY <1>3, StepsTyped DEF scripted_code_compliance_scan, OneGate
<1>5. CASE script = scripted_code_compliance_scan_full
    <2>1. script = <<Pull, Plainly("corpus.query"), live, Plainly("finding.emit"), Proposes,
                     Plainly("gate.policy"), Plainly("gate.human"), Plainly("hook.out")>>
        BY <1>5 DEF scripted_code_compliance_scan_full
    <2> HIDE DEF live
    <2> QED
        BY <2>1, <1>1, <1>3, StepsTyped DEF OneGate
<1>6. scripted_vendor_risk_review \in Seq(ScriptSteps) /\ OneGate(scripted_vendor_risk_review)
    BY <1>3, StepsTyped DEF scripted_vendor_risk_review, OneGate
<1>7. scripted_policy_gap_analysis \in Seq(ScriptSteps) /\ OneGate(scripted_policy_gap_analysis)
    BY <1>3, StepsTyped DEF scripted_policy_gap_analysis, OneGate
<1>8. scripted_evidence_collection \in Seq(ScriptSteps) /\ OneGate(scripted_evidence_collection)
    BY <1>3, StepsTyped DEF scripted_evidence_collection, OneGate
<1>9. scripted_ai_system_intake \in Seq(ScriptSteps) /\ OneGate(scripted_ai_system_intake)
    BY <1>3, StepsTyped DEF scripted_ai_system_intake, OneGate
<1>10. <<>> \in Seq(ScriptSteps) /\ OneGate(<<>>)
    BY DEF OneGate
<1> QED
    BY <1>4, <1>5, <1>6, <1>7, <1>8, <1>9, <1>10 DEF SCRIPTS

RunStatuses == {"pending", "running", "awaiting_approval", "succeeded", "failed"}
Runs == [pc : {"absent", "scheduled", "fetching", "step", "waiting", "returned", "lost"},
         script : SCRIPTS \cup {<<>>}, at : Nat,
         status : {"none", "running", "awaiting_approval", "succeeded", "cancelled", "failed"},
         steps : Seq(RunStatuses),
         cached : BOOLEAN, findings : SUBSET {"scripted", "live", "patched"},
         proposals : SUBSET {"scripted", "live"}, live : SUBSET Nat]
Gates == [event : {"none", "registered", "set"}, decision : {"none", "approved", "rejected"},
          verdict : {"none", "approved", "rejected"}]

\* The gate while it is closed, and what it says when a run begins to wait.
GateRegistered ==
    /\ demo.status = "awaiting_approval" => gate.event # "none"
    /\ gate.decision # "none" <=> gate.event = "set"

DemoInv == DemoTypeOK /\ GateWaits /\ GatePassed /\ GateRegistered

Sized(d) ==
    /\ d \in Runs /\ d.at <= Len(d.script) /\ Len(d.steps) = Len(d.script)
    /\ d.live \subseteq 1..Len(d.script)

LEMMA TypeIsSized == DemoTypeOK <=> Sized(demo) /\ gate \in Gates
BY DEF DemoTypeOK, Sized, Runs, Gates, RunStatuses

\* A run that is through with the step it is at and goes on with the verdict.
Ready(d, verdict) ==
    /\ Sized(d) /\ d.status # "awaiting_approval"
    /\ \A i \in (d.at + 1)..Len(d.script) : d.steps[i] = "pending"
    /\ \A j \in 1..d.at : d.script[j].type = "gate.human" => verdict = "approved"

LEMMA InvIsAnswered == DemoInv => GateIsAnswered
<1> SUFFICES ASSUME DemoInv PROVE GateIsAnswered
    OBVIOUS
<1>1. demo.at \in Nat /\ Len(demo.script) \in Nat
    BY TypeIsSized, ScriptsTyped DEF DemoInv, Sized, Runs
<1>2. ASSUME NEW i \in 1..Len(demo.script), NEW j \in 1..(i - 1),
             demo.script[j].type = "gate.human", demo.steps[i] # "pending"
      PROVE  gate.verdict = "approved"
    <2>1. i <= demo.at
        BY <1>1, <1>2 DEF DemoInv, GatePassed
    <2>2. j \in 1..(demo.at - 1)
        BY <1>1, <2>1
    <2> QED
        BY <1>2, <2>2 DEF DemoInv, GatePassed
<1> QED
    BY <1>2 DEF DemoInv, GateRegistered, GateIsAnswered

LEMMA StepSet ==
    ASSUME NEW steps \in Seq(RunStatuses), NEW n \in 1..Len(steps), NEW status \in RunStatuses
    PROVE  /\ [steps EXCEPT ![n] = status] \in Seq(RunStatuses)
           /\ Len([steps EXCEPT ![n] = status]) = Len(steps)
           /\ \A i \in 1..Len(steps) : i # n => [steps EXCEPT ![n] = status][i] = steps[i]
OBVIOUS

\* From one wait to the next the invariant is kept.
LEMMA ProceedStep ==
    ASSUME NEW d, NEW g \in Gates, Ready(d, g.verdict), g.event = "none", g.decision = "none",
           Proceed(d, g)
    PROVE  DemoInv'
<1> DEFINE n == d.at + 1
<1>1. /\ d \in Runs /\ d.script \in Seq(ScriptSteps) /\ Len(d.script) \in Nat /\ d.at \in Nat
      /\ d.steps \in Seq(RunStatuses)
      /\ d.at <= Len(d.script) /\ Len(d.steps) = Len(d.script) /\ d.live \subseteq 1..Len(d.script)
      /\ d.status # "awaiting_approval"
      /\ \A i \in (d.at + 1)..Len(d.script) : d.steps[i] = "pending"
      /\ \A j \in 1..d.at : d.script[j].type = "gate.human" => g.verdict = "approved"
    BY ScriptsTyped DEF Ready, Sized, Runs
<1>2. CASE /\ d.at = Len(d.script)
           /\ demo' = [d EXCEPT !.pc = "returned", !.status = "succeeded", !.cached = FALSE]
           /\ gate' = g
    <2>1. /\ demo' \in Runs /\ demo'.pc = "returned" /\ demo'.status = "succeeded"
          /\ demo'.at = d.at /\ demo'.script = d.script /\ demo'.steps = d.steps
          /\ demo'.live = d.live
        BY <1>1, <1>2 DEF Runs
    <2>2. DemoTypeOK'
        BY <1>1, <1>2, <2>1, TypeIsSized DEF DemoTypeOK, Runs, Gates, RunStatuses
    <2>3. GateWaits' /\ GateRegistered'
        BY <1>2, <2>1 DEF GateWaits, GateRegistered
    <2>4. GatePassed'
        BY <1>1, <1>2, <2>1 DEF GatePassed
    <2> QED
        BY <2>2, <2>3, <2>4 DEF DemoInv
<1>3. CASE /\ d.at < Len(d.script)
           /\ d.script[n].type = "gate.human"
           /\ demo' = [d EXCEPT !.pc = "waiting", !.at = n, !.status = "awaiting_approval",
                                !.steps[n] = "awaiting_approval"]
           /\ gate' = [g EXCEPT !.event = "registered"]
    <2> DEFINE steps == [d.steps EXCEPT ![n] = "awaiting_approval"]
    <2>1. n \in 1..Len(d.steps) /\ n \in Nat
        BY <1>1, <1>3
    <2>2. /\ steps \in Seq(RunStatuses) /\ Len(steps) = Len(d.steps)
          /\ \A i \in 1..Len(d.steps) : i # n => steps[i] = d.steps[i]
        BY <1>1, <2>1, StepSet DEF RunStatuses
    <2>3. demo' = [d EXCEPT !.pc = "waiting", !.at = n, !.status = "awaiting_approval",
                            !.steps = steps]
        BY <1>1, <1>3
    <2> HIDE DEF n, steps
    <2>4. /\ demo' \in Runs /\ demo'.pc = "waiting" /\ demo'.status = "awaiting_approval"
          /\ demo'.at = n /\ demo'.script = d.script /\ demo'.steps = steps
          /\ demo'.live = d.live
        BY <1>1, <2>1, <2>2, <2>3 DEF Runs
    <2>5. gate' \in Gates /\ gate'.event = "registered" /\ gate'.decision = "none"
          /\ gate'.verdict = g.verdict
        BY <1>3 DEF Gates
    <2>6. DemoTypeOK'
        BY <1>1, <2>1, <2>2, <2>4, <2>5 DEF DemoTypeOK, Runs, Gates, RunStatuses
    <2>7. GateWaits' /\ GateRegistered'
        BY <1>3, <2>1, <2>4, <2>5 DEF GateWaits, GateRegistered
    <2>8. GatePassed'
        <3>1. \A i \in (n + 1)..Len(d.script) : i \in 1..Len(d.steps) /\ i # n
                /\ i \in (d.at + 1)..Len(d.script)
            BY <1>1, <2>1 DEF n
        <3>2. \A j \in 1..(n - 1) : j \in 1..d.at
            BY <1>1 DEF n
        <3> QED
            BY <1>1, <2>2, <2>4, <2>5, <3>1, <3>2 DEF GatePassed
    <2> QED
        BY <2>6, <2>7, <2>8 DEF DemoInv
<1>4. CASE /\ d.at < Len(d.script)
           /\ d.script[n].type # "gate.human"
           /\ demo' = [d EXCEPT !.pc = "step", !.at = n, !.steps[n] = "running"]
           /\ gate' = g
    <2> DEFINE steps == [d.steps EXCEPT ![n] = "running"]
    <2>1. n \in 1..Len(d.steps) /\ n \in Nat
        BY <1>1, <1>4
    <2>2. /\ steps \in Seq(RunStatuses) /\ Len(steps) = Len(d.steps)
          /\ \A i \in 1..Len(d.steps) : i # n => steps[i] = d.steps[i]
        BY <1>1, <2>1, StepSet DEF RunStatuses
    <2>3. demo' = [d EXCEPT !.pc = "step", !.at = n, !.steps = steps]
        BY <1>1, <1>4
    <2> HIDE DEF n, steps
    <2>4. /\ demo' \in Runs /\ demo'.pc = "step" /\ demo'.status = d.status
          /\ demo'.at = n /\ demo'.script = d.script /\ demo'.steps = steps
          /\ demo'.live = d.live
        BY <1>1, <2>1, <2>2, <2>3 DEF Runs
    <2>5. DemoTypeOK'
        BY <1>1, <1>4, <2>1, <2>2, <2>4 DEF DemoTypeOK, Runs, Gates, RunStatuses
    <2>6. GateWaits' /\ GateRegistered'
        BY <1>1, <1>4, <2>1, <2>4 DEF GateWaits, GateRegistered
    <2>7. GatePassed'
        <3>1. \A i \in (n + 1)..Len(d.script) : i \in 1..Len(d.steps) /\ i # n
                /\ i \in (d.at + 1)..Len(d.script)
            BY <1>1, <2>1 DEF n
        <3>2. \A j \in 1..(n - 1) : j \in 1..d.at
            BY <1>1 DEF n
        <3> QED
            BY <1>1, <1>4, <2>2, <2>4, <3>1, <3>2 DEF GatePassed
    <2> QED
        BY <2>5, <2>6, <2>7 DEF DemoInv
<1> QED
    BY <1>2, <1>3, <1>4 DEF Proceed

\* What a step found, proposed or did live changes nothing about where the run is.
LEMMA ReadyStays ==
    ASSUME NEW d, NEW verdict, Ready(d, verdict),
           NEW findings \in SUBSET {"scripted", "live", "patched"},
           NEW proposals \in SUBSET {"scripted", "live"}, NEW cached \in BOOLEAN
    PROVE  /\ Ready([d EXCEPT !.findings = findings, !.proposals = proposals], verdict)
           /\ Ready([d EXCEPT !.proposals = proposals], verdict)
           /\ Ready([d EXCEPT !.cached = cached], verdict)
BY DEF Ready, Sized, Runs

LEMMA LiveStays ==
    ASSUME NEW d, NEW verdict, Ready(d, verdict), d.at > 0
    PROVE  Ready(Live(d), verdict)
<1> DEFINE live == d.live \cup {d.at}
<1>1. d \in Runs /\ d.at \in Nat /\ d.at <= Len(d.script) /\ d.live \subseteq 1..Len(d.script)
      /\ Len(d.script) \in Nat
    BY ScriptsTyped DEF Ready, Sized, Runs
<1>2. live \subseteq 1..Len(d.script) /\ live \in SUBSET Nat
    BY <1>1
<1>3. Live(d) = [d EXCEPT !.live = live]
    BY DEF Live
<1> HIDE DEF live
<1>4. /\ Live(d) \in Runs /\ Live(d).live = live /\ Live(d).at = d.at
      /\ Live(d).script = d.script /\ Live(d).steps = d.steps /\ Live(d).status = d.status
    BY <1>1, <1>2, <1>3 DEF Runs
<1> QED
    BY <1>2, <1>4 DEF Ready, Sized

LEMMA DoneStays ==
    ASSUME NEW d, NEW verdict, Ready(d, verdict), d.at > 0
    PROVE  Ready(StepDone(d), verdict) /\ StepDone(d).at = d.at
<1> DEFINE steps == [d.steps EXCEPT ![d.at] = "succeeded"]
<1>1. d \in Runs /\ d.at \in Nat /\ d.at <= Len(d.script) /\ d.steps \in Seq(RunStatuses)
      /\ Len(d.script) \in Nat /\ Len(d.steps) = Len(d.script)
    BY ScriptsTyped DEF Ready, Sized, Runs
<1>2. d.at \in 1..Len(d.steps)
    BY <1>1
<1>3. /\ steps \in Seq(RunStatuses) /\ Len(steps) = Len(d.steps)
      /\ \A i \in 1..Len(d.steps) : i # d.at => steps[i] = d.steps[i]
    BY <1>1, <1>2, StepSet DEF RunStatuses
<1>4. StepDone(d) = [d EXCEPT !.steps = steps]
    BY <1>1 DEF StepDone
<1> HIDE DEF steps
<1>5. /\ StepDone(d) \in Runs /\ StepDone(d).live = d.live /\ StepDone(d).at = d.at
      /\ StepDone(d).script = d.script /\ StepDone(d).steps = steps
      /\ StepDone(d).status = d.status
    BY <1>1, <1>3, <1>4 DEF Runs
<1>6. \A i \in (d.at + 1)..Len(d.script) : i \in 1..Len(d.steps) /\ i # d.at
    BY <1>1
<1> QED
    BY <1>1, <1>3, <1>5, <1>6 DEF Ready, Sized

\* A request that writes the status.
LEMMA DemoStatusStep ==
    ASSUME DemoInv, gate' = gate, NEW status \in {"succeeded", "cancelled"},
           demo' = [demo EXCEPT !.status = status]
    PROVE  DemoInv'
<1>1. demo \in Runs /\ Sized(demo) /\ gate \in Gates
    BY TypeIsSized DEF DemoInv, Sized
<1>2. /\ demo' \in Runs /\ demo'.pc = demo.pc /\ demo'.status = status /\ demo'.at = demo.at
      /\ demo'.script = demo.script /\ demo'.steps = demo.steps /\ demo'.live = demo.live
    BY <1>1 DEF Runs
<1>3. DemoTypeOK'
    BY <1>1, <1>2 DEF DemoTypeOK, Sized, Runs, Gates, RunStatuses
<1>4. GateWaits' /\ GatePassed' /\ GateRegistered'
    BY <1>2 DEF DemoInv, GateWaits, GatePassed, GateRegistered
<1> QED
    BY <1>3, <1>4 DEF DemoInv

\* An error that ends the run in a step.
LEMMA RaiseStep ==
    ASSUME DemoInv, gate' = gate, gate.event = "none",
           demo' = [demo EXCEPT !.pc = "returned", !.status = "failed", !.cached = FALSE]
    PROVE  DemoInv'
<1>1. demo \in Runs /\ Sized(demo) /\ gate \in Gates
    BY TypeIsSized DEF DemoInv, Sized
<1>2. /\ demo' \in Runs /\ demo'.pc = "returned" /\ demo'.status = "failed" /\ demo'.at = demo.at
      /\ demo'.script = demo.script /\ demo'.steps = demo.steps /\ demo'.live = demo.live
    BY <1>1 DEF Runs
<1>3. DemoTypeOK'
    BY <1>1, <1>2 DEF DemoTypeOK, Sized, Runs, Gates, RunStatuses
<1>4. GateWaits' /\ GatePassed' /\ GateRegistered'
    BY <1>2 DEF DemoInv, GateWaits, GatePassed, GateRegistered
<1> QED
    BY <1>3, <1>4 DEF DemoInv

\* A run that has not begun its steps begins to download, or fails to.
LEMMA MoveStep ==
    ASSUME DemoInv, gate' = gate, gate.event = "none", demo.at = 0,
           NEW pc \in {"fetching", "lost"}, demo' = [demo EXCEPT !.pc = pc]
    PROVE  DemoInv'
<1>1. demo \in Runs /\ Sized(demo) /\ gate \in Gates
    BY TypeIsSized DEF DemoInv, Sized
<1>2. /\ demo' \in Runs /\ demo'.pc = pc /\ demo'.status = demo.status /\ demo'.at = demo.at
      /\ demo'.script = demo.script /\ demo'.steps = demo.steps /\ demo'.live = demo.live
    BY <1>1 DEF Runs
<1>3. DemoTypeOK'
    BY <1>1, <1>2 DEF DemoTypeOK, Sized, Runs, Gates, RunStatuses
<1>4. GateWaits' /\ GatePassed' /\ GateRegistered'
    BY <1>2 DEF DemoInv, GateWaits, GatePassed, GateRegistered
<1> QED
    BY <1>3, <1>4 DEF DemoInv

LEMMA NoRunInv ==
    ASSUME NEW d, d = NoRun, NEW g, g = GateClosed
    PROVE  /\ Sized(d) /\ d.pc = "absent" /\ d.script = <<>> /\ d.at = 0 /\ d.status = "none"
           /\ g \in Gates /\ g.event = "none" /\ g.decision = "none"
<1>1. <<>> \in Seq(RunStatuses) /\ Len(<<>>) = 0
    OBVIOUS
<1>2. NoRun \in Runs
    BY <1>1 DEF NoRun, Runs
<1> QED
    BY <1>1, <1>2 DEF NoRun, GateClosed, Gates, Sized

LEMMA DemoInitInv == DemoInit => DemoInv
<1> SUFFICES ASSUME DemoInit PROVE DemoInv
    OBVIOUS
<1>1. /\ Sized(demo) /\ demo.pc = "absent" /\ demo.script = <<>> /\ demo.at = 0
      /\ demo.status = "none" /\ gate \in Gates /\ gate.event = "none" /\ gate.decision = "none"
    BY NoRunInv DEF DemoInit
<1>2. Len(demo.script) = 0
    BY <1>1
<1>3. \A i \in (demo.at + 1)..Len(demo.script) : FALSE
    BY <1>1, <1>2
<1>4. \A j \in 1..(demo.at - 1) : FALSE
    BY <1>1
<1> QED
    BY <1>1, <1>3, <1>4, TypeIsSized DEF DemoInv, GateWaits, GatePassed, GateRegistered

\* A run is ready to go on after a step that is no gate.
LEMMA StepReady ==
    ASSUME DemoInv, demo.pc = "step"
    PROVE  /\ Ready(demo, gate.verdict) /\ demo.at > 0 /\ demo.at \in Nat
           /\ demo.script[demo.at] \in ScriptSteps
           /\ gate \in Gates /\ gate.event = "none" /\ gate.decision = "none"
<1>1. Sized(demo) /\ gate \in Gates /\ demo.at \in Nat
      /\ demo.script \in Seq(ScriptSteps) /\ demo.at <= Len(demo.script)
    BY TypeIsSized, ScriptsTyped DEF DemoInv, Sized, Runs
<1>2. gate.event = "none" /\ gate.decision = "none" /\ demo.status # "awaiting_approval"
    BY <1>1 DEF DemoInv, GateWaits, GateRegistered, Gates
<1>3. demo.at > 0 /\ demo.script[demo.at].type # "gate.human"
    BY DEF DemoInv, GateWaits
<1>4. \A j \in 1..demo.at : j = demo.at \/ j \in 1..(demo.at - 1)
    BY <1>1
<1>5. Ready(demo, gate.verdict)
    BY <1>1, <1>2, <1>3, <1>4 DEF DemoInv, GatePassed, Ready
<1> QED
    BY <1>1, <1>2, <1>3, <1>5

\* Before its first step a run has no gate behind it.
LEMMA StartReady ==
    ASSUME DemoInv, demo.pc \in {"scheduled", "fetching"}
    PROVE  /\ Ready(demo, gate.verdict)
           /\ gate \in Gates /\ gate.event = "none" /\ gate.decision = "none"
<1>1. Sized(demo) /\ gate \in Gates /\ demo.at = 0
    BY TypeIsSized DEF DemoInv, GateWaits
<1>2. gate.event = "none" /\ gate.decision = "none" /\ demo.status # "awaiting_approval"
    BY <1>1 DEF DemoInv, GateWaits, GateRegistered, Gates
<1>3. \A j \in 1..demo.at : FALSE
    BY <1>1
<1> QED
    BY <1>1, <1>2, <1>3 DEF DemoInv, GatePassed, Ready

LEMMA FinishInv ==
    ASSUME DemoInv, FinishStep
    PROVE  DemoInv'
<1> DEFINE s == demo.script[demo.at]
<1>1. /\ demo.pc = "step" /\ (ProposeLive(s) \/ CallRepository(s) \/ PlayScript(s))
    BY DEF FinishStep
<1>2. /\ Ready(demo, gate.verdict) /\ demo.at > 0 /\ demo.at \in Nat /\ s \in ScriptSteps
      /\ gate \in Gates /\ gate.event = "none" /\ gate.decision = "none"
    BY <1>1, StepReady
<1> HIDE DEF s
<1>3. demo.findings \subseteq {"scripted", "live", "patched"}
      /\ demo.proposals \subseteq {"scripted", "live"}
      /\ s.findings \subseteq {"scripted"} /\ s.proposals \subseteq {"scripted"}
    BY <1>2 DEF Ready, Sized, Runs, ScriptSteps
<1>4. CASE ProposeLive(s)
    <2> DEFINE proposals == demo.proposals \cup _live_proposals_from_run(demo)
               d == [demo EXCEPT !.proposals = proposals]
    <2>1. proposals \in SUBSET {"scripted", "live"}
        BY <1>3 DEF _live_proposals_from_run
    <2>2. Proceed(Live(StepDone(d)), gate)
        BY <1>4 DEF ProposeLive
    <2> HIDE DEF proposals
    <2>3. Ready(d, gate.verdict)
        BY <1>2, <1>3, <2>1, ReadyStays
    <2>4. d.at = demo.at
        BY <1>2 DEF Ready, Sized, Runs
    <2> HIDE DEF d
    <2>5. Ready(StepDone(d), gate.verdict) /\ StepDone(d).at = d.at
        BY <1>2, <2>3, <2>4, DoneStays
    <2>6. Ready(Live(StepDone(d)), gate.verdict)
        BY <1>2, <2>4, <2>5, LiveStays
    <2> QED
        BY <1>2, <2>2, <2>6, ProceedStep
<1>5. CASE CallRepository(s)
    <2>1. Proceed(Live(StepDone(demo)), gate)
        BY <1>5 DEF CallRepository
    <2>2. Ready(StepDone(demo), gate.verdict) /\ StepDone(demo).at = demo.at
        BY <1>2, DoneStays
    <2>3. Ready(Live(StepDone(demo)), gate.verdict)
        BY <1>2, <2>2, LiveStays
    <2> QED
        BY <1>2, <2>1, <2>3, ProceedStep
<1>6. CASE PlayScript(s)
    <2>1. PICK found \in _emit_live_openai_thoughts(s) :
            LET d == [demo EXCEPT !.findings = @ \cup found.findings,
                                  !.proposals = @ \cup s.proposals]
            IN  Proceed(StepDone(IF found.live THEN Live(d) ELSE d), gate)
        BY <1>6 DEF PlayScript
    <2> DEFINE findings == demo.findings \cup found.findings
               proposals == demo.proposals \cup s.proposals
               d == [demo EXCEPT !.findings = findings, !.proposals = proposals]
               e == IF found.live THEN Live(d) ELSE d
    <2>2. found.findings \subseteq {"scripted", "live", "patched"}
        <3>1. \/ found = [live |-> FALSE, findings |-> s.findings]
              \/ \E f \in SUBSET {"live", "patched"} :
                    found = [live |-> TRUE, findings |-> IF f = {} THEN s.findings ELSE f]
            BY DEF _emit_live_openai_thoughts, _normalise_findings
        <3>2. CASE found = [live |-> FALSE, findings |-> s.findings]
            BY <1>3, <3>2
        <3>3. ASSUME NEW f \in SUBSET {"live", "patched"},
                     found = [live |-> TRUE, findings |-> IF f = {} THEN s.findings ELSE f]
              PROVE  found.findings \subseteq {"scripted", "live", "patched"}
            <4>1. found.findings = IF f = {} THEN s.findings ELSE f
                BY <3>3
            <4> QED
                BY <1>3, <4>1
        <3> QED
            BY Zenon, <3>1, <3>2, <3>3
    <2>3. findings \in SUBSET {"scripted", "live", "patched"}
          /\ proposals \in SUBSET {"scripted", "live"}
        BY <1>3, <2>2
    <2>4. Proceed(StepDone(e), gate)
        BY <2>1
    <2> HIDE DEF findings, proposals
    <2>5. Ready(d, gate.verdict)
        BY <1>2, <2>3, ReadyStays
    <2>6. d.at = demo.at
        BY <1>2 DEF Ready, Sized, Runs
    <2> HIDE DEF d
    <2>7. Ready(e, gate.verdict) /\ e.at = demo.at
        <3>1. CASE found.live
            <4>1. Live(d).at = d.at
                BY <2>5 DEF Live, Ready, Sized, Runs
            <4> QED
                BY <1>2, <2>5, <2>6, <3>1, <4>1, LiveStays
        <3>2. CASE ~found.live
            BY <2>5, <2>6, <3>2
        <3> QED
            BY <3>1, <3>2
    <2> HIDE DEF e
    <2>8. Ready(StepDone(e), gate.verdict)
        BY <1>2, <2>7, DoneStays
    <2> QED
        BY <1>2, <2>4, <2>8, ProceedStep
<1> QED
    BY <1>1, <1>4, <1>5, <1>6

\* The decision that is taken clears the gate; a rejection ends the run at its gate,
\* the only one of the script.
LEMMA WakeInv ==
    ASSUME DemoInv, Wake
    PROVE  DemoInv'
<1> DEFINE approved == gate.decision # "rejected"
           verdict == IF approved THEN "approved" ELSE "rejected"
           g == [GateClosed EXCEPT !.verdict = verdict]
<1>1. /\ demo.pc = "waiting" /\ gate.event = "set"
      /\ IF approved
         THEN Proceed(StepDone([demo EXCEPT !.status = "running"]), g)
         ELSE /\ demo' = [demo EXCEPT !.pc = "returned", !.status = "cancelled",
                                      !.steps[demo.at] = "failed"]
              /\ gate' = g
    BY DEF Wake
<1>2. /\ g \in Gates /\ g.event = "none" /\ g.decision = "none" /\ g.verdict = verdict
    BY DEF GateClosed, Gates
<1> HIDE DEF g
<1>3. /\ Sized(demo) /\ demo \in Runs /\ demo.at \in Nat /\ demo.at <= Len(demo.script)
      /\ demo.script \in Seq(ScriptSteps) /\ OneGate(demo.script) /\ Len(demo.script) \in Nat
      /\ demo.steps \in Seq(RunStatuses) /\ Len(demo.steps) = Len(demo.script)
      /\ demo.live \subseteq 1..Len(demo.script)
    BY TypeIsSized, ScriptsTyped DEF DemoInv, Sized, Runs
<1>4. demo.at > 0 /\ demo.script[demo.at].type = "gate.human"
    BY <1>1 DEF DemoInv, GateWaits
<1>5. \A i \in (demo.at + 1)..Len(demo.script) : demo.steps[i] = "pending"
    BY DEF DemoInv, GatePassed
<1>6. CASE approved
    <2> DEFINE d == [demo EXCEPT !.status = "running"]
    <2>1. verdict = "approved" /\ Proceed(StepDone(d), g)
        BY <1>1, <1>6
    <2>2. d \in Runs /\ d.status = "running" /\ d.at = demo.at /\ d.script = demo.script
          /\ d.steps = demo.steps /\ d.live = demo.live
        BY <1>3 DEF Runs
    <2> HIDE DEF d, verdict
    <2>3. Ready(d, verdict)
        BY <1>3, <1>5, <2>1, <2>2 DEF Ready, Sized
    <2>4. Ready(StepDone(d), verdict)
        BY <1>4, <2>2, <2>3, DoneStays
    <2> QED
        BY <1>2, <2>1, <2>4, ProceedStep
<1>7. CASE ~approved
    <2> DEFINE steps == [demo.steps EXCEPT ![demo.at] = "failed"]
    <2>1. /\ gate' = g
          /\ demo' = [demo EXCEPT !.pc = "returned", !.status = "cancelled", !.steps = steps]
        BY <1>1, <1>3, <1>7
    <2>2. demo.at \in 1..Len(demo.steps)
        BY <1>3, <1>4
    <2>3. /\ steps \in Seq(RunStatuses) /\ Len(steps) = Len(demo.steps)
          /\ \A i \in 1..Len(demo.steps) : i # demo.at => steps[i] = demo.steps[i]
        BY <1>3, <2>2, StepSet DEF RunStatuses
    <2> HIDE DEF steps
    <2>4. /\ demo' \in Runs /\ demo'.pc = "returned" /\ demo'.status = "cancelled"
          /\ demo'.at = demo.at /\ demo'.script = demo.script /\ demo'.steps = steps
          /\ demo'.live = demo.live
        BY <1>3, <2>1, <2>3 DEF Runs
    <2>5. DemoTypeOK'
        BY <1>2, <1>3, <2>1, <2>3, <2>4 DEF DemoTypeOK, Runs, Gates, RunStatuses
    <2>6. GateWaits' /\ GateRegistered'
        BY <1>2, <2>1, <2>4 DEF GateWaits, GateRegistered
    <2>7. GatePassed'
        <3>1. \A i \in (demo.at + 1)..Len(demo.script) : i \in 1..Len(demo.steps) /\ i # demo.at
            BY <1>3
        <3>2. \A j \in 1..(demo.at - 1) : j \in 1..Len(demo.script) /\ j # demo.at
            BY <1>3
        <3>3. \A j \in 1..(demo.at - 1) : demo.script[j].type # "gate.human"
            BY <1>3, <1>4, <2>2, <3>2 DEF OneGate
        <3> QED
            BY <1>3, <1>5, <2>3, <2>4, <3>1, <3>3 DEF GatePassed
    <2> QED
        BY <2>5, <2>6, <2>7 DEF DemoInv
<1> QED
    BY <1>6, <1>7

LEMMA ResumeInv ==
    ASSUME DemoInv, NEW approved \in BOOLEAN, signal_resume(approved)
    PROVE  DemoInv'
<1> DEFINE decision == IF approved THEN "approved" ELSE "rejected"
<1>1. /\ demo' = demo /\ gate.event # "none"
      /\ gate' = [gate EXCEPT !.event = "set", !.decision = decision]
    BY DEF signal_resume
<1>2. gate \in Gates
    BY TypeIsSized DEF DemoInv
<1>3. decision \in {"approved", "rejected"}
    OBVIOUS
<1> HIDE DEF decision
<1>4. gate' \in Gates /\ gate'.event = "set" /\ gate'.decision = decision
      /\ gate'.verdict = gate.verdict
    BY <1>1, <1>2, <1>3 DEF Gates
<1>5. DemoTypeOK'
    BY <1>1, <1>4 DEF DemoInv, DemoTypeOK, Gates
<1>6. GateWaits' /\ GatePassed' /\ GateRegistered'
    BY <1>1, <1>3, <1>4 DEF DemoInv, GateWaits, GatePassed, GateRegistered
<1> QED
    BY <1>5, <1>6 DEF DemoInv

\* A new run has all its steps before it.
LEMMA BeginRunInv ==
    ASSUME DemoInv, demo_run_workflow
    PROVE  DemoInv'
<1>1. PICK script \in SCRIPTS :
        demo' = [NoRun EXCEPT !.pc = "scheduled", !.script = script, !.status = "running",
                              !.steps = [i \in 1..Len(script) |-> "pending"]]
    BY DEF demo_run_workflow
<1> DEFINE steps == [i \in 1..Len(script) |-> "pending"]
<1>2. Len(script) \in Nat
    BY ScriptsTyped
<1>3. steps \in Seq(RunStatuses) /\ Len(steps) = Len(script)
      /\ \A i \in 1..Len(script) : steps[i] = "pending"
    BY <1>2 DEF RunStatuses
<1>4. demo' = [NoRun EXCEPT !.pc = "scheduled", !.script = script, !.status = "running",
                            !.steps = steps]
    BY <1>1
<1> HIDE DEF steps
<1>5. NoRun \in Runs /\ NoRun.at = 0 /\ NoRun.live = {}
    BY NoRunInv DEF Sized, NoRun
<1>6. /\ demo' \in Runs /\ demo'.pc = "scheduled" /\ demo'.status = "running" /\ demo'.at = 0
      /\ demo'.script = script /\ demo'.steps = steps /\ demo'.live = {}
    BY <1>3, <1>4, <1>5 DEF Runs
<1>7. gate' = gate /\ gate \in Gates /\ gate.event = "none"
    BY TypeIsSized DEF DemoInv, demo_run_workflow, GateWaits
<1>8. DemoTypeOK'
    BY <1>2, <1>3, <1>6, <1>7 DEF DemoTypeOK, Runs, Gates, RunStatuses
<1>9. GateWaits' /\ GatePassed' /\ GateRegistered'
    BY <1>2, <1>3, <1>6, <1>7 DEF DemoInv, GateWaits, GatePassed, GateRegistered
<1> QED
    BY <1>8, <1>9 DEF DemoInv

LEMMA DemoStep == DemoInv /\ [DemoNext]_demoVars => DemoInv'
<1> SUFFICES ASSUME DemoInv, [DemoNext]_demoVars PROVE DemoInv'
    OBVIOUS
<1>1. /\ demo \in Runs /\ gate \in Gates /\ (gate.event # "none" <=> demo.pc = "waiting")
      /\ demo.cached \in BOOLEAN
      /\ demo.status = "awaiting_approval" => gate.event # "none"
    BY TypeIsSized DEF DemoInv, Sized, GateWaits, GateRegistered, Runs
<1>2. CASE demo_run_workflow
    BY <1>2, BeginRunInv
<1>3. CASE TickRun
    <2>1. CASE demo' = [demo EXCEPT !.pc = "fetching"] /\ gate' = gate
        <3>1. demo.pc = "scheduled" /\ demo.at = 0
            BY <1>3 DEF TickRun, DemoInv, GateWaits
        <3> QED
            BY <1>1, <2>1, <3>1, MoveStep
    <2>2. CASE Proceed(demo, gate)
        BY <1>3, <2>2, StartReady, ProceedStep DEF TickRun
    <2> QED
        BY <1>3, <2>1, <2>2 DEF TickRun
<1>4. CASE _fetch_github_repo
    <2>1. PICK fetched \in BOOLEAN : Proceed([demo EXCEPT !.cached = fetched], gate)
        BY <1>4 DEF _fetch_github_repo
    <2>2. /\ Ready(demo, gate.verdict) /\ gate \in Gates
          /\ gate.event = "none" /\ gate.decision = "none"
        BY <1>4, StartReady DEF _fetch_github_repo
    <2>3. Ready([demo EXCEPT !.cached = fetched], gate.verdict)
        BY <2>2, ReadyStays
    <2> QED
        BY <2>1, <2>2, <2>3, ProceedStep
<1>5. CASE FetchRaises
    <2>1. /\ demo.pc = "fetching" /\ demo.at = 0 /\ gate' = gate
          /\ demo' = [demo EXCEPT !.pc = "lost"]
        BY <1>5 DEF FetchRaises, DemoInv, GateWaits
    <2> QED
        BY <1>1, <2>1, MoveStep
<1>6. CASE FinishStep
    BY <1>6, FinishInv
<1>7. CASE StepRaises
    <2>1. /\ demo.pc = "step" /\ gate' = gate
          /\ demo' = [demo EXCEPT !.pc = "returned", !.status = "failed", !.cached = FALSE]
        BY <1>7 DEF StepRaises
    <2> QED
        BY <1>1, <2>1, RaiseStep
<1>8. CASE Wake
    BY <1>8, WakeInv
<1>9. ASSUME NEW status \in {"succeeded", "cancelled"}, gate' = gate,
             demo' = [demo EXCEPT !.status = status]
      PROVE  DemoInv'
    BY <1>9, DemoStatusStep
<1>10. CASE resume_workflow
    <2>1. PICK approved \in BOOLEAN : signal_resume(approved) \/ FlipStatus(approved)
        BY <1>10 DEF resume_workflow
    <2>2. CASE signal_resume(approved)
        BY <2>2, ResumeInv
    <2>3. CASE FlipStatus(approved)
        <3> DEFINE status == IF approved THEN "succeeded" ELSE "cancelled"
        <3>1. gate' = gate /\ demo' = [demo EXCEPT !.status = status]
              /\ status \in {"succeeded", "cancelled"}
            BY <2>3 DEF FlipStatus
        <3> HIDE DEF status
        <3> QED
            BY <1>9, <3>1
    <2> QED
        BY <2>1, <2>2, <2>3
<1>11. CASE cancel_workflow
    BY <1>9, <1>11 DEF cancel_workflow
<1>12. CASE DemoRestart
    <2>1. /\ Sized(demo') /\ demo'.pc = "absent" /\ demo'.script = <<>> /\ demo'.at = 0
          /\ demo'.status = "none" /\ gate' \in Gates /\ gate'.event = "none"
          /\ gate'.decision = "none"
        BY <1>12, NoRunInv DEF DemoRestart
    <2>2. Len(demo'.script) = 0
        BY <2>1
    <2>3. \A i \in (demo'.at + 1)..Len(demo'.script) : FALSE
        BY <2>1, <2>2
    <2>4. \A j \in 1..(demo'.at - 1) : FALSE
        BY <2>1
    <2>5. DemoTypeOK'
        BY <2>1 DEF DemoTypeOK, Sized, Runs, Gates, RunStatuses
    <2> QED
        BY <2>1, <2>3, <2>4, <2>5 DEF DemoInv, GateWaits, GatePassed, GateRegistered
<1>13. CASE UNCHANGED demoVars
    BY <1>13 DEF demoVars, DemoInv, DemoTypeOK, GateWaits, GatePassed, GateRegistered
<1> QED
    BY <1>2, <1>3, <1>4, <1>5, <1>6, <1>7, <1>8, <1>10, <1>11, <1>12, <1>13 DEF DemoNext

\* Whatever resumes, double clicks and cancellations meet the coroutine, a decision
\* finds its gate, none is left over, and no step after a gate begins without an
\* approval: signal_resume and tick_run in demo_simulator.py.
THEOREM DemoTheorem == DemoSpec => [](DemoTypeOK /\ GateIsAnswered)
<1>1. DemoSpec => []DemoInv
    BY DemoInitInv, DemoStep, PTL DEF DemoSpec
<1>2. DemoInv => DemoTypeOK /\ GateIsAnswered
    BY InvIsAnswered DEF DemoInv
<1> QED
    BY <1>1, <1>2, PTL

-----------------------------------------------------------------------------
(* All parts together *)

\* A step of the whole is a step of one part, which leaves the other parts alone: for
\* each part it is one of its own or none.
LEMMA WholeStep ==
    ASSUME [MCNext]_MCVars
    PROVE  /\ [Next]_vars
           /\ [LaunchNext]_launchVars
           /\ [OAuthNext]_oauthVars
           /\ [ScheduleNext]_scheduleVars
           /\ [GraphNext]_graphVars
           /\ [AgentNext]_agentVars
           /\ [ProviderNext]_providerVars
           /\ [StackNext]_stackVars
           /\ [DemoNext]_demoVars
BY Zenon DEF MCNext, MCVars, On

\* A behaviour of the whole is a behaviour of every part: each theorem about a part is
\* one about the whole.
THEOREM PartsTheorem ==
    MCSpec => /\ Spec /\ LaunchSpec /\ OAuthSpec /\ ScheduleSpec /\ GraphSpec
              /\ AgentSpec /\ ProviderSpec /\ StackSpec /\ DemoSpec
<1>1. MCInit => /\ Init /\ LaunchInit /\ OAuthInit /\ ScheduleInit /\ GraphInit
                /\ AgentInit /\ ProviderInit /\ StackInit /\ DemoInit
    BY DEF MCInit
<1>2. [MCNext]_MCVars => /\ [Next]_vars
                         /\ [LaunchNext]_launchVars
                         /\ [OAuthNext]_oauthVars
                         /\ [ScheduleNext]_scheduleVars
                         /\ [GraphNext]_graphVars
                         /\ [AgentNext]_agentVars
                         /\ [ProviderNext]_providerVars
                         /\ [StackNext]_stackVars
                         /\ [DemoNext]_demoVars
    BY WholeStep
<1> QED
    BY <1>1, <1>2, PTL DEF MCSpec, Spec, LaunchSpec, OAuthSpec, ScheduleSpec, GraphSpec,
                           AgentSpec, ProviderSpec, StackSpec, DemoSpec

\* Every part is always in a state its types allow, whichever parts a behaviour follows.
THEOREM ComponentsTheorem == MCSpec => []ComponentsTypeOK
<1>1. /\ LaunchTypeOK /\ OAuthTypeOK /\ ScheduleTypeOK /\ GraphTypeOK
      /\ AgentTypeOK /\ ProviderTypeOK /\ StackTypeOK /\ DemoTypeOK
      => ComponentsTypeOK
    BY DEF ComponentsTypeOK
<1> QED
    BY <1>1, PartsTheorem, LaunchTheorem, OAuthTypeTheorem, ScheduleTheorem, GraphTyped,
       AgentTypeTheorem, StreamTheorem, StackTheorem, DemoTheorem, PTL

=============================================================================
