---------------------------- MODULE SandboxLaunch ----------------------------
(***************************************************************************)
(* One launch of a sandbox: the API posts a manifest to the orchestrator   *)
(* (_launch_sandbox of production_reviews.py and, with a longer timeout,   *)
(* of production_workflows.py); a thread of the orchestrator's HTTP server *)
(* drives the Docker daemon (orchestrator.py).  Launches do not meet:      *)
(* every container has a name of its own.                                  *)
(*                                                                         *)
(* Whoever waits has a timeout and replays when it fires: a replay is an   *)
(* answer made up on the spot, with exit code 0 and tests that passed.     *)
(***************************************************************************)
EXTENDS Integers

VARIABLES
    launcher,  \* the API's request and the answer it took
    thread,    \* the orchestrator's thread and the answer it prepared
    container, \* the container, as the Docker daemon knows it
    refusal    \* history: what the daemon refused of this launch

launchVars == <<launcher, thread, container, refusal>>

Codes == {0, 1}
Answers == [mode : {"none", "replay", "docker"}, exit_code : Codes]
NoAnswer == [mode |-> "none", exit_code |-> 0]
Replay == [mode |-> "replay", exit_code |-> 0]
Docker(code) == [mode |-> "docker", exit_code |-> code]

LaunchTypeOK ==
    /\ launcher \in [pc : {"idle", "waiting", "done"}, answer : Answers]
    /\ thread \in [pc : {"idle", "launch", "cli", "create", "start", "wait", "logs",
                         "delete", "reply", "ended"}, answer : Answers]
    /\ container \in [pc : {"none", "created", "running", "exited", "removed"},
                      code : Codes]
    /\ refusal \subseteq {"wait", "delete", "run"}

LaunchInit ==
    /\ launcher = [pc |-> "idle", answer |-> NoAnswer]
    /\ thread = [pc |-> "idle", answer |-> NoAnswer]
    /\ container = [pc |-> "none", code |-> 0]
    /\ refusal = {}

Thread(step) == thread' = [thread EXCEPT !.pc = step]
Prepare(answer) == thread' = [pc |-> "reply", answer |-> answer]
Contain(state) == container' = [container EXCEPT !.pc = state]

-----------------------------------------------------------------------------
(* The API *)

\* No URL is configured, or nothing listens there.
PostFails ==
    /\ launcher.pc = "idle"
    /\ launcher' = [pc |-> "done", answer |-> Replay]
    /\ UNCHANGED <<thread, container, refusal>>

\* Missing or nonsensical manifest entries get defaults: from_payload.
_launch_sandbox ==
    /\ launcher.pc = "idle"
    /\ launcher' = [launcher EXCEPT !.pc = "waiting"]
    /\ Thread("launch")
    /\ UNCHANGED <<container, refusal>>

\* 20 or 35 seconds have passed, or the connection broke.  The thread does not
\* learn of it: one request to Docker alone may take 30 seconds.
ClientTimeout ==
    /\ launcher.pc = "waiting"
    /\ launcher' = [pc |-> "done", answer |-> Replay]
    /\ UNCHANGED <<thread, container, refusal>>

\* do_POST writes the answer to whoever still listens.
do_POST ==
    /\ thread.pc = "reply"
    /\ launcher' = IF launcher.pc = "waiting"
                   THEN [pc |-> "done", answer |-> thread.answer] ELSE launcher
    /\ Thread("ended")
    /\ UNCHANGED <<container, refusal>>

-----------------------------------------------------------------------------
(* The orchestrator *)

\* By the socket, by the docker command, or with neither.
launch ==
    /\ thread.pc = "launch"
    /\ \/ Thread("create")
       \/ Thread("cli")
       \/ Prepare(Replay)
    /\ UNCHANGED <<launcher, container, refusal>>

\* docker run --rm: the command ends with the container's exit code or,
\* when the daemon refuses, with one of its own; it cannot be started; or it
\* is killed after timeout_seconds, which does not stop the container.
DockerRun ==
    /\ thread.pc = "cli"
    /\ \/ \E code \in Codes :
            /\ Prepare(Docker(code))
            /\ container' = [pc |-> "removed", code |-> code]
            /\ UNCHANGED refusal
       \/ /\ Prepare(Docker(1))
          /\ refusal' = refusal \cup {"run"}
          /\ UNCHANGED container
       \/ /\ Prepare(Replay)
          /\ Contain("running")
          /\ UNCHANGED refusal
       \/ /\ Prepare(Replay)
          /\ UNCHANGED <<container, refusal>>
    /\ UNCHANGED launcher

\* A request to the daemon is carried out and answered.
Done(step, next, state) ==
    /\ thread.pc = step
    /\ Thread(next)
    /\ Contain(state)
    /\ UNCHANGED <<launcher, refusal>>

\* It is lost: timeout, broken socket, answer that is no JSON or has no Id.
\* What was asked for may have happened.  An exception nobody catches (an
\* incomplete answer) ends the thread with no reply at all.
Lost(step, state) ==
    /\ thread.pc = step
    /\ Prepare(Replay) \/ thread' = [pc |-> "ended", answer |-> NoAnswer]
    /\ Contain(state) \/ UNCHANGED container
    /\ UNCHANGED <<launcher, refusal>>

\* It is answered with an error status, which replays.
Refuse(step) ==
    /\ thread.pc = step
    /\ Prepare(Replay)
    /\ UNCHANGED <<launcher, container, refusal>>

Create == Done("create", "start", "created") \/ Refuse("create") \/ Lost("create", "created")
Start == Done("start", "wait", "running") \/ Refuse("start") \/ Lost("start", "running")

\* Faulty variant: the code is looked for where it is not.
WaitForgetful ==
    \/ /\ thread.pc = "wait"
       /\ container.pc = "exited"
       /\ thread' = [pc |-> "logs", answer |-> Docker(0)]
       /\ UNCHANGED <<launcher, container, refusal>>
    \/ /\ thread.pc = "wait"
       /\ thread' = [pc |-> "logs", answer |-> Docker(0)]
       /\ refusal' = refusal \cup {"wait"}
       /\ UNCHANGED <<launcher, container>>
    \/ Lost("wait", container.pc)

\* wait blocks until the container has exited.  The status of its answer is
\* not looked at: an error's body has no StatusCode, and 0 is the default.
Wait ==
    \/ /\ thread.pc = "wait"
       /\ container.pc = "exited"
       /\ thread' = [pc |-> "logs", answer |-> Docker(container.code)]
       /\ UNCHANGED <<launcher, container, refusal>>
    \/ /\ thread.pc = "wait"
       /\ thread' = [pc |-> "logs", answer |-> Docker(0)]
       /\ refusal' = refusal \cup {"wait"}
       /\ UNCHANGED <<launcher, container>>
    \/ Lost("wait", container.pc)

\* Faulty variant: the container is left to itself.
LogsReply == Done("logs", "reply", container.pc) \/ Lost("logs", container.pc)

Logs == Done("logs", "delete", container.pc) \/ Lost("logs", container.pc)

\* The status of the answer is not looked at; a lost one drops the result.
Delete ==
    \/ Done("delete", "reply", "removed")
    \/ /\ thread.pc = "delete"
       /\ Thread("reply")
       /\ refusal' = refusal \cup {"delete"}
       /\ UNCHANGED <<launcher, container>>
    \/ Lost("delete", "removed")

\* The sandboxed command ends; Docker then also removes it if it was started
\* by docker run --rm.
ContainerExits ==
    /\ container.pc = "running"
    /\ \E code \in Codes : container' = [pc |-> "exited", code |-> code]
    /\ UNCHANGED <<launcher, thread, refusal>>

LaunchNext ==
    \/ PostFails
    \/ _launch_sandbox
    \/ ClientTimeout
    \/ do_POST
    \/ launch
    \/ DockerRun
    \/ Create
    \/ Start
    \/ Wait
    \/ Logs
    \/ Delete
    \/ ContainerExits

LaunchSpec == LaunchInit /\ [][LaunchNext]_launchVars

-----------------------------------------------------------------------------
(* Properties *)

\* The exit code the API stores is the one the command ended with, whatever
\* timed out on the way, unless the answer is a replay or the daemon refused
\* to say or to run.
ExitCodeIsTheContainers ==
    launcher.answer.mode = "docker" /\ refusal \cap {"wait", "run"} = {} =>
        /\ container.pc \in {"exited", "removed"}
        /\ container.code = launcher.answer.exit_code

\* A container outlives its launch only when its result was thrown away (it
\* replays, or the thread died), or when the daemon refused to remove it: no
\* launch that reports a result leaves a container behind.
LeftoverIsReplayed ==
    /\ thread.pc = "ended"
    /\ container.pc \in {"created", "running", "exited"}
    => \/ thread.answer.mode # "docker"
       \/ "delete" \in refusal

-----------------------------------------------------------------------------
(* What makes them inductive *)

\* Nothing is prepared, and nothing refused, before the container was asked for.
Prepared ==
    /\ launcher.pc = "idle" => thread.pc = "idle"
    /\ thread.pc \in {"idle", "launch", "cli", "create", "start", "wait"} =>
            thread.answer.mode # "docker" /\ launcher.answer.mode # "docker"
    /\ thread.pc \in {"idle", "launch", "cli", "create"} => container.pc = "none"

\* The launcher takes what the thread prepared when the thread is through.
AnswerTaken ==
    launcher.answer.mode = "docker" => thread.pc = "ended" /\ launcher.answer = thread.answer

\* The prepared answer is the container's, and its container is gone.
AnswerTrue ==
    thread.answer.mode = "docker" /\ refusal \cap {"wait", "run"} = {} =>
        /\ container.pc \in {"exited", "removed"}
        /\ container.code = thread.answer.exit_code

CleanedUp ==
    thread.pc \in {"reply", "ended"} /\ thread.answer.mode = "docker" =>
        container.pc \in {"none", "removed"} \/ "delete" \in refusal

LaunchSound == Prepared /\ AnswerTaken /\ AnswerTrue /\ CleanedUp

=============================================================================
