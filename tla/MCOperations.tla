----------------------------- MODULE MCOperations -----------------------------
(***************************************************************************)
(* The parts around the runtime and the event stream, checked in one run.  *)
(* They share no state that their own modules do not stand for, so a       *)
(* behaviour follows one of them, its focus, and leaves the others where   *)
(* they start: the states of the parts add up instead of multiplying.      *)
(* Reviews are followed once per kind of hook, and a JSON stack hook once  *)
(* for what upserts do to it and once for its secret.                      *)
(***************************************************************************)
EXTENDS ReviewDispatch, SandboxLaunch, McpOAuth, WorkflowSchedules, WorkflowGraph,
        AgentStep, ModelProviders, JsonStack, DemoSimulator, TLC

CONSTANT Foci  \* the parts a run follows

VARIABLE focus

AllFoci == Hooks \cup {"launch", "oauth", "schedules", "graph", "agent", "providers",
                       "upserts", "secrets", "demo"}

MCVars == <<vars, launchVars, oauthVars, scheduleVars, graphVars, agentVars, providerVars,
            stackVars, demoVars, focus>>

MCInit ==
    /\ focus \in Foci \cap AllFoci
    /\ Init /\ LaunchInit /\ OAuthInit /\ ScheduleInit /\ GraphInit /\ AgentInit /\ ProviderInit
    /\ StackInit /\ DemoInit
    /\ focus # "secrets" => secrets.backend = "env" /\ secrets.env
    /\ focus \notin {"upserts", "secrets"} => ~stack.present

On(part, next, others) == focus \in part /\ next /\ UNCHANGED <<others, focus>>

MCNext ==
    \/ /\ On(Hooks, Next, <<launchVars, oauthVars, scheduleVars, graphVars, agentVars,
                            providerVars, stackVars, demoVars>>)
       /\ \A r \in Reqs : req'[r].h \in {Nothing, focus}
    \/ On({"launch"}, LaunchNext, <<vars, oauthVars, scheduleVars, graphVars, agentVars,
                                    providerVars, stackVars, demoVars>>)
    \/ On({"oauth"}, OAuthNext, <<vars, launchVars, scheduleVars, graphVars, agentVars,
                                  providerVars, stackVars, demoVars>>)
    \/ On({"schedules"}, ScheduleNext, <<vars, launchVars, oauthVars, graphVars, agentVars,
                                         providerVars, stackVars, demoVars>>)
    \/ On({"graph"}, GraphNext, <<vars, launchVars, oauthVars, scheduleVars, agentVars,
                                  providerVars, stackVars, demoVars>>)
    \/ On({"agent"}, AgentNext, <<vars, launchVars, oauthVars, scheduleVars, graphVars,
                                  providerVars, stackVars, demoVars>>)
    \/ On({"providers"}, ProviderNext, <<vars, launchVars, oauthVars, scheduleVars, graphVars,
                                         agentVars, stackVars, demoVars>>)
    \/ /\ On({"upserts", "secrets"}, StackNext, <<vars, launchVars, oauthVars, scheduleVars,
                                                  graphVars, agentVars, providerVars, demoVars>>)
       /\ IF focus = "upserts" THEN UNCHANGED secrets ELSE UNCHANGED xreq
    \/ On({"demo"}, DemoNext, <<vars, launchVars, oauthVars, scheduleVars, graphVars, agentVars,
                                providerVars, stackVars>>)

MCSpec == MCInit /\ [][MCNext]_MCVars

\* The requests of a part are alike; all parts use the same ones.
Symmetry == Permutations(Reqs)

ASSUME RequestsAssumption == Reqs = OReqs /\ Reqs = SReqs /\ Reqs = XReqs

\* Every part is in a state its types allow, among them the bounds on what is
\* inlined into a manifest, that what is called authorized has a token, and that
\* runs are enqueued only for schedules that were due.
ComponentsTypeOK ==
    /\ LaunchTypeOK
    /\ OAuthTypeOK
    /\ ScheduleTypeOK
    /\ GraphTypeOK
    /\ AgentTypeOK
    /\ ProviderTypeOK
    /\ StackTypeOK
    /\ DemoTypeOK
=============================================================================
