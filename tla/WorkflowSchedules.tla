-------------------------- MODULE WorkflowSchedules --------------------------
(***************************************************************************)
(* The workflow table and its schedules, production_workflows.py 406-664:  *)
(* templates inserted when they are first asked for, custom workflows,     *)
(* schedules configured by requests, and the tick that the worker posts    *)
(* every two seconds and that enqueues a run for each schedule that is due. *)
(*                                                                         *)
(* A request loads a row and commits later; an UPDATE writes the columns   *)
(* whose new value differs from the one loaded.                            *)
(***************************************************************************)
EXTENDS Integers, FiniteSets

CONSTANTS
    Templates,  \* WORKFLOW_TEMPLATES
    Customs,    \* ids a custom workflow can have
    SReqs,      \* requests being served
    TickLimit,  \* how many runs one tick may enqueue
    MaxNow,     \* bound on the clock
    MaxEdits    \* bound on the configurations written

ASSUME ScheduleAssumption ==
    /\ Templates # {} /\ Templates \cap Customs = {}
    /\ TickLimit \in Nat \ {0} /\ MaxNow \in Nat /\ MaxEdits \in Nat

VARIABLES
    workflow,  \* workflow[w]: the row, or Absent
    now,       \* the clock
    sreq,      \* sreq[s]: the request s is serving
    edits,     \* how many configurations were committed or are on their way
    runs,      \* the workflow_run rows that ticks enqueued
    latest     \* history: latest[w]: the configuration committed last

scheduleVars == <<workflow, now, sreq, edits, runs, latest>>

Workflows == Templates \cup Customs
Triggers == {"manual", "schedule"}  \* webhook and event stand with manual
Times == 0..MaxNow + 1

\* trigger_config; edit numbers the configurations, 0 is that of a new row.
Config == [enabled : BOOLEAN, next_run_at : Times, edit : Nat]
Manual == [enabled |-> FALSE, next_run_at |-> 0, edit |-> 0]
\* What a new workflow may be sent with: no schedule, or one that is due at once, as it
\* is without a time that can be read.
SentConfigs == {Manual, [enabled |-> TRUE, next_run_at |-> now, edit |-> 0]}
Row == [present : BOOLEAN, trigger : Triggers, trigger_config : Config]
Absent == [present |-> FALSE, trigger |-> "manual", trigger_config |-> Manual]

\* was: the trigger loaded; rows, left: the rows a tick loaded, and those it
\* has not come to; created: how many runs it enqueued; at: its now.
SIdle == [pc |-> "idle", w |-> CHOOSE w \in Workflows : TRUE, was |-> "manual",
          trigger |-> "manual", new |-> Manual,
          rows |-> [w \in Workflows |-> Manual], left |-> {}, created |-> 0, at |-> 0]

ScheduleTypeOK ==
    /\ workflow \in [Workflows -> Row]
    /\ now \in 0..MaxNow /\ edits \in Nat
    /\ latest \in [Workflows -> Nat]
    /\ sreq \in [SReqs ->
            [pc : {"idle", "configure", "patch", "tick"}, w : Workflows,
             was : Triggers, trigger : Triggers, new : Config, rows : [Workflows -> Config],
             left : SUBSET Workflows, created : 0..TickLimit, at : 0..MaxNow]]
    /\ \A run \in runs : run.w \in Templates /\ run.enabled /\ run.scheduled_for <= run.at

ScheduleInit ==
    /\ workflow = [w \in Workflows |-> Absent]
    /\ now = 0 /\ edits = 0
    /\ sreq = [s \in SReqs |-> SIdle]
    /\ runs = {}
    /\ latest = [w \in Workflows |-> 0]

Answer(s, me) == sreq' = [sreq EXCEPT ![s] = me]

Advance ==
    /\ now < MaxNow
    /\ now' = now + 1
    /\ UNCHANGED <<workflow, sreq, edits, runs, latest>>

-----------------------------------------------------------------------------
(* Rows *)

\* A template's row is inserted by whoever asks for it first.
ensure_workflow(w) ==
    /\ w \in Templates /\ ~workflow[w].present
    /\ workflow' = [workflow EXCEPT ![w].present = TRUE]
    /\ UNCHANGED <<now, sreq, edits, runs, latest>>

\* The urn is unique: of two creations with one id the later fails.  trigger_config
\* is the client's, who may have enabled it, or only a mode.
create_custom_workflow(w, trigger, config) ==
    /\ w \in Customs /\ ~workflow[w].present
    /\ workflow' = [workflow EXCEPT
            ![w] = [present |-> TRUE, trigger |-> trigger, trigger_config |-> config]]
    /\ latest' = [latest EXCEPT ![w] = 0]
    /\ UNCHANGED <<now, sreq, edits, runs>>

\* A request that has loaded the row updates no row, and fails.
delete_custom_workflow(w) ==
    /\ w \in Customs /\ workflow[w].present
    /\ workflow' = [workflow EXCEPT ![w] = Absent]
    /\ latest' = [latest EXCEPT ![w] = 0]
    /\ sreq' = [s \in SReqs |-> IF sreq[s].pc \in {"configure", "patch"} /\ sreq[s].w = w
                                THEN SIdle ELSE sreq[s]]
    /\ UNCHANGED <<now, edits, runs>>

PatchBegin(s, w, trigger) ==
    /\ sreq[s] = SIdle
    /\ w \in Customs /\ workflow[w].present
    /\ Answer(s, [SIdle EXCEPT !.pc = "patch", !.w = w, !.trigger = trigger,
                               !.was = workflow[w].trigger])
    /\ UNCHANGED <<workflow, now, edits, runs, latest>>

update_custom_workflow(s) ==
    LET me == sreq[s] IN
    /\ me.pc = "patch"
    /\ workflow' = IF me.trigger # me.was
                   THEN [workflow EXCEPT ![me.w].trigger = me.trigger] ELSE workflow
    /\ Answer(s, SIdle)
    /\ UNCHANGED <<now, edits, runs, latest>>

-----------------------------------------------------------------------------
(* configure_workflow_schedule *)

\* The first run is due at start_at or at once, whatever the recurrence.
_workflow_record_for(s, w, enabled, start_at) ==
    /\ sreq[s] = SIdle
    /\ workflow[w].present
    /\ edits < MaxEdits
    /\ edits' = edits + 1
    /\ Answer(s, [SIdle EXCEPT !.pc = "configure", !.w = w, !.was = workflow[w].trigger,
                    !.trigger = IF enabled THEN "schedule" ELSE "manual",
                    !.new = [enabled |-> enabled, next_run_at |-> start_at, edit |-> edits + 1]])
    /\ UNCHANGED <<workflow, now, runs, latest>>

configure_workflow_schedule(s) ==
    LET me == sreq[s] IN
    /\ me.pc = "configure"
    /\ workflow' = [workflow EXCEPT
            ![me.w].trigger = IF me.trigger # me.was THEN me.trigger ELSE @,
            ![me.w].trigger_config = me.new]
    /\ latest' = [latest EXCEPT ![me.w] = me.new.edit]
    /\ Answer(s, SIdle)
    /\ UNCHANGED <<now, edits, runs>>

-----------------------------------------------------------------------------
(* tick_workflow_schedules *)

TickBegin(s) ==
    /\ sreq[s] = SIdle
    /\ Answer(s, [SIdle EXCEPT !.pc = "tick", !.at = now,
                    !.rows = [w \in Workflows |-> workflow[w].trigger_config],
                    !.left = {w \in Workflows : workflow[w].present /\ workflow[w].trigger = "schedule"}])
    /\ UNCHANGED <<workflow, now, edits, runs, latest>>

NotDue(me, w) == ~me.rows[w].enabled \/ me.rows[w].next_run_at > me.at

\* Rows come in the order of updated_at, here in any order.
TickSkips(s, w) ==
    LET me == sreq[s] IN
    /\ me.pc = "tick" /\ me.created < TickLimit
    /\ w \in me.left /\ NotDue(me, w)
    /\ Answer(s, [me EXCEPT !.left = @ \ {w}])
    /\ UNCHANGED <<workflow, now, edits, runs, latest>>

\* _template_for knows no custom workflow: a KeyError ends the tick, and the
\* rows it had not come to wait for another one.
TickRaises(s, w) ==
    LET me == sreq[s] IN
    /\ me.pc = "tick" /\ me.created < TickLimit
    /\ w \in me.left \cap Customs /\ ~NotDue(me, w)
    /\ Answer(s, SIdle)
    /\ UNCHANGED <<workflow, now, edits, runs, latest>>

Enqueued(me, w) == [w |-> w, edit |-> me.rows[w].edit, enabled |-> me.rows[w].enabled,
                    scheduled_for |-> me.rows[w].next_run_at, at |-> me.at]

\* Faulty variant: the schedule is written back as the tick loaded it, with the
\* next time.
EnqueueAndReschedule(s, w) ==
    LET me == sreq[s] IN
    /\ me.pc = "tick" /\ me.created < TickLimit
    /\ w \in me.left \cap Templates /\ ~NotDue(me, w)
    /\ runs' = runs \cup {Enqueued(me, w)}
    /\ workflow' = [workflow EXCEPT
            ![w].trigger_config = [me.rows[w] EXCEPT !.next_run_at = me.at + 1]]
    /\ Answer(s, [me EXCEPT !.left = @ \ {w}, !.created = @ + 1])
    /\ UNCHANGED <<now, edits, latest>>

\* The run is committed on its own.  The next time is written into the dict that
\* was loaded, and a copy of that dict is assigned to the column: the flush
\* compares it with the same dict, finds no difference and sends no UPDATE.
\* trigger_config keeps the time that has just been served.
enqueue_workflow_run(s, w) ==
    LET me == sreq[s] IN
    /\ me.pc = "tick" /\ me.created < TickLimit
    /\ w \in me.left \cap Templates /\ ~NotDue(me, w)
    /\ runs' = runs \cup {Enqueued(me, w)}
    /\ Answer(s, [me EXCEPT !.left = @ \ {w}, !.created = @ + 1])
    /\ UNCHANGED <<workflow, now, edits, latest>>

\* The tick is through, has reached its limit, or dies.
TickEnds(s) ==
    /\ sreq[s].pc = "tick"
    /\ Answer(s, SIdle)
    /\ UNCHANGED <<workflow, now, edits, runs, latest>>

ScheduleNext ==
    \/ Advance
    \/ \E w \in Workflows :
        \/ ensure_workflow(w)
        \/ \E trigger \in Triggers, config \in SentConfigs : create_custom_workflow(w, trigger, config)
        \/ delete_custom_workflow(w)
    \/ \E s \in SReqs :
        \/ \E w \in Workflows :
            \/ \E trigger \in Triggers : PatchBegin(s, w, trigger)
            \/ \E enabled \in BOOLEAN, start_at \in {now, now + 1} :
                   _workflow_record_for(s, w, enabled, start_at)
            \/ TickSkips(s, w)
            \/ TickRaises(s, w)
            \/ enqueue_workflow_run(s, w)
        \/ update_custom_workflow(s)
        \/ configure_workflow_schedule(s)
        \/ TickBegin(s)
        \/ TickEnds(s)

ScheduleSpec == ScheduleInit /\ [][ScheduleNext]_scheduleVars

-----------------------------------------------------------------------------
(* Properties *)

\* A tick that overlaps a request never writes an older configuration over
\* the one the request has committed: a row holds what was configured last.
\* It holds because a tick writes no configuration at all, not even the time
\* of the next run.
ConfigurationSurvives ==
    \A w \in Workflows : workflow[w].trigger_config.edit = latest[w]
=============================================================================
