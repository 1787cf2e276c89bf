---------------------------- MODULE ReviewDispatch ----------------------------
(***************************************************************************)
(* The review of proposed changes: production_reviews.py runs a change in  *)
(* a sandbox, approves it and applies it through a hook, and               *)
(* production_hooks.py calls the hook: a JSON stack request of its own, or *)
(* an MCP server by way of mcp_client.py.                                  *)
(*                                                                         *)
(* A request reads the rows it needs, awaits other services with its       *)
(* transaction open and writes at the end; every await is a point at which *)
(* another request may run, so one action is the code between two awaits   *)
(* that matter.  Reads are read committed.  An UPDATE writes the columns   *)
(* whose new value differs from the one loaded, no others.                 *)
(***************************************************************************)
EXTENDS Integers, Sequences, FiniteSets

CONSTANTS
    Changes,        \* proposed changes, as a workflow run left them
    Hooks,          \* hooks the changes can be dispatched through
    JsonStackHooks, \* those that are JSON stacks; the others are MCP servers
    EffectfulHooks, \* those whose effect radius is in EFFECTFUL_RADII
    Reqs,           \* requests being served
    Nothing,        \* no change, no hook
    MaxBoxes,       \* bound on sandbox runs
    MaxCalls,       \* bound on hook_call rows
    MaxSent         \* bound on writes with one idempotency key

ASSUME ReviewAssumption ==
    /\ JsonStackHooks \subseteq Hooks /\ EffectfulHooks \subseteq Hooks
    /\ Nothing \notin Changes \cup Hooks
    /\ MaxBoxes \in Nat /\ MaxCalls \in Nat /\ MaxSent \in Nat

VARIABLES
    change,     \* change[c]: the proposed_change row
    boxes,      \* how many sandbox_run rows there are; ids count up
    calls,      \* the hook_call rows in the order of their commits
    sent,       \* sent[k]: write requests an external system received
    req,        \* req[r]: the request r is serving
    (* history *)
    lost,       \* lost[k]: writes of calls that crashed before their row
    dispatched  \* changes for which apply_change has sent a write

vars == <<change, boxes, calls, sent, req, lost, dispatched>>

-----------------------------------------------------------------------------
(* Rows and requests *)

Statuses == {"proposed", "sandbox_passed", "approved", "applied"}

\* sandbox: sandbox_run_id, 0 for null; approver and applied: is the column set.
Change == [status : Statuses, sandbox : Nat, approver : BOOLEAN, applied : BOOLEAN]

\* The inputs of a dispatch are a function of the change and the hook: the
\* text carries the status, which is "approved" in every dispatch.  The key
\* hashes hook, operation and inputs; it does not say whether the call is live.
_idempotency_key(h, c) == <<h, c>>
Keys == {_idempotency_key(h, c) : h \in Hooks, c \in Changes}

\* sim: outputs made up by simulate_hook_outputs.  writes and seen are
\* history: the writes that left, and how many rows there were at the lookup.
HookCall == [key : Keys, live : BOOLEAN, ok : BOOLEAN, sim : BOOLEAN,
             writes : Nat, seen : Nat]

\* read: the status loaded.
Request == [pc : {"idle", "launch", "approve", "lookup", "send",
                  "legacy", "record", "mark"},
            c : Changes \cup {Nothing}, h : Hooks \cup {Nothing},
            apply : BOOLEAN, live : BOOLEAN, read : Statuses,
            ok : BOOLEAN, sim : BOOLEAN, writes : Nat, seen : Nat]
Idle == [pc |-> "idle", c |-> Nothing, h |-> Nothing, apply |-> FALSE,
         live |-> FALSE, read |-> "proposed", ok |-> FALSE,
         sim |-> FALSE, writes |-> 0, seen |-> 0]

TypeOK ==
    /\ change \in [Changes -> Change]
    /\ boxes \in Nat
    /\ calls \in Seq(HookCall)
    /\ sent \in [Keys -> Nat] /\ lost \in [Keys -> Nat]
    /\ req \in [Reqs -> Request]
    /\ dispatched \subseteq Changes

\* Rows as the change.propose step of a workflow run inserts them.
Init ==
    /\ change = [c \in Changes |-> [status |-> "proposed", sandbox |-> 0,
                                    approver |-> FALSE, applied |-> FALSE]]
    /\ boxes = 0 /\ calls = <<>>
    /\ sent = [k \in Keys |-> 0] /\ lost = [k \in Keys |-> 0]
    /\ req = [r \in Reqs |-> Idle]
    /\ dispatched = {}

Set(r, me) == req' = [req EXCEPT ![r] = me]
Key(r) == _idempotency_key(req[r].h, req[r].c)

-----------------------------------------------------------------------------
(* create_sandbox_run and approve_change *)

SandboxBegin(r, c) ==
    /\ req[r] = Idle
    /\ Set(r, [Idle EXCEPT !.pc = "launch", !.c = c, !.read = change[c].status])
    /\ UNCHANGED <<change, boxes, calls, sent, lost, dispatched>>

\* The launch takes up to 20 seconds and always has an answer, see
\* SandboxLaunch.  Nothing of it decides what happens next: the status is
\* sandbox_passed whatever the exit code, and whatever happened to the change
\* since it was loaded.  An unchanged status is not written.
SandboxCommit(r) ==
    LET c == req[r].c
        passed == IF req[r].read = "sandbox_passed" THEN change[c].status
                  ELSE "sandbox_passed"
    IN  /\ req[r].pc = "launch"
        /\ boxes < MaxBoxes
        /\ boxes' = boxes + 1
        /\ change' = [change EXCEPT ![c].sandbox = boxes + 1, ![c].status = passed]
        /\ Set(r, Idle)
        /\ UNCHANGED <<calls, sent, lost, dispatched>>

ApproveBegin(r, c) ==
    /\ req[r] = Idle
    /\ Set(r, [Idle EXCEPT !.pc = "approve", !.c = c, !.read = change[c].status])
    /\ UNCHANGED <<change, boxes, calls, sent, lost, dispatched>>

\* Faulty variant: the approver is not noted.
ApproveAnonymously(r) ==
    /\ req[r].pc = "approve"
    /\ change' = [change EXCEPT ![req[r].c].status = "approved"]
    /\ Set(r, Idle)
    /\ UNCHANGED <<boxes, calls, sent, lost, dispatched>>

ApproveCommit(r) ==
    LET c == req[r].c
        approved == IF req[r].read = "approved" THEN change[c].status ELSE "approved"
    IN  /\ req[r].pc = "approve"
        /\ change' = [change EXCEPT ![c].approver = TRUE, ![c].status = approved]
        /\ Set(r, Idle)
        /\ UNCHANGED <<boxes, calls, sent, lost, dispatched>>

-----------------------------------------------------------------------------
(* apply_change and a direct POST /hooks/{id}:call *)

EffectGated(h, live, effect_approved) ==
    h \in EffectfulHooks /\ live /\ ~effect_approved

\* Faulty variant: the sandbox run is not asked for.
ApplyUntested(r, c, h, live) ==
    /\ req[r] = Idle
    /\ change[c].status = "approved"
    /\ Set(r, [Idle EXCEPT !.pc = "lookup", !.c = c, !.h = h, !.apply = TRUE,
                           !.live = live, !.read = "approved"])
    /\ UNCHANGED <<change, boxes, calls, sent, lost, dispatched>>

ApplyBegin(r, c, h, live) ==
    /\ req[r] = Idle
    /\ change[c].status = "approved"
    /\ change[c].sandbox # 0
    /\ Set(r, [Idle EXCEPT !.pc = "lookup", !.c = c, !.h = h, !.apply = TRUE,
                           !.live = live, !.read = "approved"])
    /\ UNCHANGED <<change, boxes, calls, sent, lost, dispatched>>

\* Somebody sends the inputs of a change to the hook, by hand.
CallBegin(r, c, h, live, effect_approved) ==
    /\ req[r] = Idle
    /\ ~EffectGated(h, live, effect_approved)
    /\ Set(r, [Idle EXCEPT !.pc = "lookup", !.c = c, !.h = h, !.live = live])
    /\ UNCHANGED <<change, boxes, calls, sent, lost, dispatched>>

\* Faulty variant: calls of another status answer.
Unsuccessful(k) == {n \in DOMAIN calls : calls[n].key = k /\ ~calls[n].ok}

Succeeded(k) == {n \in DOMAIN calls : calls[n].key = k /\ calls[n].ok}

\* A live call with an earlier success is answered by it, be that a preview or
\* outputs that were simulated.
_existing_successful_call(r) ==
    LET me == req[r] IN
    /\ me.pc = "lookup"
    /\ IF me.live /\ Succeeded(Key(r)) # {}
       THEN Set(r, IF me.apply THEN [me EXCEPT !.pc = "mark"] ELSE Idle)
       ELSE Set(r, [me EXCEPT !.pc = "send", !.seen = Len(calls)])
    /\ UNCHANGED <<change, boxes, calls, sent, lost, dispatched>>

\* n writes of request r reach the external system.
Write(r, n) ==
    /\ sent[Key(r)] + n <= MaxSent
    /\ sent' = [sent EXCEPT ![Key(r)] = @ + n]
    /\ dispatched' = IF n > 0 /\ req[r].apply THEN dispatched \cup {req[r].c} ELSE dispatched
    /\ UNCHANGED <<change, boxes, calls, lost>>

\* A preview sends nothing.  A live request fails before it is sent (no
\* secret, invalid spec, no connection), or after the other side has acted
\* on it (timeout, answer that is no JSON), or succeeds.
call_stack(r) ==
    /\ req[r].pc = "send" /\ req[r].h \in JsonStackHooks
    /\ \E ok \in BOOLEAN, n \in {0, 1} :
        /\ n = 1 => req[r].live
        /\ req[r].live /\ ok => n = 1
        /\ Write(r, n)
        /\ Set(r, [req[r] EXCEPT !.pc = "record", !.ok = ok, !.writes = n])

\* initialize or tools/call fails, the latter before or after the tool ran:
\* the legacy endpoint is tried.  dry_run is passed on and obeyed.
mcp_call(r) ==
    /\ req[r].pc = "send" /\ req[r].h \notin JsonStackHooks
    /\ \E answered \in BOOLEAN, n \in {0, 1} :
        /\ n = 1 => req[r].live
        /\ req[r].live /\ answered => n = 1
        /\ Write(r, n)
        /\ Set(r, [req[r] EXCEPT !.pc = IF answered THEN "record" ELSE "legacy",
                                 !.ok = answered, !.writes = n])

\* When this fails too the outputs are simulated; the status is succeeded
\* in every case.
_legacy_call(r) ==
    /\ req[r].pc = "legacy"
    /\ \E answered \in BOOLEAN, n \in {0, 1} :
        /\ n = 1 => req[r].live
        /\ req[r].live /\ answered => n = 1
        /\ Write(r, n)
        /\ Set(r, [req[r] EXCEPT !.pc = "record", !.ok = TRUE, !.sim = ~answered,
                                 !.writes = @ + n])

\* Faulty variants: a dispatch is applied whatever became of it; failed calls
\* are not recorded.
RecordUnchecked(r) ==
    LET me == req[r] IN
    /\ me.pc = "record"
    /\ Len(calls) < MaxCalls
    /\ calls' = Append(calls, [key |-> Key(r), live |-> me.live, ok |-> me.ok,
                               sim |-> me.sim, writes |-> me.writes, seen |-> me.seen])
    /\ Set(r, IF me.apply /\ me.live THEN [me EXCEPT !.pc = "mark", !.writes = 0] ELSE Idle)
    /\ UNCHANGED <<change, boxes, sent, lost, dispatched>>

RecordSuccess(r) ==
    LET me == req[r] IN
    /\ me.pc = "record"
    /\ Len(calls) < MaxCalls
    /\ calls' = IF ~me.ok THEN calls
                ELSE Append(calls, [key |-> Key(r), live |-> me.live, ok |-> TRUE,
                                    sim |-> me.sim, writes |-> me.writes, seen |-> me.seen])
    /\ Set(r, IF me.apply /\ me.live /\ me.ok
              THEN [me EXCEPT !.pc = "mark", !.writes = 0] ELSE Idle)
    /\ UNCHANGED <<change, boxes, sent, lost, dispatched>>

\* The hook_call row; a failed dispatch, a preview and a direct call end here.
Record(r) ==
    LET me == req[r] IN
    /\ me.pc = "record"
    /\ Len(calls) < MaxCalls
    /\ calls' = Append(calls, [key |-> Key(r), live |-> me.live, ok |-> me.ok,
                               sim |-> me.sim, writes |-> me.writes, seen |-> me.seen])
    /\ Set(r, IF me.apply /\ me.live /\ me.ok
              THEN [me EXCEPT !.pc = "mark", !.writes = 0] ELSE Idle)
    /\ UNCHANGED <<change, boxes, sent, lost, dispatched>>

\* Faulty variant: a status nobody knows.
MarkDispatched(r) ==
    /\ req[r].pc = "mark"
    /\ change' = [change EXCEPT ![req[r].c].status = "dispatched", ![req[r].c].applied = TRUE]
    /\ Set(r, Idle)
    /\ UNCHANGED <<boxes, calls, sent, lost, dispatched>>

Mark(r) ==
    /\ req[r].pc = "mark"
    /\ change' = [change EXCEPT ![req[r].c].status = "applied", ![req[r].c].applied = TRUE]
    /\ Set(r, Idle)
    /\ UNCHANGED <<boxes, calls, sent, lost, dispatched>>

\* The process dies, the client goes away, or a token cannot be refreshed:
\* the transaction is rolled back, what was sent is sent.
Crash(r) ==
    /\ req[r].pc # "idle"
    /\ lost' = IF req[r].writes > 0 THEN [lost EXCEPT ![Key(r)] = @ + req[r].writes] ELSE lost
    /\ Set(r, Idle)
    /\ UNCHANGED <<change, boxes, calls, sent, dispatched>>

-----------------------------------------------------------------------------
Next ==
    \E r \in Reqs :
        \/ \E c \in Changes :
            \/ SandboxBegin(r, c)
            \/ ApproveBegin(r, c)
            \/ \E h \in Hooks, live \in BOOLEAN :
                \/ ApplyBegin(r, c, h, live)
                \/ \E marker \in BOOLEAN : CallBegin(r, c, h, live, marker)
        \/ SandboxCommit(r)
        \/ ApproveCommit(r)
        \/ _existing_successful_call(r)
        \/ call_stack(r)
        \/ mcp_call(r)
        \/ _legacy_call(r)
        \/ Record(r)
        \/ Mark(r)
        \/ Crash(r)

Spec == Init /\ [][Next]_vars

-----------------------------------------------------------------------------
(* Properties *)

\* An applied change has a hook_call row with status succeeded for its own
\* inputs, and the row says what stood for the write: a write, outputs made up
\* because the MCP server failed, or an earlier preview.  apply_change marks
\* the change in a transaction after the one that records the call, or after
\* a lookup that found the record of somebody else.
AppliedIsTraced ==
    \A c \in Changes : change[c].applied =>
        \E n \in DOMAIN calls :
            /\ \E h \in Hooks : calls[n].key = _idempotency_key(h, c)
            /\ calls[n].ok
            /\ calls[n].live /\ ~calls[n].sim => calls[n].writes > 0

\* Once a success is recorded, a call with the same key that is live and
\* looks afterwards sends nothing: call_hook sends a second write only when it
\* had looked before the first one was recorded.
ReplayOnceRecorded ==
    \A n, m \in DOMAIN calls :
        /\ n < m
        /\ calls[n].ok
        /\ calls[m].live
        /\ calls[n].key = calls[m].key
        => calls[m].seen < n

\* The sum of a function's values, by counting a token for each unit of each.
Tokens(weight) == UNION {{x} \X (1 .. weight[x]) : x \in DOMAIN weight}
Total(weight) == Cardinality(Tokens(weight))

RecordedWrites(k) == [n \in DOMAIN calls |-> IF calls[n].key = k THEN calls[n].writes ELSE 0]
PendingWrites(k) == [r \in Reqs |-> IF Key(r) = k THEN req[r].writes ELSE 0]

\* Every write an external system received is in the ledger of hook calls,
\* be it of a call that failed, belongs to a call in flight, or was lost in a
\* crash between the write and the row.
WritesAccounted ==
    \A k \in Keys :
        sent[k] = lost[k] + Total(RecordedWrites(k)) + Total(PendingWrites(k))

\* The status, overwritten blindly by three handlers, never claims what the
\* columns beside it do not show.
StatusTracksColumns ==
    \A c \in Changes :
        /\ change[c].status = "sandbox_passed" => change[c].sandbox # 0
        /\ change[c].status = "approved" => change[c].approver
        /\ change[c].status = "applied" =>
               change[c].applied /\ change[c].approver /\ change[c].sandbox # 0

Lifecycle == INSTANCE ReviewLifecycle WITH
    sandboxed <- {c \in Changes : change[c].sandbox # 0},
    approved <- {c \in Changes : change[c].approver},
    applied <- {c \in Changes : change[c].applied}

\* Whatever the requests do to each other, a change is written to an external
\* system by apply_change, and marked as applied, only when it has a sandbox
\* run and an approver, and none of the four is ever taken back.
ImplementsLifecycle == Lifecycle!LSpec
=============================================================================
