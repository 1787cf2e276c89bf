# Verification of Praetor

Praetor runs governed agentic compliance workflows: a run is a chain of typed
steps (hooks, corpus queries, sandboxed agents, findings, proposed changes,
gates), driven by HTTP requests against one Postgres database, a Redis event
stream and a sandbox orchestrator.  This directory models the parts of it whose
correctness depends on orders nobody tests: several requests working on the same
rows, crashes between transactions, leases that expire, human decisions that
arrive late, answers made up because the real one was lost.

`PW` below is `apps/api/praetor_api/services/production_workflows.py`, `PH` is
`production_hooks.py`, `PR` is `production_reviews.py`, `ES` is `event_stream.py`
in the same directory.

## 1. Inventory

| component | state it keeps | operations | hard behaviour | what makes it correct |
|---|---|---|---|---|
| workflow runtime (PW) | `workflow_run`, `step_run`, `finding`, `proposed_change`, `policy_decision`, agent `asset` rows | create (queued, sync), drain, recover leases, execute, finalize, resume (approve, reject), cancel | every request has its own database session with its own stale copy of the rows; 8 or more commits per run; leases without renewal; crashes between commits | gates before external writes, dependency order, runs settle, nothing emitted is lost, decisions stick |
| hook calls (PH) | `hook_call` rows with idempotency keys | `call_hook`: replay lookup, external request, commit of the row | request and row are not atomic, keys are not unique | no repeated external write once one is recorded |
| workflow worker (`apps/workflow`) | none | polls schedule tick, drain, evidence sweep | several workers, drains that overlap | runs are picked up again after any crash |
| event stream and hash chain (ES, `hashchain.py`) | `agent_event` rows linked per asset, Redis stream | append, read in chain order | tail read without a lock, published before commit, filtered reads | one linear chain per asset, grounded in committed rows, reads in chain order |
| evidence consumer (PR) | `evidence_record`, `evidence_checkpoint`, consumer group | consume from the stream or from the table, sweep | entries whose rows are not visible yet, crash before acknowledging, checkpoint by time | evidence speaks of committed events only, every committed event is in evidence once, nothing is acknowledged before its evidence |
| findings and proposed changes (PR) | `finding.status`, `proposed_change`, `sandbox_run`, `hook_call` | sandbox, approve, apply | every handler reads, awaits a service and overwrites the status blindly; check, external call and write are separate | only approved and sandboxed changes leave, applied means recorded, a recorded success is never repeated |
| workflow schedules (PW) | `workflow` rows, `trigger_config` | configure, patch, create, delete, tick | a tick works on rows that requests change meanwhile | a tick undoes no configuration |
| custom workflows, graph compilation (PW) | `workflow` rows with a graph | create, update, delete, normalise, compile | cycle check after renaming, deduplication and filtering, dependencies it does not see; workflows without a template | a drawing with a cycle of edges is refused and no other, what is stored can be run in some order |
| demo simulator | in-process dictionaries | start, tick, resume, cancel | a coroutine that waits, requests that write the same dictionary, approval by event | a gate waits for its own decision and no other |
| sandbox orchestrator, harness | Docker containers | launch, wait, collect, replay; model call, scan, output | timeouts on three levels, made-up answers on each | exit codes and findings say where they come from |
| MCP client, OAuth | `mcp_oauth_connection` | start, complete, refresh | awaits between read and write, rotating tokens | the newest token is kept, a callback matches its flow |
| JSON stack, OpenAPI importer | `hook` rows with a spec | import, upsert, call | overlapping upserts | external effects were approved |
| model providers | none | complete, check, stream | streams that break, end twice or are cut off by an exception | the client gets the whole text and is told of the end |
| secrets | process cache | resolve | cached answers of a vault | requests carry a secret that was valid |
| runtime library, corpora, inventory, policy, auth, SDKs, web UI, migrations | none or single rows | single requests | no interleaving of their own | not modelled (section 5) |

Interaction: HTTP routers open a session per request and call PW, PH or PR; PW
calls PH for `hook.out` steps, the orchestrator for agent steps, ES for its
events and the evidence consumer at the end of every run.  The worker process
only sends HTTP requests.  All shared state is in Postgres and Redis, except the
dictionaries of the demo mode and the cache of the vault, which a process keeps.

The complete list of hazards, with the line where each one bites and the
properties that cover it, is in `PROJECT.json`.

## 2. Modules

| module | content |
|---|---|
| `WorkflowRuntime` | the workflow runtime and the live hook call: variables, actions, specification, properties, inductive invariant; implements `GovernedRuns` |
| `GovernedRuns` | abstract specification: the order in which the steps of a run start, complete, are approved and write outside |
| `MCWorkflowRuntime` | templates, state constraint and symmetry for TLC |
| `WorkflowRuntimeProofs` | type correctness and the safety theorems, proved with TLAPS |
| `WorkflowSoloProofs` | what the runtime promises when requests do not overlap, and when no session is lost either |
| `HashChain` | the hash chain of an asset as operators: tail to append to, order of rows read without an order |
| `EvidenceStream` | composes the chain with the sessions that append to it, the Redis stream, the consumer group, the table sweep, evidence and its checkpoint; implements `AuditLog` |
| `AuditLog` | abstract specification: what the event stream promises to who audits an asset |
| `MCEvidenceStream` | orders of random ids and symmetry for TLC |
| `EvidenceStreamProofs` | type correctness and the safety theorems of `EvidenceStream`, proved with TLAPS |
| `ReviewLifecycle` | abstract specification: what the review of changes promises |
| `ReviewDispatch` | sandbox runs, approvals, applies and all of `call_hook`; implements `ReviewLifecycle` |
| `ReviewDispatchProofs` | its invariants and the refinement, proved with TLAPS |
| `SandboxLaunch` | one launch: API, orchestrator thread, Docker daemon, container |
| `AgentStep` | what an agent step reports: manifest, harness, log, fallbacks |
| `McpOAuth` | the OAuth connection of an MCP hook and its authorization server |
| `McpOAuthProofs` | theorems about `McpOAuth` |
| `WorkflowSchedules` | the workflow table, schedules and ticks |
| `WorkflowGraph` | templates as graphs, drawn graphs, their check and the steps that are stored |
| `WorkflowGraphProofs` | the check of drawn graphs and the steps stored, for drawings of any size |
| `ModelProviders` | completions and streams of model providers, those cut off included |
| `JsonStack` | catalog, importer, upserts, the gate for effects and secrets of JSON stack hooks |
| `JsonStackProofs` | theorems about `JsonStack` |
| `DemoSimulator` | a run of the demo mode and the requests that meet it |
| `OperationsProofs` | theorems about `SandboxLaunch`, `WorkflowSchedules`, `ModelProviders`, `AgentStep` and `DemoSimulator`, and about the composition `MCOperations` |
| `MCOperations` | composes the nine parts above for TLC |

### 2.1 WorkflowRuntime

**State.** `run`, `step`, `persisted` (finding and proposal rows), `agentAsset`,
`decided` (policy decisions) and `hookCalls` are tables.  `lock` is the row lock a
drain takes with `FOR UPDATE SKIP LOCKED`.  `sess[s]` is a request: a program
counter and everything it has in memory, that is its copy of the run row
(`snap`), of the step rows (`cache`), the results it has not recorded (`work`),
its lists of findings and proposals and its loop variable `final_status`
(`verdict`).  History variables (`execs`, `sends`, `completed`, `approved`,
`announced`) are read only by the properties and to make fresh ids.

**Actions.** One action is one transaction, or one effect outside the database:

| action | code |
|---|---|
| `Enqueue`, `StartSync` | `enqueue_workflow_run`, `run_workflow` |
| `DrainRecover`, `DrainSelect` | `drain_queued_workflows` up to its loop |
| `Lookup`, `RecoverRun`, `LoadSteps`, `MarkRunning` | `process_workflow_run` up to the commit of `status = "running"` |
| `LeaseReady` | one pass of the loop up to the commit of the leases |
| `ExecuteStep`, `AgentFound`, `AgentMissing`, `AgentInserted`, `AgentConflict` | `_execute_step` by step type, `_ensure_workflow_agent_asset` |
| `HookSend`, `HookSave` | `_run_github_hook_out` and `call_hook`: the request leaves, then the row is committed |
| `RecordResults` | the loop over the results and its commit |
| `Finalize`, `Refresh`, `Publish` | final status, findings and proposals; the row read again; the events |
| `ResumeLookup`, `ResumeLoad`, `ResumeNothing`, `Approve`, `Reject` | `resume_workflow_run`; an approval goes on in `RecoverRun` |
| `Cancel` | `cancel_workflow_run` |
| `Crash` | the process dies or an exception ends the request |
| `LeaseLapse`, `LeaseOverrun` | `lease_expires_at` passes, for a step nobody executes and for one still executing |

**What the database layer does, and the model with it.**

- `expire_on_commit=False`: a session keeps what it loaded. The drain's batch is
  read once; later runs of the batch are processed from that copy.  A resumed
  run is executed from the step rows loaded before the approval (`resumed`).
- A flush writes only the columns that differ from the loaded value (`Flush`),
  so two sessions merge their rows column by column.
- The drain's row locks end at its first commit (`Unlock`), those of the rest of
  its batch too.  A writer waits for a lock (`MayWrite`).
- Lease recovery writes the whole `outputs` document of a running run from the
  session's copy.
- The agent's asset has a unique urn and is inserted in the transaction that
  stays open while the sandbox runs: a second executor waits, then fails.

**Abstractions.** A finding or proposal is a number, `0` is none; ids are fresh
because every execution generates its own (`FreshId`).  Proposals carry the
finding they belong to.  Inputs are reduced to `manual` (`approved` is false in
the inputs).  `hook.out` is modelled with live dispatch and a head branch
configured; the preview sends nothing.  Agents succeed with or without a finding
or fail.  All registered templates are chains of steps, and `Kind` is such a
chain; none declares `retry`, so a step is attempted once per lease.  Code after
the return of `resume_workflow_run` (PW 1452-1510) is unreachable.

**Refinement.** `GovernedRuns` says what is left when the machinery (rows, copies,
leases, sessions, crashes) is taken away: a run is created, its steps start after
everything ahead of them completed, complete after they started, a policy gate
together with its decision and a human gate of a run that asks for one only by an
approval; a write leaves only as a `hook.out` step starts.  The mapping reads what
exists from the run rows (`createdBar`), what was started from `execs`
(`startedBar`), and takes `completed`, `decided`, `approved` and `sends` as they
are.  The status columns are not part of it, because recovery, cancellation and
stale copies move them back and forth: `SuccessNeedsApproval` and
`LeaseIsExclusive`, which would be about them, do not hold.

### 2.2 HashChain and EvidenceStream

**State.** `event[n]` is an `agent_event` row: `owner` is the session whose open
transaction inserted it, then `"committed"`; `ts` is the start of that
transaction (`now()` in Postgres).  `stream`, `delivered` and `acked` are the
Redis stream and the state of the group `praetor:evidence`; `evidence` and
`checkpoint` are tables, the checkpoint with the owner of an uncommitted insert.
`sess[s]` is one transaction of a request and what it has read.  `overlapped`,
`missed` and `saves` are history.

**Actions.** One action is one statement of a transaction, or one Redis command:

| action | code |
|---|---|
| `StartPublish` | the transaction that begins when the finalized run is read again (PW 1215), or after a cancellation is committed |
| `AppendEvent` | `append_persisted_event`: tail, row, flush, XADD |
| `CommitCancel` | the commit at the end of `cancel_workflow_run`, after its one event |
| `ConsumeOwn`, `Sweep` | `consume_evidence_events` called by whoever published, in the same transaction, or by the worker and the evidence pages |
| `TakeEntries`, `StreamFails` | XREADGROUP, and the fallback to the table on any Redis error, before or after the entries were handed out |
| `LookupCheckpoint`, `InsertCheckpoint`, `CheckpointConflict` | `_evidence_checkpoint`: its unique column makes a second insert wait, then fail |
| `Match` | the query for the rows of the entries, or for the rows after the checkpoint |
| `DropEntries` | the early return that acknowledges entries without any row |
| `Materialize` | `_materialize_evidence_for_events`, `_create_evidence_from_events` with the lookup of equal records |
| `Save`, `Ack` | records, checkpoint and the session's own events in one commit; XACK after it |
| `Crash` | the request is lost and its transaction rolled back |

**What the database and Redis do, and the model with it.**  A statement sees
committed rows and those of its own transaction (`Visible`).  XADD and XREADGROUP
take effect at once whatever becomes of the transaction.  A select without ORDER
BY returns rows in any order: `TailHashes` allows every tail, `ReadsInOrder`
quantifies over all orders.  A flush of the checkpoint writes a column only if it
differs from the value loaded (`Flush`).

**Abstractions.** SHA-256 is injective: the hash of an event is the sequence of
payloads hashed so far, so equal payloads after equal hashes collide as in the
code.  Events are numbered in the order of their XADDs, one event per
transaction step; their random ids compare in an order of their own (`Uuid`).
There is one asset, as chains of different assets share nothing.  One record
stands for the records of all obligations of a batch: which obligations, control
and decisions it names is data that the properties do not tell apart.  All
events belong to a run, as everything that calls `append_persisted_event` in the
workflow runtime passes one.  Any run may publish any number of events within
the bound; the exact events of a run are in `WorkflowRuntime`'s `Publish`.

**Refinement.** `AuditLog` says what is left for an auditor when sessions,
transactions, entries in flight and the checkpoint are taken away: a log that only
grows and in which no event is rewritten, each event sealed by its hash over that of
an event in the log; evidence that is never withdrawn and names events of the log, of
its run; entries that are given up only once they are evidenced or were missed, and
missed only while their event is not in the log.  One step adds events of one run,
as the transaction of one publisher does.  The log is the committed rows without
their owners (`logBar`); `evidence`, `missed` and `acked` are taken as they are.  The
abstract specification lets the log fork and lets an event go without evidence,
because the code does: one chain needs publishers that do not overlap
(`ChainLinear`), and `AckedIsEvidenced` does not hold.

### 2.3 ReviewDispatch and ReviewLifecycle

**State.** `change`, `boxes` and `calls` are the tables `proposed_change`,
`sandbox_run` and `hook_call`, `sent` is what external systems received, `req[r]`
a request: what it loaded and where it waits.  `lost` and `dispatched` are history.

| action | code |
|---|---|
| `SandboxBegin`, `SandboxCommit` | `create_sandbox_run` before and after the launch |
| `ApproveBegin`, `ApproveCommit` | `approve_change` |
| `ApplyBegin`, `CallBegin` | `apply_change` and `POST /hooks/{id}:call` up to `call_hook` |
| `_existing_successful_call` | the replay lookup |
| `call_stack`, `mcp_call`, `_legacy_call` | the external request; the last is the MCP fallback |
| `Record`, `Mark` | the committed row; the change becomes applied |
| `Crash` | the request is lost, with what it wrote outside |

An UPDATE writes the columns that differ from what was loaded, so two handlers
merge column by column.  The id of a hook call is its place in the order of
commits.  `ReviewLifecycle` has four growing sets (sandboxed, approved,
dispatched, applied); the refinement mapping reads them from the columns of
`change`, not from its status, which handlers overwrite.

### 2.4 SandboxLaunch and AgentStep

`SandboxLaunch` has the API's request, the orchestrator's thread, the container
and the timeouts between them; `ContainerExits` and what Docker refuses are
nondeterministic.  Both replays, of the API and of the orchestrator, are
answers with exit code 0.  `AgentStep` follows one step from the documents that
fit into the manifest (`_collect_workflow_documents`) over the place where the
output is made up (`_try_live`, `_stub_output`, `_scan`, the two replays) to the
status and findings of the step.  A finding is a label of its source (`model`,
`expected`, or a rule's topic); documents are sizes.

### 2.5 McpOAuth

`connection` is the sequence of rows of the hook in order of creation, `flows`
counts registered clients, `newest[f]` is the last refresh token the server
issued to client `f`.  A start, a completion and a refresh are each split at
their request to the server.  State, verifier and client of a start are one
number: all three are fresh per start.

### 2.6 WorkflowSchedules and WorkflowGraph

`WorkflowSchedules` has the rows and what each request holds of them; a
configuration is numbered (`edit`) to see which one survives.
`WorkflowGraph` compiles all seven templates of `WORKFLOW_TEMPLATES` and projects
them back, and checks every drawing within the bounds with the code's own loop
(Kahn's algorithm), one action per node taken off.  Ids of drawn nodes are
numbers: they are only compared.  Nodes may be sent with dependencies of their own
(`own`), on nodes that are there or not, as they are kept as sent.  `Acyclic` is the
reference the loop is compared with: of every set of nodes one has no kept edge from
within the set.  The steps that are stored are a second reading of the graph
(`graph_to_steps`): the edges into a node replace its own dependencies, and a node
without any keeps them.  `GraphsAreOrders` therefore says of the steps that a cycle among
them can only go through such a node (`SentWithOwn`).

### 2.7 ModelProviders, JsonStack

`ModelProviders` translates the events of each provider by its own function
(`_openai_stream_event` and so on).  A piece of text is the number 1, so the text
of a done event is the number of pieces it should join.  The router turns three kinds of
exceptions into an error event; what else is raised cuts the stream off, before the
first event (`StreamCut`) or while events come in (`StreamRaises`), and `StreamIsWhole`
promises no end then.
`JsonStack` has the catalog of 21 stacks as records of auth kind and operations,
the importer as a function from documents to specs, overlapping upserts, and a
live call as one request that departs with an approval and a token.  URLs, bodies
and responses are left out.

### 2.8 DemoSimulator

The event loop runs one thing at a time and publishing to the in-memory list never
waits, so everything `tick_run` does between two waits is one action: the end of a
step and the beginning of the next (`Proceed`).  All six scripts are modelled.

### 2.9 MCOperations

The nine parts have no shared variables beyond what each module already stands
for (`SandboxLaunch` inside `create_sandbox_run`, `McpOAuth` inside an MCP call).
`MCOperations` composes them in one specification in which a behaviour follows one
part, its `focus`: their states add up instead of multiplying, nothing is lost
for properties that each speak of one part.  Reviews are followed once per kind of
hook, `JsonStack` once for its upserts and once for its secret.

## 3. Model checking

| run | instance | checks |
|---|---|---|
| `RuntimeRace` | one run of the GitHub template (6 steps), 2 sessions, sync and queued, 1 overrun, fewer than 4 requests, symmetric sessions | `TypeOK`, `ExternalWritesGated`, `StatusesEarned` (of which `StartedAfterPredecessors` is a part), and the refinement `ImplementsGovernedRuns` |
| `RuntimeSolo` | 2 runs in one batch, 1 session, 1 crash, 1 overrun, 1 cancel | `CompletedStepStays`, `RecordedCallIsFinal` |
| `AgentRace` | 1 run of an agent step and what it found, 2 sessions, sync and queued, 1 crash, fairness | `RunningHasLease`, `LeasesRecovered` |
| `RuntimeLive` | 2 runs, 1 session, 1 overrun, 1 cancel, fairness | `SuccessIsComplete`, `EmittedIsPersisted`, `RunsSettle`, `SettledIsAnnounced` |
| `CancelRace` | 1 run, 1 session, 1 cancel | `CancelIsFinal` is violated |
| `GateCrash` | template that ends in a gate, 1 crash | `SuccessNeedsApproval` is violated |
| `LeaseRace` | 1 run, 2 sessions | `LeaseIsExclusive` is violated |
| `EmitCrash` | 1 run, 1 crash | `EmittedIsPersisted` is violated |
| `EvidenceRace` | 2 sessions, 2 runs, 3 events, batches of 2, 2 publishing transactions, 1 crash, 1 Redis failure, symmetric | `TypeOK`, `EvidenceBacked`, `ChainGrounded`, `ChainLinear`, `ReadsInOrder`, `AckAfterEvidence`, `ConsumedOnce`, and the refinement `ImplementsAuditLog` |
| `EvidenceLive` | 1 session, 2 payloads, 4 events, batches of 2, 3 publishing transactions, fairness | `EventsAreEvidenced` |
| `EvidenceLost` | 2 sessions, 1 event | `AckedIsEvidenced` is violated |
| `Operations` | `MCOperations` with every focus: 1 change, a JSON stack and an MCP hook, 2 requests, 2 sandbox runs, 2 hook calls, 2 writes per key; 2 OAuth flows of 2 tokens; 1 template and 1 custom workflow, 2 configurations; drawings of 3 nodes and 3 edges or dependencies sent with a node; documents of sizes 0 to 3, 2 items per list; 4 events of a provider; 2 upserts, 2 versions of a secret; 6 scripts | `TypeOK`, `ComponentsTypeOK`, and per part: reviews `AppliedIsTraced`, `ReplayOnceRecorded`, `WritesAccounted`, `StatusTracksColumns`, `ImplementsLifecycle`; launches `ExitCodeIsTheContainers`, `LeftoverIsReplayed`; OAuth `CallbackMatches`, `StoredTokenIsNewest`; schedules `ConfigurationSurvives`; graphs `GraphsAreOrders`; agents `FindingsNameTheirSource`, `SuccessIsBacked`; streams `StreamIsWhole`; JSON stacks `EffectsAreApproved`, `SentWithSecret`; demo `GateIsAnswered` |

**Bounds.** One run is enough for `RuntimeRace`: sessions interact only through
the rows of one run, and the theorems cover the rest.  Two sessions and one
overrun produce every pairwise race: both lease one step, one finalizes or
resumes while the other executes, one recovers what the other executes.  Three
requests are a drain, its competitor and a resume or recovery.  `RuntimeSolo`
needs two runs because the second one of a batch is processed from the old copy.
The templates keep every step type that changes state and drop the steps
before the agent that only compute (`ScanTemplate` keeps them).

`AgentRace` is about what a dead or failed session leaves behind: one that dies at any
point, and one whose insertion of the agent's asset conflicts with the other's, which
ends its request.  Its template has no human gate, because with one `RunningHasLease` does
not hold (three sessions and several overruns reach the case that
`LeaseLostOnlyByResume` in section 4 names, beyond what TLC can exhaust); without one it
holds for any number of sessions, crashes and overruns (`LeasedTheorem`), and with one
session also with human gates (`SoloLeasedTheorem`).

For `EvidenceRace` two sessions give a publisher and a consumer, two publishers,
or two consumers; three events let a rollback fall between two appends of
another session, a batch be smaller than the backlog, and events of one run
surround another's, the case in which reading one run has no order to promise.
`ChainLinear` and `ReadsInOrder` assume that publishing transactions did not
overlap: overlapping ones fork the chain, because the tail is read without a
lock, and no document claims otherwise.  `ConsumedOnce` assumes that Redis
answered: the fallback reads the table from a checkpoint of its own and may
consume what the stream will deliver too.

In `Operations` two requests give every pairwise race of handlers (of apply with
apply, sandbox with apply, refresh with refresh, start with callback, tick with
configure, upsert with upsert), and a crash may end either of them at any point.
Changes share nothing but the tables, whose rows name their change, so one is
enough; the theorems cover any number.  Two sandbox runs, calls and writes are the
fewest in which a second one can go wrong.  Three nodes and edges have loops,
two-node and three-node cycles, parallel edges and edges to missing nodes, and a
dependency a node is sent with beside edges that close a cycle with it.
Three documents over a cap per document and one in total make each of the two
truncate, fit exactly and drop.  Four events of a provider allow text, an end, and
something after the end.

**Fairness** (`Fairness`).  A request that was made runs to its end (the event
loop schedules it), the worker sends drain requests for ever (its loop never
exits), and time passes, so a lease nobody works under expires.  Nobody has to
start, approve or cancel a run.  `RunsSettle` therefore says that a run ends or
waits for a human, never that it is approved.  In
`EvidenceStream` sessions run on (weak) and the worker's sweep is asked for again
and again (strong, because other requests may keep the only session busy); no one
has to publish.  `RuntimeLive` has no crash: with one `EmittedIsPersisted` fails, which
is what `EmitCrash` shows, and a run need not settle (see below).  `AgentRace` has one,
and asks for less: that every step a dead session leaves running is recovered.
With two sessions `RunsSettle` would need a promise that the database serves waiters for
a row lock in turn, so it is checked with one.

**Why some properties are checked with one session only.**  With two sessions a
step may be executed twice (`LeaseRace`), so a completed step may be leased
again, attempts may be counted once for two executions, and a write may leave
twice.  `RuntimeSolo` states what recovery guarantees when drains do not overlap,
which is how the single worker of the default deployment runs.

### Disagreements with the documentation

- **A cancelled run does not stay cancelled** (`CancelRace`).  The executing
  session writes its own final status over the cancellation.
- **A run can succeed past a human gate** (`GateCrash`).  The waiting gate and
  the run's status are two commits; after a crash in between the next drain finds
  neither pending nor running steps and closes the run as succeeded.
- **Leases do not exclude** (`LeaseRace`).  The drain's row locks end at its
  first commit, and leasing is an unconditional update of a row read earlier.
- **Findings can be lost** (`EmitCrash`).  They are in memory only until the run
  is finalized.
- **Committed events can miss evidence** (`EvidenceLost`).  An event reaches the
  stream before its row is committed; a consumer in between acknowledges the
  entry without evidence, and nobody looks at it again unless Redis fails.

The following were met while modelling; the models contain them, no run is
dedicated to them.

- A live step whose model call fails succeeds: `docs/API.md:55` says it is marked failed,
  but `_try_live` returns None and the harness falls through to its stub, whose output
  says ok (`harness/agent_step.py` 48).
- A run can stay running for ever after a crash: a failed step is recorded
  (PW 1194) before the run's status is (PW 1206).  If the session dies in between, every
  later drain begins with `succeeded`, finds the steps after the failed one pending and
  never ready, and writes `running` again (PW 1199-1201); `docs/PHASE_STATUS.md:188`
  claims "worker restart recovery".
- The steps of a stored graph can depend on each other in a cycle: the check walks
  edges (PW 728-746), but a node keeps the dependencies it was sent with (694-704) and
  `graph_to_steps` falls back to them where no edge leads into it (375).  Node a sent with
  a dependency on b and an edge from a to b is stored; `docs/WORKFLOWS.md:140-141` says
  the graph is validated to have no cycles before it is persisted.
- A stream can end with neither a done nor an error event: `routers/models.py` 90-104
  catches `ModelProviderError`, `KeyError` and `RuntimeError`, but a part of Google with a
  null text makes `"".join` raise a `TypeError` (`model_providers.py` 532-538), a model
  name that makes no URL raises `httpx.InvalidURL`, which is no `HTTPError` (401), and the
  vault may answer with something that is no JSON (`secrets.py` 166).
- A workflow may be created with a schedule that is enabled (`trigger_config` is the
  client's, PW 501): it is then one of the workflows without a template that make the
  tick raise (below).
- A tick never stores the time of the next run: it changes the JSON value in
  place, which SQLAlchemy does not see, so no UPDATE is sent and a due schedule is
  enqueued again by every tick (PW 619-622).
- A scheduled workflow without a template makes the tick raise `KeyError`, and
  the schedules after it starve; a `start_at` without a time zone makes it raise a
  `TypeError`, as it cannot be compared with now (PW 602).  Configuring and patching a workflow at once can
  leave an enabled schedule with the trigger `manual`.
- A preview is a recorded success: a live apply after it is answered by the preview
  and the change becomes applied although nothing was written (PH 336-350,
  `docs/API.md:114`).  A failed MCP call is recorded as a success with made-up
  outputs (PH 284).
- `docs/API.md:113` allows an apply only after sandbox replay passed; the exit code
  of the sandbox run is ignored (PR 257-271).
- `harness/agent_step.py:193` asks the model for an empty list if nothing is wrong;
  an empty list is replaced by the expected finding (293).
- The API's replay refuses GitHub scans (PW 2677), the orchestrator's replay
  reports success for them; the socket path cuts the log at 8000 characters before
  it looks for the output's marker.
- The comment at PW 2447-2450 says only the requested provider's key is forwarded;
  all of them are.
- An OAuth completion that races a new start can leave the token of the old client
  beside the id of the new one, and clears the new flow's state.
- Of a refused stream the error's status is lost, because the body is asked for
  before it was read (`model_providers.py` 214-221); an answer that is no JSON is not
  caught by `complete`; an event of Google with text and a finish reason is only a
  delta; a done event may follow an error event.
- Overlapping upserts of one JSON stack can combine the operations of one with the
  effect radius of the other, which opens the gate `docs/JSON_STACK_HOOKS.md:58`
  promises; `EffectsAreApproved` therefore exempts such rows (`mixed`).
- The vault's first answer is used until the process ends, also when the secret
  was absent or has been rotated (`secrets.py` 150).
- In the demo mode a decision before the gate is registered only flips the status,
  which the simulator overwrites, as it does a cancellation; a rejected run keeps
  its repository in `_REPO_CACHE`; a broken archive ends the task outside the block
  that would record it, and the run stays `running`; a run with live findings may
  still propose the script's change; `tick_run`'s comment (`demo_simulator.py`
  221-222) knows only succeeded and failed runs, a rejected one is cancelled.

## 4. Proofs

`WorkflowRuntimeProofs` proves, for any number of runs, steps and sessions, any
template of the known step types and any bounds on faults:

| theorem | property |
|---|---|
| `TypeCorrect` | `[]TypeOK` |
| `EarnedTheorem` | `[]StatusesEarned` |
| `PredecessorsTheorem` | `[]StartedAfterPredecessors`, a conjunct of `StatusesEarned` |
| `GatedTheorem` | `[]ExternalWritesGated` |
| `GovernedTheorem` | `ImplementsGovernedRuns`: `WorkflowRuntime` implements `GovernedRuns` |
| `LeaseLostOnlyByResume` | `[][RunningHasLease /\ ~ResumesStale => RunningHasLease']_vars` |
| `LeasedTheorem` | `[]RunningHasLease`, for templates without a human gate (`NoHumanGate`) |

The only assumption is `RuntimeAssumption` on the constants; `LeasedTheorem` adds that
no step of the template is a `gate.human`, as in `code_compliance_scan`,
`vendor_risk_review`, `evidence_collection` and `ai_system_intake`.

**Argument.** `ExternalWritesGated` is not inductive: a session may send because
of a success it only remembers.  `StatusesEarned` therefore speaks of every copy
of a row, stored or in memory: a copy that says succeeded is of a step that is in
`completed`, and everything before it is in `completed` too (`RowBacked`); the
same holds for results not yet recorded (`SessionBacked`).  Copies may be
arbitrarily old because `completed`, `decided` and `approved` only grow
(`Grows`), which is why the argument needs no assumption on leases, locks or the
number of sessions.  `CompletedGated` then says that completed steps are a prefix
of the template whose gates were honoured, and an external write has a completed
prefix before it (`SendsBacked`).  Each action has a lemma that it keeps types
(`...Typed`) and one that it keeps this invariant (`...Earned`).

In the refinement `Enqueue` and `StartSync` are `Create`, executing a step (`ExecuteStep`,
`HookSend`, the agent's lookup) is `Start`, `RecordResults` is `Complete` of its batch,
`Approve` is `Approve` of the gate it finds waiting, and every other action is a
stutter.  `Start` needs what `StatusesEarned` says; `Complete` needs in addition that a
result in hand was started and that what waits for approval was executed on a run
whose inputs ask for one: that is `WorkStarted`, which speaks of rows and of every
session's copies because an approval is written from a copy.

`RunningHasLease` is what recovery depends on, since it finds expired rows by their
owner and expiry.  It is true of every pass but one: a resume recovers expired steps
from rows it read earlier, and where those say pending the flush leaves the stored
`running` in place and clears the lease (`ResumesStale`).  `LeaseLostOnlyByResume`
proves that nothing else can take a lease away.  With three sessions, a human gate
and several overruns that case is reachable (a stale `Finalize` blocks the leased row,
an approval puts it back), so the property does not hold of the code in general, and no
run checks it there.  It is impossible where nothing is ever resumed (`LeasedTheorem`, by
`NothingWaits`; `AgentRace` checks an instance), and where requests do not overlap
(`SoloLeasedTheorem` below).  Only model-checked remains
liveness, which the prover does not handle.

`WorkflowSoloProofs` continues it for requests that do not overlap.  The hypotheses
are the ones under which the runs check the properties (see section 3), no more:
`OneSession` says that any two sessions are the same one, `OneProposal` that the
template proposes at most one change, as every built-in one does, and `NoCrash`
that no session is lost in the middle of its work (`MaxCrashes = 0`).  Runs, steps,
batches, overruns, cancels and the template remain arbitrary.

| theorem | hypotheses | property |
|---|---|---|
| `SoloTheorem` | `OneSession` | `[]SoloInv`, not in a run |
| `AttemptsTheorem` | `OneSession` | `[]AttemptsCoverExecutions`, not in a run |
| `SoloLeasedTheorem` | `OneSession` | `[]RunningHasLease` |
| `CompletedTheorem` | `OneSession` | `CompletedStepStays` |
| `RecordedTheorem` | `OneSession`, `OneProposal` | `RecordedCallIsFinal` |
| `CleanTheorem` | `OneSession`, `NoCrash` | `[]CleanInv`, not in a run |
| `CompleteTheorem` | `OneSession`, `NoCrash` | `[]SuccessIsComplete` |
| `PersistedTheorem` | `OneSession`, `NoCrash` | `[]EmittedIsPersisted` |

**Argument.** `SoloInv` says what a second session would break: the copies of step
rows a session relies on are the stored ones, leases aside (`Matches`); a step that
is executed was leased by this session, which has counted the attempt
(`Underway`); and a step is begun only after all before it succeeded (`InOrder`).
A crash throws the copies away, so it needs no care.  A recorded call then belongs
to the one proposal there is (`CallsBacked`), and the key of a repeated `hook.out`
is that of the recorded call.  `CleanInv` is about crashes: a run nobody executes
is at rest between two steps or at its gate (`AtRest`), and everything succeeded
steps emitted is in the outputs the run row keeps (`Known`), because the two are
committed together by a session that ends in order.  `EmitCrash` shows that the
hypothesis is needed for `EmittedIsPersisted`.

`EvidenceStreamProofs` proves, for any number of sessions, runs, events, crashes
and Redis failures, from `EvidenceAssumption` (distinct random ids, and the
names of sessions, rows' owners and `Nobody` differ):

| theorem | property |
|---|---|
| `EvidenceTypes` | `[]TypeOK` |
| `EvidenceSoundTheorem` | `[]EvidenceSound`, not in a run |
| `EvidenceBackedTheorem` | `[]EvidenceBacked` |
| `GroundedTheorem` | `[]RowsGrounded`, proved but not listed in a run: the runs check its consequence `ChainGrounded` |
| `ChainTheorem` | `[]ChainGrounded` |
| `PublisherTheorem` | `[]OnePublisher`, not in a run |
| `LinearTheorem` | `[]ChainLinear` |
| `SequenceTheorem` | `[]RowsInSequence`, not in a run |
| `ReadsTheorem` | `[]ReadsInOrder` |
| `AccountedTheorem` | `[]EntriesAccounted`, not in a run |
| `AckTheorem` | `[]AckAfterEvidence` |
| `OnceTheorem` | `[]EntriesOnce`, not in a run |
| `ConsumedOnceTheorem` | `[]ConsumedOnce` |
| `SealedTheorem` | `[]RowsSealed`, not in a run |
| `AuditTheorem` | `ImplementsAuditLog` |

**Argument.** Evidence is created from rows a session sees, which may be its own
uncommitted ones.  `EvidenceSound` says what keeps that safe: the rows a session
found, and those its unsaved records name, stay visible to it, hence commit with
the records or before them (`SessionSees`); committed rows never change, and a
rollback takes the session's rows and its records together.  `ChainGrounded`
follows from `RowsGrounded`, which extends it to open transactions: a row is
chained to a committed row or to one of the same transaction, so no rollback
removes a row another one depends on.
`ChainLinear` follows from `OnePublisher`: as long as publishing transactions did
not overlap, uncommitted rows are those of one session, so the session that looks
for the tail sees every row and never takes a predecessor twice.  `EntriesAccounted`
follows an entry of the stream through the session that took it: found or missed,
then in a record or already in evidence, and acknowledged only after that.
`EntriesOnce` adds, as long as Redis answers, that batches of different sessions
share no entry and that none of them is in evidence before its session saves it.

`ReadsInOrder` needs to know which chain the committed rows form, not only that they
form one: `RowsInSequence` says that, taken in the order of their ids, every row is
chained to the row before it, that hashes get longer along the way, and that
uncommitted rows come last, so that a rollback cuts off the end of the sequence
(`SequenceCut`).  An append keeps it because the one tail of the rows there are is
the hash of the last of them.  From it follows what a read does: the rows it was
given have one head, each of them but the last has one successor among them, and the
listing of the rows by their ids (`ListingExists`) meets the equations of the walk in
`ChainOrder`.  That the walk is this listing (`WalkIs`), and that a listing exists,
are inductions over the length of a sequence.  The library's induction theorems
cannot be used here, so both are shown by the least counterexample (`LeastExists`,
from the well-foundedness of the naturals).

In the refinement every step of a session is `AuditLog`'s `Commit`, usually one that
adds nothing, except `Match` with entries in hand, which is `Miss`.  What holds all
of it together is that a step commits rows of its own session only (`CommitsOwn`):
they are of one run because a session's open rows are of the run it publishes, and
sealed because every row is (`RowsSealed`, inductive); their predecessors are in the log
by `ChainGrounded` of the next state, new records are about the log by
`EvidenceBacked` of the next state, and what is acknowledged is settled by
`EntriesAccounted`.  `Miss` is sound because a session sees every committed row: what
it does not find is not in the log.  Only model-checked here:
`EventsAreEvidenced`, which is liveness.

`ReviewDispatchProofs` proves, for any number of changes, hooks, requests, sandbox
runs, calls and crashes, from `ReviewAssumption`:

| theorem | property |
|---|---|
| `TypeTheorem` | `[]TypeOK` |
| `StatusTheorem` | `[]StatusTracksColumns` |
| `TracedTheorem` | `[]AppliedIsTraced` |
| `ReplayTheorem` | `[]ReplayOnceRecorded` |
| `AccountedTheorem` | `[]WritesAccounted` |
| `LifecycleTheorem` | `ImplementsLifecycle`: `ReviewDispatch` implements `ReviewLifecycle` |

**Argument.** None of them is inductive, because a request acts on what it saw
before its last await.  `RequestFits` says what a request in flight may rely on: a change
being applied stays tested and approved, since the columns are never cleared even
if the status is overwritten; a request about to mark a change has a success of
its key in the ledger; and whoever is past the lookup and live knows no success of
its key older than the number of rows it saw.  `CallsHonest` adds that a recorded live
success wrote something unless it says it was simulated.  `ReviewInv` is their
conjunction with the properties; each action has a lemma.  In the refinement
`SandboxCommit` is `Sandbox`, `ApproveCommit` is `Approve`, a request to an external
system on behalf of an apply is `Dispatch` (`WriteRefines`), `Mark` is `Apply`, and
every other action is a stutter; the guards of the abstract actions follow from
`RequestFits`.  `WritesAccounted` is a sum over a ledger that grows and over the requests in
flight.  A fold could not be reasoned about, so `Total` counts one token per write:
a row added or a request changed then adds or removes a block of tokens
(`TotalNew`, `TotalAt`), and a step that sends, records or crashes moves a block from
one of the three places to another.  `Accounts` adds that a request that is neither in
its fallback nor about to record has nothing to account for.

`McpOAuthProofs` proves, for any number of requests, authorizations and rotations,
from `OAuthAssumption` (at least one flow and one token):

| theorem | property |
|---|---|
| `OAuthTypeTheorem` | `[]OAuthTypeOK` |
| `CallbackTheorem` | `[]CallbackMatches` |
| `NewestTheorem` | `[]StoredTokenIsNewest` |

**Argument.** `StoredTokenIsNewest` speaks of rows only, and a row is overwritten
by whoever comes back last, so the invariant has to know every copy of a token: in
a row, loaded by a refresh, or on its way to a row.  `FlowFits` says that a token on
its way is the newest of its flow, `OneRow` that all copies of one flow belong to
one row, and `Ahead` that a token on its way is newer than every other copy.  Two
refreshes of one token therefore cannot both be granted, and the one that is stores
what the row should hold.  Requests that only look, fail or end share one lemma
(`LookKeeps`), the two that store a token another (`StoreKeeps`); the grants and
`start_authorization` have their own.

`WorkflowGraphProofs` proves, for any bound on nodes, edges and the dependencies
nodes are sent with, and any names of edges, from `GraphAssumption`:

| theorem | property |
|---|---|
| `GraphTyped` | `[]GraphTypeOK` |
| `GraphSoundTheorem` | `[]GraphSound`, not in a run |
| `DrawingsAreOrders` | `[](~stored.template => GraphsAreOrders)` |

**Argument.** `Counting` is the loop invariant of Kahn's algorithm over the edges that
are kept: the count of a node is the number of edges from nodes not yet taken off,
however many parallel ones there are, and the nodes taken off can be run in some
order.  When the loop stops early, every node left has an edge from another one
left, or from itself, so no order exists; when it takes off as many nodes as there
are, one does.  The steps that are stored are then one per node, with the sources of its
edges or, where there are none, its own dependencies (`StepsInOrder`,
`StepsOfDrawing`): among any steps, one has no edge from another, and if it depends on one
all the same it was sent with that dependency.  The other half of `GraphsAreOrders` is about the templates, fixed data
flattened by a fold of the community modules: TLC evaluates it for all of them.

`JsonStackProofs` proves, for any number of requests, upserts and versions of the
secret:

| theorem | property |
|---|---|
| `StackTheorem` | `[](StackTypeOK /\ StackSound)`, the first part in `ComponentsTypeOK` |
| `GateTheorem` | `[]EffectsAreApproved` |
| `TokenTheorem` | `[]SentWithSecret` |

**Argument.** The gate reads the radius of a row, not of the operation, so the
invariant has to say that the two agree in every row that no overlapping upserts
wrote (`RowSound`).  An upsert flushes what differs from the row it loaded; `Loaded`
says that this row is the stored one unless another upsert was committed since,
which the history column `commits` tells and which makes the flushed row a mixed
one.  What the importer and the catalog make is `WellMade` whatever the document.
`SecretsHeld` follows every copy of the secret: in the environment, the vault and
the cache.

`OperationsProofs` proves, without assumptions on the constants other than those
the modules declare (`Sizes`, `MaxWire`, the sets of requests and workflows remain
arbitrary):

| theorem | property |
|---|---|
| `LaunchTheorem` | `[](LaunchTypeOK /\ LaunchSound)` |
| `ExitCodeTheorem`, `LeftoverTheorem` | `[]ExitCodeIsTheContainers`, `[]LeftoverIsReplayed` |
| `ScheduleTheorem` | `[](ScheduleTypeOK /\ ConfigurationSurvives)` |
| `StreamTheorem` | `[](ProviderTypeOK /\ StreamIsWhole)` |
| `SourceTheorem`, `BackedTheorem` | `[]FindingsNameTheirSource`, `[]SuccessIsBacked` |
| `AgentTypeTheorem` | `[]AgentTypeOK` |
| `DemoTheorem` | `[](DemoTypeOK /\ GateIsAnswered)` |
| `PartsTheorem` | `MCSpec` implies the specification of each of the nine parts |
| `ComponentsTheorem` | `[]ComponentsTypeOK` of the composition `MCSpec` |

**Argument.** The API and the orchestrator's thread hold an answer each and the
container is a third party: `LaunchSound` says in which order the three move
(`Prepared`), that the API takes what the thread prepared (`AnswerTaken`), and what the
prepared answer and the state of the container have to do with each other
(`AnswerTrue`, `CleanedUp`).  `ConfigurationSurvives` is inductive with the types,
which say what a tick carries.  `StreamIsWhole` counts: the pieces kept are as many as
the deltas passed on (`PartsKept`), event by event; a stream that is cut off adds no event, so what was said
before stays true of it.  An agent step hands its output
from one place to the next, so `AgentSound` says of the launched and of the final
output that they are `Honest` and `Backed`, and `InTurn` that no stage has been
skipped.  For the demo, `GateWaits` ties the registered event to where the coroutine
waits, and `GatePassed` says of all gates behind it that they were approved.

What may be inlined into a manifest is a question about two recursions over lists, the
sum of sizes and the documents taken one after the other.  `AccumulationsExist` says
that a recursion over a list has values, whatever is accumulated (else there would be a
shortest beginning of the list without them); from it follow `SumAppend`, that a
document more adds its size, and `InlinedFits`, that after every document both bounds of
the bundle still hold.

A step of `MCOperations` is a step of the part in focus and leaves the variables of the
others alone (`WholeStep`), so a behaviour of the composition is one of each part, and
every theorem about a part holds of the composition; `ComponentsTheorem` collects the
type invariants that way.

Only model-checked in these parts: the templates' half of `GraphsAreOrders`.  The
properties of section 3 that are violated, such as `LeaseIsExclusive`, have no theorem.

## 5. Not modelled

- Runtime library (`apps/workflow/praetor_workflow/dag.py`, `runtime.py`,
  `templating.py`): a topological sort and a renderer only their own tests call.
- Corpora, inventory and obligations, policy evaluation, authentication and
  settings: each request reads or writes single rows and commits once, or keeps no
  state; there is no order of steps to get wrong.
- Audit packets: rendering and signing of stored rows.
- SDKs, demo agent, web UI, migrations: clients, presentation and schema.  What
  the canvas of the web UI may send is the input of `WorkflowGraph`.
- Data: the text of findings, patches, prompts, URLs and templates.  `call_hook` for
  the built-in simulated hooks is modelled by its outcome only.
