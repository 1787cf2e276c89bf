---------------------------- MODULE WorkflowGraph ----------------------------
(***************************************************************************)
(* Workflow graphs, production_workflows.py: the step lists of the         *)
(* templates are compiled into graphs (compile_steps_to_graph), a graph    *)
(* drawn on the canvas is checked when it is saved                         *)
(* (_normalize_graph_payload), and a graph is projected back to a list of  *)
(* steps (graph_to_steps), which is what a workflow shows and defines.     *)
(* Labels, settings and positions of nodes are left out; within a phase    *)
(* nodes are drawn from top to bottom in the order of the list.  The       *)
(* dependencies of a step and the edges of a graph are sets: their order   *)
(* says nothing.                                                           *)
(***************************************************************************)
EXTENDS Integers, Sequences, FiniteSets

CONSTANTS
    EdgeIds,   \* ids given to edges
    MaxNodes,  \* bound on the nodes of a drawing
    MaxLinks   \* bound on its edges and the dependencies its nodes are sent with

ASSUME GraphAssumption == MaxNodes \in Nat /\ MaxLinks \in Nat

\* Ids of nodes are numbered as they come up; 0 is a missing id, and nobody has
\* the last one.
NodeIds == 1..MaxNodes
Unnamed == 0
Ghost == MaxNodes + 1

-----------------------------------------------------------------------------
(* WORKFLOW_TEMPLATES: the steps, each with its type and dependencies *)

Step(id, type, depends_on) == [id |-> id, type |-> type, depends_on |-> depends_on]

\* Steps of which each depends on the one before.
Chain(steps) ==
    [i \in DOMAIN steps |->
        Step(steps[i][1], steps[i][2], IF i = 1 THEN {} ELSE {steps[i - 1][1]})]

code_compliance_scan == Chain(<<
    <<"pull", "hook.in">>, <<"retrieve_controls", "corpus.query">>,
    <<"scan", "agent">>, <<"emit", "finding.emit">> >>)

code_compliance_scan_full == Chain(<<
    <<"pull", "hook.in">>, <<"retrieve_controls", "corpus.query">>,
    <<"scan", "agent">>, <<"emit", "finding.emit">>, <<"propose", "change.propose">>,
    <<"policy_gate", "gate.policy">>, <<"human_gate", "gate.human">>, <<"open_pr", "hook.out">> >>)

github_corpus_code_compliance == Chain(<<
    <<"resolve_repo", "hook.in">>, <<"retrieve_controls", "corpus.query">>,
    <<"sandbox_verify", "agent">>, <<"emit", "finding.emit">>,
    <<"propose_change", "change.propose">>, <<"policy_gate", "gate.policy">>,
    <<"human_gate", "gate.human">>, <<"github_change_request", "hook.out">> >>)

vendor_risk_review == Chain(<<
    <<"load_attestation", "hook.in">>, <<"retrieve_obligations", "corpus.query">>,
    <<"analyze", "agent">>, <<"emit", "finding.emit">>,
    <<"propose_remediation", "change.propose">> >>)

policy_gap_analysis == Chain(<<
    <<"load_regulation", "hook.in">>, <<"retrieve_existing_controls", "corpus.query">>,
    <<"analyze_gaps", "agent">>, <<"emit", "finding.emit">>,
    <<"propose_controls", "change.propose">>, <<"policy_gate", "gate.policy">>,
    <<"human_gate", "gate.human">> >>)

evidence_collection == Chain(<<
    <<"read_files", "hook.in">>, <<"retrieve_obligations", "corpus.query">>,
    <<"organize", "agent">>, <<"emit", "finding.emit">> >>)

ai_system_intake == Chain(<<
    <<"intake_form", "hook.in">>, <<"retrieve_obligations", "corpus.query">>,
    <<"classify", "agent">>, <<"policy_gate", "gate.policy">>, <<"emit", "finding.emit">> >>)

WORKFLOW_TEMPLATES ==
    {code_compliance_scan, code_compliance_scan_full, github_corpus_code_compliance,
     vendor_risk_review, policy_gap_analysis, evidence_collection, ai_system_intake}

-----------------------------------------------------------------------------
(* compile_steps_to_graph and graph_to_steps *)

PRE_TYPES == {"trigger.manual", "trigger.schedule", "trigger.webhook", "trigger.event",
              "hook.in", "corpus.query"}
ASSESS_TYPES == {"agent", "model.complete", "agent.run"}
POST_TYPES == {"gate.policy", "gate.human", "sandbox.run", "finding.emit", "change.propose",
               "evidence.generate", "audit.packet", "notify", "hook.out"}
PHASE_ORDER == [pre |-> 0, assess |-> 1, post |-> 2]

\* transform, and any other type, goes with what surrounds it.
_phase_for_step(step_type, seen_assess) ==
    IF step_type \in ASSESS_TYPES THEN "assess"
    ELSE IF step_type \in PRE_TYPES THEN "pre"
    ELSE IF step_type \in POST_TYPES \/ seen_assess THEN "post"
    ELSE "pre"

Edge(id, from, to) == [id |-> id, from |-> from, to |-> to]

\* An edge's own id is made of its ends when none is given.
compile_steps_to_graph(steps) ==
    LET seen_assess(i) == \E j \in 1..i - 1 : steps[j].type \in ASSESS_TYPES
        node(i) == [id |-> steps[i].id, depends_on |-> steps[i].depends_on,
                    phase |-> _phase_for_step(steps[i].type, seen_assess(i))]
        nodes == [i \in DOMAIN steps |-> node(i)]
    IN  [nodes |-> nodes,
         edges |-> UNION {{Edge(<<parent, nodes[i].id>>, parent, nodes[i].id) :
                              parent \in nodes[i].depends_on} : i \in DOMAIN nodes}]

\* The edges into a node say what its step depends on; a node without any keeps
\* the dependencies it came with.
step_of(graph, node) ==
    LET sources == {e.from : e \in {e \in graph.edges : e.to = node.id}}
    IN  [id |-> node.id, depends_on |-> IF sources = {} THEN node.depends_on ELSE sources]

\* The steps are sorted by phase, and within a phase from top to bottom.
graph_to_steps(graph) ==
    LET nodes == graph.nodes
        order(i) == PHASE_ORDER[nodes[i].phase]
        above(i) == {j \in DOMAIN nodes :
                        order(j) < order(i) \/ (order(j) = order(i) /\ j < i)}
        at(k) == CHOOSE i \in DOMAIN nodes : Cardinality(above(i)) + 1 = k
    IN  [k \in DOMAIN nodes |-> step_of(graph, nodes[at(k)])]

-----------------------------------------------------------------------------
VARIABLES
    canvas,  \* nodes and edges that are sent to be saved
    check,   \* the cycle detection: loop state of _normalize_graph_payload
    stored   \* what became of it: graph and steps, or an error

graphVars == <<canvas, check, stored>>

NoCanvas == [nodes |-> <<>>, edges |-> <<>>]
NothingStored == [error |-> "none", graph |-> [nodes |-> <<>>, edges |-> {}], steps |-> <<>>, template |-> FALSE]

Ends == NodeIds \cup {Ghost}
DrawnNode == [id : NodeIds \cup {Unnamed}, depends_on : SUBSET Ends, phase : {"pre"}]
DrawnEdge == [id : EdgeIds \cup Ends \X Ends, from : Ends, to : Ends]
Checking == [pc : {"drawing", "checking", "done"},
             ready : SUBSET NodeIds, visited : Nat,
             indegree : [NodeIds -> Int]]

Ids(nodes) == {nodes[i].id : i \in DOMAIN nodes}
ProperIds ==
    Cardinality(Ids(canvas.nodes)) = Len(canvas.nodes) /\ Unnamed \notin Ids(canvas.nodes)

GraphTypeOK ==
    /\ check \in Checking
    /\ canvas \in [nodes : Seq(DrawnNode), edges : Seq(DrawnEdge)]
    /\ stored.error \in {"none", "id", "empty", "cycle"}
    /\ check.pc = "checking" => ProperIds

GraphInit ==
    /\ canvas = NoCanvas
    /\ check = [pc |-> "drawing", ready |-> {}, visited |-> 0,
                indegree |-> [n \in NodeIds |-> 0]]
    /\ stored = NothingStored

\* The dependencies that the nodes of the drawing were sent with.
Owned == UNION {{i} \X canvas.nodes[i].depends_on : i \in DOMAIN canvas.nodes}

\* The canvas, or whoever posts a graph, names whatever it likes, and may send nodes
\* with dependencies of their own, on nodes that are there or not: they are kept.
\* Phases only sort the steps: drawn nodes are of one phase.
DrawNode(id, own) ==
    /\ check.pc = "drawing" /\ canvas.edges = <<>>
    /\ Len(canvas.nodes) < MaxNodes /\ id <= Len(canvas.nodes) + 1
    /\ Cardinality(Owned) + Cardinality(own) <= MaxLinks
    /\ canvas' = [canvas EXCEPT !.nodes =
            Append(@, [id |-> id, depends_on |-> own, phase |-> "pre"])]
    /\ UNCHANGED <<check, stored>>

\* A drawing whose nodes will be refused needs no edges to be told apart.
DrawEdge(id, from, to) ==
    /\ check.pc = "drawing" /\ canvas.nodes # <<>> /\ ProperIds
    /\ Len(canvas.edges) + Cardinality(Owned) < MaxLinks
    /\ \A i \in DOMAIN canvas.edges : canvas.edges[i] # Edge(id, from, to)
    /\ canvas' = [canvas EXCEPT !.edges = Append(@, Edge(id, from, to))]
    /\ UNCHANGED <<check, stored>>

\* ensure_workflow: the graph of a template is stored as compiled.
ensure_workflow_graph(steps) ==
    /\ check.pc = "drawing" /\ canvas = NoCanvas
    /\ check' = [check EXCEPT !.pc = "done"]
    /\ stored' = LET graph == compile_steps_to_graph(steps) IN
            [error |-> "none", graph |-> graph, steps |-> graph_to_steps(graph), template |-> TRUE]
    /\ UNCHANGED canvas

Fail(error) ==
    /\ check' = [check EXCEPT !.pc = "done"]
    /\ stored' = [NothingStored EXCEPT !.error = error]
    /\ UNCHANGED canvas

\* Edges to unknown nodes are dropped, and of edges with one id all but the first.
NormalEdges ==
    LET known == {i \in DOMAIN canvas.edges :
                    {canvas.edges[i].from, canvas.edges[i].to} \subseteq Ids(canvas.nodes)}
        first == {i \in known : \A j \in known : j < i => canvas.edges[j].id # canvas.edges[i].id}
    IN  {canvas.edges[i] : i \in first}

_normalize_graph_payload ==
    /\ check.pc = "drawing"
    /\ LET ids == Ids(canvas.nodes)
           indegree == [n \in NodeIds |-> Cardinality({e \in NormalEdges : e.to = n})]
       IN IF canvas.nodes = <<>> THEN Fail("empty")
          ELSE IF ~ProperIds THEN Fail("id")
          ELSE /\ check' = [pc |-> "checking", indegree |-> indegree, visited |-> 0,
                            ready |-> {n \in ids : indegree[n] = 0}]
               /\ UNCHANGED <<canvas, stored>>

\* Faulty variant: parallel edges are counted once when they are taken away.
VisitOnce(current) ==
    /\ check.pc = "checking" /\ current \in check.ready
    /\ LET next == {e.to : e \in {e \in NormalEdges : e.from = current}}
           indegree == [n \in NodeIds |-> check.indegree[n] - IF n \in next THEN 1 ELSE 0]
       IN check' = [check EXCEPT
            !.indegree = indegree, !.visited = @ + 1,
            !.ready = (@ \ {current}) \cup {n \in next : indegree[n] = 0}]
    /\ UNCHANGED <<canvas, stored>>

\* One round of the loop: a node without unvisited predecessors is taken off.
Visit(current) ==
    /\ check.pc = "checking" /\ current \in check.ready
    /\ LET out == {e \in NormalEdges : e.from = current}
           indegree == [n \in NodeIds |-> check.indegree[n] - Cardinality({e \in out : e.to = n})]
       IN check' = [check EXCEPT
            !.indegree = indegree, !.visited = @ + 1,
            !.ready = (@ \ {current}) \cup {n \in {e.to : e \in out} : indegree[n] = 0}]
    /\ UNCHANGED <<canvas, stored>>

Decide ==
    /\ check.pc = "checking" /\ check.ready = {}
    /\ IF check.visited # Len(canvas.nodes) THEN Fail("cycle")
       ELSE LET graph == [nodes |-> canvas.nodes, edges |-> NormalEdges] IN
            /\ stored' = [error |-> "none", graph |-> graph, steps |-> graph_to_steps(graph),
                          template |-> FALSE]
            /\ check' = [check EXCEPT !.pc = "done"]
            /\ UNCHANGED canvas

GraphNext ==
    \/ \E id \in NodeIds \cup {Unnamed}, own \in SUBSET Ends : DrawNode(id, own)
    \/ \E from, to \in Ends :
        \E id \in EdgeIds \cup {<<from, to>>} : DrawEdge(id, from, to)
    \/ \E steps \in WORKFLOW_TEMPLATES : ensure_workflow_graph(steps)
    \/ _normalize_graph_payload
    \/ \E current \in NodeIds : Visit(current)
    \/ Decide

GraphSpec == GraphInit /\ [][GraphNext]_graphVars

-----------------------------------------------------------------------------
(* Properties *)

\* Projecting a template's graph lists every step after the steps it depends
\* on, though nodes are sorted by phase on the way.
TemplatesKeepOrder ==
    \A i \in DOMAIN stored.steps :
        stored.steps[i].depends_on \subseteq {stored.steps[j].id : j \in 1..i - 1}

\* These nodes can be run in some order along the edges that are kept: whichever
\* of them are left, one has no edge coming from another, nor from itself.
Acyclic(ids) ==
    \A S \in SUBSET ids : S # {} =>
        \E n \in S : \A e \in NormalEdges : ~(e.to = n /\ e.from \in S)

\* Of these steps one depends on none of them.
SomeFirst(S) ==
    \E i \in S : \A j \in S : stored.steps[j].id \notin stored.steps[i].depends_on

\* A step whose dependencies are not those of the canvas: no kept edge leads into its
\* node, and the node was sent with dependencies of its own.
SentWithOwn(i) ==
    /\ stored.steps[i].depends_on # {}
    /\ \A e \in stored.graph.edges : e.to # stored.steps[i].id

\* The check stops a drawing whose kept edges have a cycle, be it a loop at a single
\* node, and no other, however many parallel or dangling edges were drawn; and the
\* steps that are stored can be run in some order, but for those whose dependencies
\* the check does not see.
GraphsAreOrders ==
    IF stored.template THEN TemplatesKeepOrder
    ELSE check.pc = "done" /\ stored.error \in {"none", "cycle"} =>
        /\ stored.error = "none" <=> Acyclic(Ids(canvas.nodes))
        /\ \A S \in SUBSET DOMAIN stored.steps :
              S # {} => SomeFirst(S) \/ \E i \in S : SentWithOwn(i)

-----------------------------------------------------------------------------
(* What makes GraphsAreOrders inductive for drawings *)

\* The nodes the loop has taken off.
Taken == {n \in Ids(canvas.nodes) : check.indegree[n] = 0 /\ n \notin check.ready}

\* Before the check ends nothing is stored; what it then says is about the canvas, and
\* what it stores is the canvas and its steps.
CheckVerdict ==
    /\ check.pc # "done" => stored.error = "none" /\ ~stored.template
    /\ check.pc = "done" /\ ~stored.template /\ stored.error \in {"none", "cycle"} =>
          /\ stored.error = "none" <=> Acyclic(Ids(canvas.nodes))
          /\ IF stored.error = "cycle" THEN stored.steps = <<>>
             ELSE /\ stored.graph = [nodes |-> canvas.nodes, edges |-> NormalEdges]
                  /\ stored.steps = graph_to_steps(stored.graph)

\* A node's count is that of the kept edges from nodes not taken off, the ready
\* ones have none left, and those taken off were taken in a possible order.
Counting ==
    check.pc = "checking" =>
        /\ check.ready \subseteq {n \in Ids(canvas.nodes) : check.indegree[n] = 0}
        /\ \A n \in NodeIds :
              check.indegree[n] = Cardinality({e \in NormalEdges : e.to = n /\ e.from \notin Taken})
        /\ check.visited = Cardinality(Taken)
        /\ Acyclic(Taken)

GraphSound == CheckVerdict /\ Counting

=============================================================================
