-------------------------- MODULE WorkflowGraphProofs --------------------------
(***************************************************************************)
(* The check of a drawn graph in WorkflowGraph, for drawings of any size:  *)
(* the loop of _normalize_graph_payload that takes off one node without    *)
(* incoming edges after the other refuses exactly the drawings that have a *)
(* cycle, and the steps that are stored have cycles only through           *)
(* dependencies that were sent with nodes no edge leads into.              *)
(***************************************************************************)
EXTENDS WorkflowGraph, FiniteSetTheorems, TLAPS

-----------------------------------------------------------------------------
(* Types *)

LEMMA NodeIdsTyped == NodeIds \subseteq Nat \ {0} /\ IsFiniteSet(NodeIds)
BY GraphAssumption, FS_Interval DEF NodeIds

\* The nodes of a drawing with proper ids.
LEMMA IdsTyped ==
    ASSUME GraphTypeOK
    PROVE  /\ Ids(canvas.nodes) \subseteq NodeIds \cup {Unnamed}
           /\ ProperIds => Ids(canvas.nodes) \subseteq NodeIds /\ IsFiniteSet(Ids(canvas.nodes))
<1>1. \A i \in DOMAIN canvas.nodes : canvas.nodes[i] \in DrawnNode
  BY DEF GraphTypeOK
<1>2. Ids(canvas.nodes) \subseteq NodeIds \cup {Unnamed}
  BY <1>1 DEF Ids, DrawnNode
<1>3. ProperIds => Ids(canvas.nodes) \subseteq NodeIds
  BY <1>2 DEF ProperIds
<1>4. ProperIds => IsFiniteSet(Ids(canvas.nodes))
  BY <1>3, NodeIdsTyped, FS_Subset
<1> QED
  BY <1>2, <1>3, <1>4

\* The edges that are kept: finitely many, between nodes of the drawing.
LEMMA NormalEdgesTyped ==
    ASSUME GraphTypeOK
    PROVE  /\ IsFiniteSet(NormalEdges)
           /\ \A e \in NormalEdges : e.from \in Ids(canvas.nodes) /\ e.to \in Ids(canvas.nodes)
<1> DEFINE known == {i \in DOMAIN canvas.edges :
                        {canvas.edges[i].from, canvas.edges[i].to} \subseteq Ids(canvas.nodes)}
           first == {i \in known :
                        \A j \in known : j < i => canvas.edges[j].id # canvas.edges[i].id}
           f == [i \in first |-> canvas.edges[i]]
<1>1. NormalEdges = {canvas.edges[i] : i \in first}
  BY DEF NormalEdges
<1>2. first \subseteq DOMAIN canvas.edges /\ DOMAIN canvas.edges = 1..Len(canvas.edges)
      /\ Len(canvas.edges) \in Nat
  BY DEF GraphTypeOK
<1>3. IsFiniteSet(first)
  <2>1. IsFiniteSet(1..Len(canvas.edges))
    BY <1>2, FS_Interval
  <2> HIDE DEF first
  <2> QED  BY <1>2, <2>1, FS_Subset
<1>4. f \in Surjection(first, NormalEdges)
  <2> HIDE DEF first
  <2> QED  BY <1>1 DEF Surjection
<1>5. IsFiniteSet(NormalEdges)
  <2> HIDE DEF f, first
  <2> QED  BY <1>3, <1>4, FS_Surjection
<1>6. \A i \in first : {canvas.edges[i].from, canvas.edges[i].to} \subseteq Ids(canvas.nodes)
  OBVIOUS
<1> HIDE DEF first, known, f
<1> QED
  BY <1>1, <1>5, <1>6

\* What is counted is finite.
LEMMA CountsTyped ==
    ASSUME GraphTypeOK, NEW S, S \subseteq NormalEdges
    PROVE  IsFiniteSet(S) /\ Cardinality(S) \in Nat /\ (Cardinality(S) = 0 <=> S = {})
BY NormalEdgesTyped, FS_Subset, FS_CardinalityType, FS_EmptySet

LEMMA TypedStep == GraphTypeOK /\ [GraphNext]_graphVars => GraphTypeOK'
<1> SUFFICES ASSUME GraphTypeOK, [GraphNext]_graphVars PROVE GraphTypeOK'
  OBVIOUS
<1> USE DEF GraphTypeOK
<1>1. ASSUME NEW id \in NodeIds \cup {Unnamed}, NEW own \in SUBSET Ends, DrawNode(id, own)
      PROVE  GraphTypeOK'
  <2>1. [id |-> id, depends_on |-> own, phase |-> "pre"] \in DrawnNode
    BY DEF DrawnNode
  <2>2. canvas' \in [nodes : Seq(DrawnNode), edges : Seq(DrawnEdge)]
    <3>1. Append(canvas.nodes, [id |-> id, depends_on |-> own, phase |-> "pre"]) \in Seq(DrawnNode)
      BY <2>1
    <3> HIDE DEF DrawnNode
    <3> QED  BY <1>1, <3>1 DEF DrawNode
  <2> QED  BY <1>1, <2>2 DEF DrawNode
<1>2. ASSUME NEW from \in Ends, NEW to \in Ends, NEW id \in EdgeIds \cup {<<from, to>>},
             DrawEdge(id, from, to)
      PROVE  GraphTypeOK'
  <2>1. Edge(id, from, to) \in DrawnEdge
    BY DEF Edge, DrawnEdge
  <2>2. canvas' \in [nodes : Seq(DrawnNode), edges : Seq(DrawnEdge)]
    <3>1. Append(canvas.edges, Edge(id, from, to)) \in Seq(DrawnEdge)
      BY <2>1
    <3> QED  BY <1>2, <3>1 DEF DrawEdge
  <2> QED  BY <1>2, <2>2 DEF DrawEdge
<1>3. ASSUME NEW steps \in WORKFLOW_TEMPLATES, ensure_workflow_graph(steps) PROVE GraphTypeOK'
  BY <1>3 DEF ensure_workflow_graph, Checking
<1>4. ASSUME NEW error \in {"id", "empty", "cycle"}, Fail(error) PROVE GraphTypeOK'
  BY <1>4 DEF Fail, Checking, NothingStored
<1>5. ASSUME _normalize_graph_payload PROVE GraphTypeOK'
  <2> DEFINE indegree == [n \in NodeIds |-> Cardinality({e \in NormalEdges : e.to = n})]
             ready == {n \in Ids(canvas.nodes) : indegree[n] = 0}
  <2>1. CASE Fail("empty") \/ Fail("id")
    BY <1>4, <2>1
  <2>2. CASE /\ ProperIds
             /\ check' = [pc |-> "checking", indegree |-> indegree, visited |-> 0,
                          ready |-> ready]
             /\ UNCHANGED <<canvas, stored>>
    <3>1. \A n \in NodeIds : Cardinality({e \in NormalEdges : e.to = n}) \in Nat
      BY CountsTyped
    <3>2. indegree \in [NodeIds -> Int]
      BY <3>1
    <3>3. ready \subseteq NodeIds
      BY <2>2, IdsTyped
    <3>4. ProperIds'
      BY <2>2 DEF ProperIds
    <3> HIDE DEF indegree, ready
    <3> QED  BY <2>2, <3>2, <3>3, <3>4 DEF Checking
  <2> QED  BY <1>5, <2>1, <2>2 DEF _normalize_graph_payload
<1>6. ASSUME NEW current \in NodeIds, Visit(current) PROVE GraphTypeOK'
  <2> DEFINE out == {e \in NormalEdges : e.from = current}
             indegree == [n \in NodeIds |->
                             check.indegree[n] - Cardinality({e \in out : e.to = n})]
             next == {n \in {e.to : e \in out} : indegree[n] = 0}
  <2>1. /\ check' = [check EXCEPT !.indegree = indegree, !.visited = @ + 1,
                                  !.ready = (@ \ {current}) \cup next]
        /\ UNCHANGED <<canvas, stored>>
    BY <1>6 DEF Visit
  <2>2. \A n \in NodeIds : Cardinality({e \in out : e.to = n}) \in Nat
    BY CountsTyped
  <2>3. indegree \in [NodeIds -> Int]
    <3>1. check.indegree \in [NodeIds -> Int]
      BY DEF Checking
    <3> HIDE DEF out
    <3> QED  BY <2>2, <3>1
  <2>4. next \subseteq NodeIds
    <3>1. ProperIds
      BY <1>6 DEF Visit
    <3>2. \A e \in out : e.to \in NodeIds
      BY <3>1, IdsTyped, NormalEdgesTyped
    <3> HIDE DEF out, indegree
    <3> QED  BY <3>2
  <2>5. check' \in Checking
    <3>1. \A c \in Checking, f \in [NodeIds -> Int], R \in SUBSET NodeIds :
             [c EXCEPT !.indegree = f, !.visited = @ + 1, !.ready = (@ \ {current}) \cup R]
                \in Checking
      <4> SUFFICES ASSUME NEW c \in Checking, NEW f \in [NodeIds -> Int], NEW R \in SUBSET NodeIds
                   PROVE  [c EXCEPT !.indegree = f, !.visited = @ + 1,
                                    !.ready = (@ \ {current}) \cup R] \in Checking
        OBVIOUS
      <4>1. c.visited + 1 \in Nat /\ (c.ready \ {current}) \cup R \subseteq NodeIds
        BY DEF Checking
      <4> QED  BY <4>1 DEF Checking
    <3>2. check \in Checking
      OBVIOUS
    <3> HIDE DEF GraphTypeOK, indegree, next
    <3> QED  BY <2>1, <2>3, <2>4, <3>1, <3>2
  <2>6. ProperIds'
    BY <1>6, <2>1 DEF Visit, ProperIds
  <2> QED  BY <2>1, <2>5, <2>6
<1>7. ASSUME Decide PROVE GraphTypeOK'
  <2>1. \/ Fail("cycle")
        \/ /\ stored'.error = "none" /\ check' = [check EXCEPT !.pc = "done"]
           /\ UNCHANGED canvas
    BY <1>7 DEF Decide
  <2> QED  BY <1>4, <2>1 DEF Checking
<1>8. UNCHANGED graphVars => GraphTypeOK'
  BY DEF graphVars, ProperIds
<1> QED
  BY <1>1, <1>2, <1>3, <1>5, <1>6, <1>7, <1>8 DEF GraphNext

LEMMA InitTyped == GraphInit => GraphTypeOK
BY GraphAssumption DEF GraphInit, GraphTypeOK, NoCanvas, NothingStored, Checking, NodeIds

-----------------------------------------------------------------------------
(* The loop *)

Before(n) == {e \in NormalEdges : e.to = n /\ e.from \notin Taken}

\* What a round of the loop does to the nodes taken off and to the counts.
LEMMA VisitTakes ==
    ASSUME GraphTypeOK, Counting, NEW current \in NodeIds, Visit(current)
    PROVE  /\ current \in Ids(canvas.nodes) \ Taken /\ Taken' = Taken \cup {current}
           /\ check'.ready \subseteq {n \in Ids(canvas.nodes) : check'.indegree[n] = 0}
           /\ \A e \in NormalEdges : e.to = current => e.from \in Taken
           /\ \A e \in NormalEdges : e.to \in Taken => e.from \in Taken
<1> DEFINE ids == Ids(canvas.nodes)
           out == {e \in NormalEdges : e.from = current}
           into(n) == {e \in out : e.to = n}
           indegree == [n \in NodeIds |-> check.indegree[n] - Cardinality(into(n))]
           next == {n \in {e.to : e \in out} : indegree[n] = 0}
<1>1. /\ check.pc = "checking" /\ current \in check.ready
      /\ check' = [check EXCEPT !.indegree = indegree, !.visited = @ + 1,
                                !.ready = (@ \ {current}) \cup next]
      /\ UNCHANGED canvas
  BY DEF Visit
<1>2. /\ check \in Checking /\ ids \subseteq NodeIds
      /\ check.ready \subseteq ids /\ \A n \in check.ready : check.indegree[n] = 0
      /\ \A n \in NodeIds : check.indegree[n] = Cardinality(Before(n))
  BY <1>1, IdsTyped DEF GraphTypeOK, Counting, Before
<1>3. \A n \in NodeIds : /\ Cardinality(into(n)) \in Nat /\ (Cardinality(into(n)) = 0 <=> into(n) = {})
                        /\ (Cardinality(Before(n)) = 0 <=> Before(n) = {})
  BY CountsTyped DEF Before
<1>4. /\ check'.indegree = indegree /\ check'.ready = (check.ready \ {current}) \cup next
  <2> HIDE DEF indegree, next
  <2> QED  BY <1>1, <1>2 DEF Checking
<1>5. current \in ids \ Taken /\ check.indegree[current] = 0
  BY <1>1, <1>2 DEF Taken
<1>6. \A e \in NormalEdges : e.to = current => e.from \in Taken
  BY <1>2, <1>3, <1>5 DEF Before
<1>7. \A e \in NormalEdges : e.to \in Taken => e.from \in Taken
  BY <1>2, <1>3 DEF Before, Taken
<1>8. \A n \in NodeIds : n \in next <=> into(n) # {} /\ indegree[n] = 0
  <2>1. \A n \in NodeIds : n \in {e.to : e \in out} <=> into(n) # {}
    OBVIOUS
  <2>2. \A n : n \in next <=> n \in {e.to : e \in out} /\ indegree[n] = 0
    <3> HIDE DEF indegree
    <3> QED  OBVIOUS
  <2> HIDE DEF into, indegree, next, out
  <2> QED  BY <2>1, <2>2
<1>9. next \subseteq ids
  <2>1. \A e \in out : e.to \in ids
    BY NormalEdgesTyped
  <2> HIDE DEF indegree, out
  <2> QED  BY <2>1
<1>10. \A n \in NodeIds : check.indegree[n] = 0 => into(n) = {}
  <2>1. \A n \in NodeIds : into(n) \subseteq Before(n)
    BY <1>5 DEF Before
  <2> HIDE DEF into
  <2> QED  BY <1>2, <1>3, <2>1
<1>11. \A n \in NodeIds : into(n) = {} <=> indegree[n] = check.indegree[n]
  <2> SUFFICES ASSUME NEW n \in NodeIds
               PROVE  into(n) = {} <=> indegree[n] = check.indegree[n]
    OBVIOUS
  <2>1. indegree[n] = check.indegree[n] - Cardinality(into(n))
    <3> HIDE DEF into
    <3> QED  OBVIOUS
  <2>2. check.indegree[n] \in Int
    BY <1>2 DEF Checking
  <2> HIDE DEF into, indegree
  <2> QED  BY <1>3, <2>1, <2>2
<1> HIDE DEF into, indegree, next, out, ids
<1>12. check'.ready \subseteq {n \in ids : check'.indegree[n] = 0}
  <2> SUFFICES ASSUME NEW n \in check'.ready PROVE n \in ids /\ indegree[n] = 0
    BY <1>4
  <2>1. n \in ids /\ n \in NodeIds
    BY <1>2, <1>4, <1>9
  <2>2. CASE n \in next
    BY <1>8, <2>1, <2>2
  <2>3. CASE n \in check.ready /\ n \notin next
    <3>1. check.indegree[n] = 0
      BY <1>2, <2>3
    <3>2. into(n) = {}
      BY <1>10, <2>1, <3>1
    <3> QED  BY <1>11, <2>1, <3>1, <3>2
  <2> QED  BY <1>4, <2>1, <2>2, <2>3
<1>13. ids' = ids
  BY <1>1 DEF ids
<1>14. \A n : n \in Taken <=> n \in ids /\ check.indegree[n] = 0 /\ n \notin check.ready
  BY DEF Taken, ids
<1>15. \A n : n \in Taken' <=> n \in ids /\ indegree[n] = 0 /\ n \notin check'.ready
  BY <1>4, <1>13 DEF Taken, ids
<1>16. Taken' = Taken \cup {current}
  <2> SUFFICES ASSUME NEW n \in ids
               PROVE  n \in Taken' <=> n \in Taken \/ n = current
    BY <1>5, <1>14, <1>15 DEF ids
  <2>1. n \in NodeIds
    BY <1>2
  <2>2. CASE n \in Taken \/ n = current
    <3>1. into(n) = {} /\ check.indegree[n] = 0 /\ (n = current \/ n \notin check.ready)
      BY <1>5, <1>10, <1>14, <2>1, <2>2
    <3>2. indegree[n] = 0 /\ n \notin next
      BY <1>8, <1>11, <2>1, <3>1
    <3> QED  BY <1>4, <1>15, <2>2, <3>1, <3>2
  <2>3. CASE n \notin Taken /\ n # current /\ indegree[n] = 0
    <3>1. CASE check.indegree[n] = 0
      BY <1>4, <1>14, <1>15, <2>3, <3>1
    <3>2. CASE check.indegree[n] # 0
      <4>1. n \in next
        BY <1>8, <1>11, <2>1, <2>3, <3>2
      <4> QED  BY <1>4, <1>15, <2>3, <4>1
    <3> QED  BY <3>1, <3>2
  <2> QED  BY <1>15, <2>2, <2>3
<1> QED
  BY <1>5, <1>6, <1>7, <1>12, <1>16 DEF ids

LEMMA CanvasKept ==
    ASSUME UNCHANGED canvas
    PROVE  /\ NormalEdges' = NormalEdges /\ Ids(canvas.nodes)' = Ids(canvas.nodes)
           /\ \A ids : Acyclic(ids) <=> Acyclic(ids)'
BY DEF NormalEdges, Ids, Acyclic

\* At the start nothing is taken off, and every edge counts.
LEMMA CountingStarts ==
    ASSUME GraphTypeOK, _normalize_graph_payload, check'.pc = "checking", check.pc = "drawing"
    PROVE  Counting'
<1> DEFINE ids == Ids(canvas.nodes)
           indegree == [n \in NodeIds |-> Cardinality({e \in NormalEdges : e.to = n})]
           ready == {n \in ids : indegree[n] = 0}
<1>1. /\ check' = [pc |-> "checking", indegree |-> indegree, visited |-> 0, ready |-> ready]
      /\ UNCHANGED canvas
  <2>1. ~Fail("empty") /\ ~Fail("id")
    BY DEF Fail, GraphTypeOK, Checking
  <2> QED  BY <2>1 DEF _normalize_graph_payload
<1>2. /\ NormalEdges' = NormalEdges /\ Ids(canvas.nodes)' = ids
  BY <1>1, CanvasKept
<1>3. Taken' = {}
  <2>1. \A n \in ids : indegree[n] = 0 => n \in ready
    OBVIOUS
  <2> HIDE DEF indegree, ready
  <2> QED  BY <1>1, <1>2, <2>1 DEF Taken
<1>4. \A n \in NodeIds :
         check'.indegree[n] = Cardinality({e \in NormalEdges' : e.to = n /\ e.from \notin Taken'})
  <2> SUFFICES ASSUME NEW n \in NodeIds
               PROVE  check'.indegree[n]
                         = Cardinality({e \in NormalEdges' : e.to = n /\ e.from \notin Taken'})
    OBVIOUS
  <2>1. {e \in NormalEdges' : e.to = n /\ e.from \notin Taken'} = {e \in NormalEdges : e.to = n}
    BY <1>2, <1>3
  <2>2. check'.indegree[n] = Cardinality({e \in NormalEdges : e.to = n})
    BY <1>1
  <2> QED  BY <2>1, <2>2
<1>5. Acyclic(Taken)'
  BY <1>3 DEF Acyclic
<1>6. check'.visited = Cardinality(Taken)'
  BY <1>1, <1>3, FS_EmptySet
<1>7. check'.ready \subseteq {n \in ids : check'.indegree[n] = 0}
  <2> HIDE DEF indegree
  <2> QED  BY <1>1
<1> QED
  BY <1>2, <1>4, <1>5, <1>6, <1>7 DEF Counting

\* A round keeps the count: the edges from the node taken off no longer count,
\* and it closes no cycle with those taken off before it.
LEMMA CountingGoesOn ==
    ASSUME GraphTypeOK, Counting, NEW current \in NodeIds, Visit(current)
    PROVE  Counting'
<1> DEFINE ids == Ids(canvas.nodes)
           into(n) == {e \in {e \in NormalEdges : e.from = current} : e.to = n}
<1>1. /\ current \in ids \ Taken /\ Taken' = Taken \cup {current}
      /\ check'.ready \subseteq {n \in ids : check'.indegree[n] = 0}
      /\ \A e \in NormalEdges : e.to = current => e.from \in Taken
      /\ \A e \in NormalEdges : e.to \in Taken => e.from \in Taken
  BY VisitTakes
<1>2. check.pc = "checking" /\ UNCHANGED canvas /\ check \in Checking
  BY DEF Visit, GraphTypeOK
<1>3. NormalEdges' = NormalEdges /\ Ids(canvas.nodes)' = ids
  BY <1>2, CanvasKept
<1>4. check'.visited = check.visited + 1
      /\ \A n \in NodeIds : check'.indegree[n] = check.indegree[n] - Cardinality(into(n))
  <2> DEFINE out == {e \in NormalEdges : e.from = current}
             indegree == [n \in NodeIds |->
                             check.indegree[n] - Cardinality({e \in out : e.to = n})]
             next == {n \in {e.to : e \in out} : indegree[n] = 0}
  <2>1. check' = [check EXCEPT !.indegree = indegree, !.visited = @ + 1,
                               !.ready = (@ \ {current}) \cup next]
    BY DEF Visit
  <2>2. check'.visited = check.visited + 1 /\ check'.indegree = indegree
    <3> HIDE DEF indegree, next
    <3> QED  BY <1>2, <2>1 DEF Checking
  <2>3. \A n \in NodeIds : indegree[n] = check.indegree[n] - Cardinality(into(n))
    OBVIOUS
  <2> HIDE DEF indegree, into
  <2> QED  BY <2>2, <2>3
<1>5. ASSUME NEW n \in NodeIds
      PROVE  check'.indegree[n] = Cardinality({e \in NormalEdges' : e.to = n /\ e.from \notin Taken'})
  <2>1. {e \in NormalEdges' : e.to = n /\ e.from \notin Taken'} = Before(n) \ into(n)
    BY <1>1, <1>3 DEF Before
  <2>2. Before(n) \cap into(n) = into(n)
    BY <1>1 DEF Before
  <2>3. Before(n) \subseteq NormalEdges
    BY DEF Before
  <2>4. IsFiniteSet(Before(n))
    BY <2>3, CountsTyped
  <2>5. Cardinality(Before(n) \ into(n)) = Cardinality(Before(n)) - Cardinality(into(n))
    <3> HIDE DEF into
    <3> QED  BY <2>2, <2>4, FS_Difference
  <2>6. check.indegree[n] = Cardinality(Before(n))
    BY <1>2 DEF Counting, Before
  <2> HIDE DEF into
  <2> QED  BY <1>4, <2>1, <2>5, <2>6
<1>6. check'.visited = Cardinality(Taken)'
  <2>1. ProperIds
    BY <1>2 DEF GraphTypeOK
  <2>2. IsFiniteSet(Taken)
    BY <2>1, IdsTyped, FS_Subset DEF Taken
  <2>3. Cardinality(Taken \cup {current}) = Cardinality(Taken) + 1
    BY <1>1, <2>2, FS_AddElement
  <2> QED  BY <1>1, <1>2, <1>4, <2>3 DEF Counting
<1>7. Acyclic(Taken)'
  <2> SUFFICES ASSUME NEW S \in SUBSET (Taken \cup {current}), S # {}
               PROVE  \E n \in S : \A e \in NormalEdges : ~(e.to = n /\ e.from \in S)
    BY <1>1, <1>3 DEF Acyclic
  <2>1. Acyclic(Taken)
    BY <1>2 DEF Counting
  <2>2. CASE S \cap Taken = {}
    BY <1>1, <2>2
  <2>3. CASE S \cap Taken # {}
    <3>1. PICK n \in S \cap Taken :
             \A e \in NormalEdges : ~(e.to = n /\ e.from \in S \cap Taken)
      BY <2>1, <2>3 DEF Acyclic
    <3> QED  BY <1>1, <3>1
  <2> QED  BY <2>2, <2>3
<1> QED
  BY <1>1, <1>3, <1>5, <1>6, <1>7 DEF Counting

\* When no node is ready, the nodes left form a knot, if any are left.
LEMMA DecideSound ==
    ASSUME GraphTypeOK, Counting, CheckVerdict, Decide
    PROVE  CheckVerdict' /\ check'.pc = "done"
<1> DEFINE ids == Ids(canvas.nodes)
<1>1. check.pc = "checking" /\ check.ready = {} /\ check \in Checking /\ ProperIds
  BY DEF Decide, GraphTypeOK
<1>2. UNCHANGED canvas /\ check'.pc = "done"
      /\ stored'.error = (IF check.visited # Len(canvas.nodes) THEN "cycle" ELSE "none")
      /\ ~stored'.template
      /\ IF stored'.error = "cycle" THEN stored'.steps = <<>>
         ELSE /\ stored'.graph = [nodes |-> canvas.nodes, edges |-> NormalEdges]
              /\ stored'.steps = graph_to_steps(stored'.graph)
  BY <1>1 DEF Decide, Fail, Checking, NothingStored
<1>3. IsFiniteSet(ids) /\ ids \subseteq NodeIds /\ Taken \subseteq ids
  BY <1>1, IdsTyped DEF Taken
<1>4. check.visited = Len(canvas.nodes) <=> Taken = ids
  <2>1. check.visited = Cardinality(Taken) /\ Len(canvas.nodes) = Cardinality(ids)
    BY <1>1 DEF Counting, ProperIds
  <2> HIDE DEF ids
  <2> QED  BY <1>3, <2>1, FS_Subset
<1>5. Taken = ids => Acyclic(ids)
  BY <1>1 DEF Counting
<1>6. Taken # ids => ~Acyclic(ids)
  <2> SUFFICES ASSUME Taken # ids, Acyclic(ids) PROVE FALSE
    OBVIOUS
  <2> DEFINE left == ids \ Taken
  <2>1. left # {} /\ left \in SUBSET ids
    BY <1>3
  <2>2. PICK n \in left : \A e \in NormalEdges : ~(e.to = n /\ e.from \in left)
    BY <2>1 DEF Acyclic
  <2>3. check.indegree[n] # 0 /\ n \in NodeIds
    BY <1>1, <1>3 DEF Taken
  <2>4. Before(n) # {}
    BY <1>1, <2>3, FS_EmptySet DEF Counting, Before
  <2>5. PICK e \in NormalEdges : e.to = n /\ e.from \notin Taken
    BY <2>4 DEF Before
  <2>6. e.from \in left
    BY <2>5, NormalEdgesTyped
  <2> QED  BY <2>2, <2>5, <2>6
<1>7. /\ Ids(canvas.nodes)' = ids /\ (Acyclic(ids) <=> Acyclic(Ids(canvas.nodes))')
      /\ NormalEdges' = NormalEdges /\ canvas' = canvas
  BY <1>2, CanvasKept DEF Acyclic
<1> HIDE DEF ids
<1> QED
  BY <1>2, <1>4, <1>5, <1>6, <1>7 DEF CheckVerdict

-----------------------------------------------------------------------------
(* What is stored *)

\* The nodes of a drawing are of one phase: its steps come in the order of its nodes.
LEMMA StepsInOrder ==
    ASSUME GraphTypeOK, NEW graph, graph.nodes = canvas.nodes
    PROVE  /\ DOMAIN graph_to_steps(graph) = DOMAIN canvas.nodes
           /\ \A k \in DOMAIN canvas.nodes :
                 graph_to_steps(graph)[k] = step_of(graph, canvas.nodes[k])
<1> DEFINE nodes == canvas.nodes
           order(i) == PHASE_ORDER[nodes[i].phase]
           above(i) == {j \in DOMAIN nodes :
                           order(j) < order(i) \/ (order(j) = order(i) /\ j < i)}
           at(k) == CHOOSE i \in DOMAIN nodes : Cardinality(above(i)) + 1 = k
<1>1. DOMAIN nodes = 1..Len(nodes) /\ Len(nodes) \in Nat
  BY DEF GraphTypeOK
<1>2. \A i \in DOMAIN nodes : order(i) = 0
  <2>1. \A i \in DOMAIN nodes : nodes[i].phase = "pre"
    <3>1. \A i \in DOMAIN nodes : nodes[i] \in DrawnNode
      BY DEF GraphTypeOK
    <3> HIDE DEF nodes
    <3> QED  BY <3>1 DEF DrawnNode
  <2> QED  BY <2>1 DEF PHASE_ORDER
<1>3. ASSUME NEW i \in DOMAIN nodes PROVE Cardinality(above(i)) + 1 = i
  <2>1. above(i) = 1..(i - 1)
    <3> HIDE DEF order
    <3> QED  BY <1>1, <1>2
  <2>2. Cardinality(1..(i - 1)) = i - 1
    BY <1>1, FS_Interval
  <2> HIDE DEF above
  <2> QED  BY <1>1, <2>1, <2>2
<1>4. \A k \in DOMAIN nodes : at(k) = k
  <2> HIDE DEF above
  <2> QED  BY <1>3
<1>5. graph_to_steps(graph) = [k \in DOMAIN nodes |-> step_of(graph, nodes[at(k)])]
  BY DEF graph_to_steps
<1> HIDE DEF at
<1> QED
  BY <1>4, <1>5

\* Of some steps of an acyclic drawing one depends on none of them, unless one of them
\* has no edge into it and dependencies of its own.
LEMMA StepsOfDrawing ==
    ASSUME GraphTypeOK, Acyclic(Ids(canvas.nodes)),
           stored.graph = [nodes |-> canvas.nodes, edges |-> NormalEdges],
           stored.steps = graph_to_steps(stored.graph),
           NEW S \in SUBSET DOMAIN stored.steps, S # {}
    PROVE  SomeFirst(S) \/ \E i \in S : SentWithOwn(i)
<1> DEFINE ids == {canvas.nodes[k].id : k \in S}
           sources(i) == {e.from : e \in {e \in NormalEdges : e.to = canvas.nodes[i].id}}
<1>1. S \subseteq DOMAIN canvas.nodes
      /\ \A k \in S : stored.steps[k] = step_of(stored.graph, canvas.nodes[k])
  BY StepsInOrder
<1>2. ASSUME NEW k \in S
      PROVE  /\ stored.steps[k].id = canvas.nodes[k].id
             /\ sources(k) # {} => stored.steps[k].depends_on = sources(k)
  <2>1. stored.graph.edges = NormalEdges
    OBVIOUS
  <2>2. stored.steps[k] = [id |-> canvas.nodes[k].id, depends_on |->
                              IF sources(k) = {} THEN canvas.nodes[k].depends_on ELSE sources(k)]
    BY <1>1, <1>2, <2>1 DEF step_of
  <2> HIDE DEF sources
  <2> QED  BY <2>2
<1>3. ids # {} /\ ids \in SUBSET Ids(canvas.nodes)
  BY <1>1 DEF Ids
<1>4. PICK i \in S : \A e \in NormalEdges : ~(e.to = canvas.nodes[i].id /\ e.from \in ids)
  <2>1. PICK n \in ids : \A e \in NormalEdges : ~(e.to = n /\ e.from \in ids)
    BY <1>3 DEF Acyclic
  <2> QED  BY <2>1
<1>5. CASE sources(i) # {}
  <2>1. stored.steps[i].depends_on = sources(i)
    BY <1>2, <1>5
  <2>2. \A j \in S : stored.steps[j].id \in ids
    BY <1>2
  <2>3. \A n \in ids : n \notin sources(i)
    BY <1>4
  <2> HIDE DEF sources, ids
  <2> QED  BY <2>1, <2>2, <2>3 DEF SomeFirst
<1>6. CASE sources(i) = {}
  <2>1. \A e \in stored.graph.edges : e.to # stored.steps[i].id
    BY <1>2, <1>6
  <2>2. CASE stored.steps[i].depends_on = {}
    BY <2>2 DEF SomeFirst
  <2>3. CASE stored.steps[i].depends_on # {}
    BY <2>1, <2>3 DEF SentWithOwn
  <2> QED  BY <2>2, <2>3
<1> QED
  BY <1>5, <1>6

-----------------------------------------------------------------------------
(* Theorems *)

LEMMA InitSound == GraphInit => GraphSound
BY DEF GraphInit, GraphSound, CheckVerdict, Counting, NothingStored

LEMMA SoundStep == GraphTypeOK /\ GraphSound /\ [GraphNext]_graphVars => GraphSound'
<1> SUFFICES ASSUME GraphTypeOK, GraphSound, [GraphNext]_graphVars PROVE GraphSound'
  OBVIOUS
<1>1. CheckVerdict /\ Counting
  BY DEF GraphSound
<1>2. ASSUME check.pc = "drawing", UNCHANGED <<check, stored>> PROVE GraphSound'
  BY <1>1, <1>2 DEF GraphSound, CheckVerdict, Counting
<1>3. ASSUME NEW id \in NodeIds \cup {Unnamed}, NEW own \in SUBSET Ends, DrawNode(id, own)
      PROVE  GraphSound'
  BY <1>2, <1>3 DEF DrawNode
<1>4. ASSUME NEW from \in Ends, NEW to \in Ends, NEW id \in EdgeIds \cup {<<from, to>>},
             DrawEdge(id, from, to)
      PROVE  GraphSound'
  BY <1>2, <1>4 DEF DrawEdge
<1>5. ASSUME NEW steps \in WORKFLOW_TEMPLATES, ensure_workflow_graph(steps) PROVE GraphSound'
  <2>1. check'.pc = "done" /\ stored'.template
    BY <1>5 DEF ensure_workflow_graph, GraphTypeOK, Checking
  <2> QED  BY <2>1 DEF GraphSound, CheckVerdict, Counting
<1>6. ASSUME _normalize_graph_payload PROVE GraphSound'
  <2>1. CASE Fail("empty") \/ Fail("id")
    <3>1. check'.pc = "done" /\ stored'.error \in {"empty", "id"}
      BY <2>1 DEF Fail, GraphTypeOK, Checking, NothingStored
    <3> QED  BY <3>1 DEF GraphSound, CheckVerdict, Counting
  <2>2. CASE check'.pc = "checking" /\ UNCHANGED stored
    <3>1. check.pc = "drawing"
      BY <1>6 DEF _normalize_graph_payload
    <3>2. Counting'
      BY <1>6, <2>2, <3>1, CountingStarts
    <3>3. CheckVerdict'
      BY <1>1, <2>2, <3>1 DEF CheckVerdict
    <3> QED  BY <3>2, <3>3 DEF GraphSound
  <2> QED  BY <1>6, <2>1, <2>2 DEF _normalize_graph_payload
<1>7. ASSUME NEW current \in NodeIds, Visit(current) PROVE GraphSound'
  <2>1. Counting'
    BY <1>1, <1>7, CountingGoesOn
  <2>2. check.pc = "checking" /\ check'.pc = "checking" /\ UNCHANGED stored
    BY <1>7 DEF Visit, GraphTypeOK, Checking
  <2> QED  BY <1>1, <2>1, <2>2 DEF GraphSound, CheckVerdict
<1>8. ASSUME Decide PROVE GraphSound'
  BY <1>1, <1>8, DecideSound DEF GraphSound, Counting
<1>9. UNCHANGED graphVars => GraphSound'
  <2> SUFFICES ASSUME UNCHANGED graphVars PROVE GraphSound'
    OBVIOUS
  <2>1. UNCHANGED <<canvas, check, stored>>
    BY DEF graphVars
  <2>2. NormalEdges' = NormalEdges /\ Ids(canvas.nodes)' = Ids(canvas.nodes)
        /\ \A ids : Acyclic(ids) <=> Acyclic(ids)'
    BY <2>1, CanvasKept
  <2>3. Taken' = Taken
    BY <2>1, <2>2 DEF Taken
  <2>4. (Acyclic(Taken) <=> Acyclic(Taken)')
        /\ (Acyclic(Ids(canvas.nodes)) <=> Acyclic(Ids(canvas.nodes))')
    BY <2>2, <2>3 DEF Acyclic
  <2>5. CheckVerdict'
    BY <1>1, <2>1, <2>2, <2>4 DEF CheckVerdict
  <2>6. Counting'
    BY <1>1, <2>1, <2>2, <2>3, <2>4 DEF Counting
  <2> QED  BY <2>5, <2>6 DEF GraphSound
<1> QED
  BY <1>3, <1>4, <1>5, <1>6, <1>7, <1>8, <1>9 DEF GraphNext

\* The canvas, what is stored and the loop's state keep their types, and the
\* loop runs only on drawings whose node ids are proper.
THEOREM GraphTyped == GraphSpec => []GraphTypeOK
BY InitTyped, TypedStep, PTL DEF GraphSpec

\* The loop's counters are right throughout (_normalize_graph_payload): a count
\* is that of the kept edges from nodes not taken off yet, parallel ones included.
THEOREM GraphSoundTheorem == GraphSpec => []GraphSound
BY InitSound, SoundStep, GraphTyped, PTL DEF GraphSpec

\* The cycle check of a drawn graph refuses exactly the drawings whose kept edges
\* have a cycle, whatever number of nodes and of parallel or dangling edges they have,
\* and a cycle among the stored steps goes through one that was sent with dependencies
\* of its own and has no edge into it (graph_to_steps).
THEOREM DrawingsAreOrders == GraphSpec => [](~stored.template => GraphsAreOrders)
<1>1. GraphTypeOK /\ GraphSound => (~stored.template => GraphsAreOrders)
  <2> SUFFICES ASSUME GraphTypeOK, CheckVerdict, ~stored.template, check.pc = "done",
                      stored.error \in {"none", "cycle"},
                      NEW S \in SUBSET DOMAIN stored.steps, S # {}
               PROVE  SomeFirst(S) \/ \E i \in S : SentWithOwn(i)
    BY DEF GraphSound, CheckVerdict, GraphsAreOrders
  <2>1. CASE stored.error = "cycle"
    BY <2>1 DEF CheckVerdict
  <2>2. CASE stored.error = "none"
    BY <2>2, StepsOfDrawing DEF CheckVerdict
  <2> QED  BY <2>1, <2>2
<1> QED
  BY <1>1, GraphTyped, GraphSoundTheorem, PTL

=============================================================================
