-------------------------- MODULE ProjectValidation --------------------------
(***************************************************************************)
(* MaterialMakerCli._validate_data (bridge.py): the walk over a parsed     *)
(* .ptex document that decides whether a project may be exported.          *)
(*                                                                         *)
(* A document is a tree of cells, cell 1 being its root.  What the walk    *)
(* asks of a value is kept: whether it is an object, a list or neither,    *)
(* the lists under "nodes" and "connections", the strings it compares.     *)
(***************************************************************************)
EXTENDS Integers, Sequences, FiniteSets

CONSTANTS
    Docs,            \* the documents to walk over
    Bad,             \* not an acceptable name
    MaxNodes, MaxConnections,
    MaxContainers    \* the inspection budget, 500 000 in the code

\* What json.loads returns (_read_project): a tree.  Its values are numbered so
\* that a value comes after the one that holds it, and every value but the
\* first, an object, is held once.
IsDocument(d) ==
    LET cells == 1 .. Len(d)
    IN  /\ DOMAIN d = cells /\ 1 \in cells /\ d[1].kind = "object"
        /\ \A c \in cells :
              /\ d[c].items \in Seq(c + 1 .. Len(d))
              /\ d[c].kind = "scalar" => d[c].items = <<>>
              /\ d[c].nodes \in cells \cup {0} /\ d[c].connections \in cells \cup {0}
        /\ \A x \in cells \ {1} : \E c \in cells : \E i \in 1 .. Len(d[c].items) :
              d[c].items[i] = x
        /\ \A b, c \in cells : \A i \in 1 .. Len(d[b].items), j \in 1 .. Len(d[c].items) :
              d[b].items[i] = d[c].items[j] => b = c /\ i = j

ASSUME ValidationAssumption ==
    /\ MaxNodes \in Nat /\ MaxConnections \in Nat /\ MaxContainers \in Nat
    /\ \A d \in Docs : Len(d) \in Nat /\ IsDocument(d)

VARIABLES
    doc,         \* the document
    stack,       \* cells still to visit
    graph,       \* the graph under inspection
    index,       \* position in its list of nodes or of connections
    names,       \* names of its nodes
    seen,        \* containers_seen
    nodes,       \* node_count
    connections, \* connection_count
    graphs,      \* graph_count
    invalid,     \* errors is not empty
    pc
vars == <<doc, stack, graph, index, names, seen, nodes, connections, graphs, invalid, pc>>

Init ==
    /\ doc \in Docs
    /\ stack = <<1>> /\ graph = 1 /\ index = 1 /\ names = {}
    /\ seen = 0 /\ nodes = 0 /\ connections = 0 /\ graphs = 0
    /\ invalid = FALSE /\ pc = "pop"

\* An object whose "nodes" and "connections" are lists (0 stands for no list).
IsGraph(c) == c.kind = "object" /\ c.nodes # 0 /\ c.connections # 0

OverLate(count, limit) == count > limit + 1
Over(count, limit) == count > limit

\* stack.pop().
RestPeeked == stack
Rest == SubSeq(stack, 1, Len(stack) - 1)
NodeList(g) == doc[doc[g].nodes].items
ConnectionList(g) == doc[doc[g].connections].items

\* Both endpoints of a connection name nodes of this graph, and its ports are
\* natural numbers.
LinkedByForm(c) == c.kind = "object" /\ c.ports
Linked(c) == c.kind = "object" /\ c.ports /\ c.from \in names /\ c.to \in names

-----------------------------------------------------------------------------
\* Scalars cost nothing; a container costs one unit of the budget, and its
\* values are pushed after it was inspected.
Pop ==
    /\ pc = "pop" /\ stack # <<>>
    /\ LET id == stack[Len(stack)]
           c == doc[id]
       IN  \/ /\ c.kind = "scalar"
              /\ stack' = Rest
              /\ UNCHANGED <<graph, index, names, seen, graphs, invalid, pc>>
           \/ /\ c.kind # "scalar" /\ seen' = seen + 1
              /\ Over(seen', MaxContainers)
              /\ invalid' = TRUE /\ pc' = "end"
              /\ UNCHANGED <<stack, graph, index, names, graphs>>
           \/ /\ c.kind # "scalar" /\ seen' = seen + 1
              /\ ~ Over(seen', MaxContainers)
              /\ stack' = Rest \o c.items
              /\ IF IsGraph(c)
                 THEN /\ graph' = id /\ index' = 1 /\ names' = {}
                      /\ graphs' = graphs + 1 /\ pc' = "nodes"
                 ELSE UNCHANGED <<graph, index, names, graphs, pc>>
              /\ UNCHANGED invalid
    /\ UNCHANGED <<doc, nodes, connections>>

\* A node counts before it is looked at; the first one over the limit ends the
\* loop over this graph's nodes, not the walk.
CheckNode ==
    /\ pc = "nodes" /\ index <= Len(NodeList(graph))
    /\ nodes' = nodes + 1
    /\ LET n == doc[NodeList(graph)[index]]
           named == n.kind = "object" /\ n.name # Bad /\ n.name \notin names
       IN  IF Over(nodes', MaxNodes)
           THEN /\ invalid' = TRUE /\ pc' = "connections" /\ index' = 1
                /\ UNCHANGED names
           ELSE /\ names' = IF named THEN names \cup {n.name} ELSE names
                /\ invalid' = (invalid \/ ~ named \/ ~ n.typed)
                /\ index' = index + 1 /\ UNCHANGED pc
    /\ UNCHANGED <<doc, stack, graph, seen, connections, graphs>>

CheckConnection ==
    /\ pc = "connections" /\ index <= Len(ConnectionList(graph))
    /\ connections' = connections + 1
    /\ LET c == doc[ConnectionList(graph)[index]]
       IN  IF Over(connections', MaxConnections)
           THEN invalid' = TRUE /\ pc' = "pop" /\ UNCHANGED index
           ELSE invalid' = (invalid \/ ~ Linked(c)) /\ index' = index + 1 /\ UNCHANGED pc
    /\ UNCHANGED <<doc, stack, graph, names, seen, nodes, graphs>>

\* A loop has come to the end of its list.
EndLoop ==
    /\ \/ /\ pc = "nodes" /\ index > Len(NodeList(graph))
          /\ pc' = "connections" /\ index' = 1
       \/ /\ pc = "connections" /\ index > Len(ConnectionList(graph))
          /\ pc' = "pop" /\ UNCHANGED index
    /\ UNCHANGED <<doc, stack, graph, names, seen, nodes, connections, graphs, invalid>>

Finish ==
    /\ pc = "pop" /\ stack = <<>>
    /\ invalid' = (invalid \/ graphs = 0)
    /\ pc' = "end"
    /\ UNCHANGED <<doc, stack, graph, index, names, seen, nodes, connections, graphs>>

Next == Pop \/ CheckNode \/ CheckConnection \/ EndLoop \/ Finish
Spec == Init /\ [][Next]_vars /\ WF_vars(Next)

-----------------------------------------------------------------------------
(* What the walk should decide, said of the document as a whole.           *)

Cells == DOMAIN doc
Graphs == {c \in Cells : IsGraph(doc[c])}
Occurrences(List(_)) == UNION {{<<g, i>> : i \in 1 .. Len(List(g))} : g \in Graphs}

GraphWellFormed(g) ==
    LET node(i) == doc[NodeList(g)[i]]
        positions == 1 .. Len(NodeList(g))
        known == {node(i).name : i \in positions}
    IN  /\ \A i \in positions :
              node(i).kind = "object" /\ node(i).name # Bad /\ node(i).typed
        /\ Cardinality(known) = Len(NodeList(g))
        /\ \A i \in 1 .. Len(ConnectionList(g)) :
              LET c == doc[ConnectionList(g)[i]]
              IN  c.kind = "object" /\ c.ports /\ {c.from, c.to} \subseteq known

WellFormed ==
    /\ Graphs # {}
    /\ Cardinality({c \in Cells : doc[c].kind # "scalar"}) <= MaxContainers
    /\ Cardinality(Occurrences(NodeList)) <= MaxNodes
    /\ Cardinality(Occurrences(ConnectionList)) <= MaxConnections
    /\ \A g \in Graphs : GraphWellFormed(g)

\* The verdict is that of the definition, whatever the nesting, the order in
\* which graphs are visited and the loops that are left early.
VerdictIsExact == pc = "end" => (invalid <=> ~ WellFormed)

\* The work stays within the limits on documents that exceed them: each graph
\* looks at no more than one node over the limit, and the budget ends the walk.
WorkIsBounded ==
    /\ seen <= MaxContainers + 1
    /\ nodes <= MaxNodes + graphs
    /\ connections <= MaxConnections + graphs

\* The walk ends on every document.
WalkEnds == <>(pc = "end")
=============================================================================
