------------------------- MODULE MCProjectValidation -------------------------
(* Documents for TLC: a graph, a graph in one of its nodes, a graph in a list. *)
EXTENDS ProjectValidation, TLC

Cell(kind, items) ==
    [kind |-> kind, items |-> items, nodes |-> 0, connections |-> 0, name |-> Bad,
     typed |-> TRUE, from |-> Bad, to |-> Bad, ports |-> TRUE]
Scalar == [Cell("scalar", <<>>) EXCEPT !.typed = FALSE]
Node(n) == [Cell("object", <<>>) EXCEPT !.name = n]
Untyped(n) == [Node(n) EXCEPT !.typed = FALSE]
Link(f, t, p) == [Cell("object", <<>>) EXCEPT !.from = f, !.to = t, !.ports = p]

Nodes == { Node("a"), Node("b"), Node(Bad), Untyped("b"), Scalar }
Links == { Link("a", "b", TRUE), Link("b", "a", FALSE), Link("a", Bad, TRUE), Scalar }

\* A list of cells numbered from first on.
Numbers(first, cells) == [i \in 1 .. Len(cells) |-> first + i - 1]

\* An object with a list of nodes and a list of connections, at cell first.
GraphAt(first, own, links) ==
    << [Cell("object", <<first + 1, first + 2>>)
          EXCEPT !.nodes = first + 1, !.connections = first + 2,
                 !.name = "a"],
       Cell("list", Numbers(first + 3, own)),
       Cell("list", Numbers(first + 3 + Len(own), links)) >> \o own \o links

\* A second graph: one of the first one's nodes, or under another key of it.
Nested(outer, inner, asNode) ==
    LET at == Len(outer) + 1
    IN  [outer EXCEPT ![IF asNode THEN 2 ELSE 1].items = Append(@, at)] \o inner

Upto(n, S) == UNION { [1 .. k -> S] : k \in 0 .. n }
Outer == { GraphAt(1, own, links) : own \in Upto(2, Nodes), links \in Upto(2, Links) }

MCDocs ==
    { << Cell("object", <<>>) >>, << Cell("object", <<2, 3>>), Cell("list", <<>>), Scalar >> }
    \cup Outer
    \cup { Nested(o, GraphAt(Len(o) + 1, own, links), asNode) :
             o \in { GraphAt(1, own, links) : own \in Upto(1, Nodes),
                                              links \in Upto(2, Links) },
             own \in Upto(2, Nodes), links \in Upto(1, Links), asNode \in BOOLEAN }
    \cup { << Cell("object", <<2>>), Cell("list", <<3>>) >> \o GraphAt(3, own, links) :
             own \in Upto(1, Nodes), links \in Upto(1, Links) }
=============================================================================
