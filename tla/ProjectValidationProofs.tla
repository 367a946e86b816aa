----------------------- MODULE ProjectValidationProofs -----------------------
(***************************************************************************)
(* Theorems about the walk, for every set of documents and all limits: it  *)
(* never exceeds its budget, and its verdict is that of the definition.    *)
(* The walk is followed by an account of the cells it has visited; that    *)
(* it visits each cell once is because a document is a tree.               *)
(***************************************************************************)
EXTENDS ProjectValidation, FiniteSetTheorems, SequenceTheorems,
        WellFoundedInduction, TLAPS

\* The counters, with the slack each has left: a walk that goes on is within
\* its budget, and a graph under inspection has not used its one excess yet.
Counted ==
    /\ seen \in Nat /\ nodes \in Nat /\ connections \in Nat /\ graphs \in Nat
    /\ pc \in {"pop", "nodes", "connections", "end"}
    /\ pc # "end" => seen <= MaxContainers
    /\ pc \in {"nodes", "connections"} => graphs >= 1
    /\ pc = "nodes" => nodes <= MaxNodes + graphs - 1
    /\ pc \in {"nodes", "connections"} =>
          connections <= MaxConnections + graphs - 1

WithinLimits == Counted /\ WorkIsBounded

LEMMA InitWithin == Init => WithinLimits
BY ValidationAssumption DEF Init, WithinLimits, Counted, WorkIsBounded

LEMMA NextWithin == WithinLimits /\ [Next]_vars => WithinLimits'
<1> SUFFICES ASSUME WithinLimits, [Next]_vars PROVE WithinLimits'
  OBVIOUS
<1> USE ValidationAssumption DEF WithinLimits, Counted, WorkIsBounded
<1>1. CASE Pop
  <2> DEFINE c == doc[stack[Len(stack)]]
  <2>1. CASE c.kind = "scalar"
    BY <1>1, <2>1 DEF Pop
  <2>2. CASE c.kind # "scalar" /\ Over(seen + 1, MaxContainers)
    <3>1. /\ seen' = seen + 1 /\ pc' = "end"
          /\ UNCHANGED <<nodes, connections, graphs>>
      BY <1>1, <2>2 DEF Pop
    <3>2. pc = "pop"  BY <1>1 DEF Pop
    <3> QED  BY <3>1, <3>2
  <2>3. CASE c.kind # "scalar" /\ ~ Over(seen + 1, MaxContainers)
    <3>1. pc = "pop" /\ seen' = seen + 1 /\ UNCHANGED <<nodes, connections>>
      BY <1>1, <2>3 DEF Pop
    <3>2. seen' <= MaxContainers
      BY <2>3, <3>1 DEF Over
    <3>3. \/ graphs' = graphs + 1 /\ pc' = "nodes"
          \/ graphs' = graphs /\ pc' = "pop"
      BY <1>1, <2>3 DEF Pop
    <3> QED  BY <3>1, <3>2, <3>3
  <2> QED  BY <2>1, <2>2, <2>3
<1>2. CASE CheckNode
  <2>1. /\ pc = "nodes" /\ nodes' = nodes + 1
        /\ UNCHANGED <<seen, connections, graphs>>
    BY <1>2 DEF CheckNode
  <2>2. \/ Over(nodes + 1, MaxNodes) /\ pc' = "connections"
        \/ ~ Over(nodes + 1, MaxNodes) /\ pc' = "nodes"
    BY <1>2, <2>1 DEF CheckNode
  <2> QED  BY <2>1, <2>2 DEF Over
<1>3. CASE CheckConnection
  <2>1. /\ pc = "connections" /\ connections' = connections + 1
        /\ UNCHANGED <<seen, nodes, graphs>>
    BY <1>3 DEF CheckConnection
  <2>2. \/ Over(connections + 1, MaxConnections) /\ pc' = "pop"
        \/ ~ Over(connections + 1, MaxConnections) /\ pc' = "connections"
    BY <1>3, <2>1 DEF CheckConnection
  <2> QED  BY <2>1, <2>2 DEF Over
<1>4. CASE EndLoop  BY <1>4 DEF EndLoop
<1>5. CASE Finish  BY <1>5 DEF Finish
<1>6. CASE UNCHANGED vars  BY <1>6 DEF vars
<1> QED  BY <1>1, <1>2, <1>3, <1>4, <1>5, <1>6 DEF Next

\* _validate_data never inspects more than the budget allows: one container
\* over it, and in each graph one node and one connection over the limits.
THEOREM BudgetHolds == Spec => []WorkIsBounded
<1>1. WithinLimits => WorkIsBounded  BY DEF WithinLimits
<1> QED  BY <1>1, InitWithin, NextWithin, PTL DEF Spec

-----------------------------------------------------------------------------
(* Every value is visited once.                                            *)

LEMMA Least ==
    ASSUME NEW U \in SUBSET Nat, U # {}
    PROVE  \E x \in U : \A y \in U : x <= y
<1>1. IsWellFoundedOn(OpToRel(<, Nat), Nat)  BY NatLessThanWellFounded
<1>2. PICK x \in U : \A y \in U : ~ (<<y, x>> \in OpToRel(<, Nat))  BY <1>1, WFMin
<1>3. \A y \in U : ~ (y < x)  BY <1>2 DEF OpToRel
<1> QED  BY <1>3

LEMMA ElementOf ==
    ASSUME NEW S, NEW s \in Seq(S)
    PROVE  Len(s) \in Nat /\ \A i \in 1 .. Len(s) : s[i] \in S
OBVIOUS

LEMMA WithoutLast ==
    ASSUME NEW S, NEW s \in Seq(S), s # <<>>
    PROVE  LET r == SubSeq(s, 1, Len(s) - 1)
           IN  /\ r \in Seq(S) /\ Len(r) = Len(s) - 1 /\ Len(s) \in Nat \ {0}
               /\ \A i \in 1 .. Len(s) - 1 : r[i] = s[i]
<1> DEFINE n == Len(s) - 1
<1>1. Len(s) \in Nat \ {0} /\ n \in Int /\ 1 \in Int  OBVIOUS
<1>2. \A i \in 1 .. n : s[i] \in S  BY <1>1, ElementOf
<1> HIDE DEF n
<1>3. /\ SubSeq(s, 1, n) \in Seq(S)
      /\ Len(SubSeq(s, 1, n)) = IF 1 <= n THEN n - 1 + 1 ELSE 0
      /\ \A i \in 1 .. n - 1 + 1 : SubSeq(s, 1, n)[i] = s[1 + i - 1]
  BY <1>1, <1>2, SubSeqProperties
<1>4. n >= 0  BY <1>1 DEF n
<1>5. Len(SubSeq(s, 1, n)) = n  BY <1>1, <1>3, <1>4
<1>6. \A i \in 1 .. n : SubSeq(s, 1, n)[i] = s[i]
  <2> SUFFICES ASSUME NEW i \in 1 .. n PROVE SubSeq(s, 1, n)[i] = s[i]
    OBVIOUS
  <2>1. i \in 1 .. n - 1 + 1 /\ 1 + i - 1 = i  BY <1>1
  <2> QED  BY <1>3, <2>1
<1> QED  BY <1>1, <1>3, <1>5, <1>6 DEF n

LEMMA Joined ==
    ASSUME NEW S, NEW r \in Seq(S), NEW s \in Seq(S)
    PROVE  /\ r \o s \in Seq(S) /\ Len(r \o s) = Len(r) + Len(s)
           /\ \A i \in 1 .. Len(r) : (r \o s)[i] = r[i]
           /\ \A i \in Len(r) + 1 .. Len(r) + Len(s) : (r \o s)[i] = s[i - Len(r)]
OBVIOUS

LEMMA Shape ==
    ASSUME doc \in Docs
    PROVE  /\ Len(doc) \in Nat /\ Cells = 1 .. Len(doc) /\ 1 \in Cells /\ IsFiniteSet(Cells)
           /\ \A c \in Cells : doc[c].items \in Seq(Cells) /\ Len(doc[c].items) \in Nat
           /\ \A c \in Cells : \A i \in 1 .. Len(doc[c].items) :
                 doc[c].items[i] \in Cells /\ doc[c].items[i] > c
           /\ \A c \in Cells : doc[c].kind = "scalar" => doc[c].items = <<>>
           /\ \A x \in Cells \ {1} : \E c \in Cells : \E i \in 1 .. Len(doc[c].items) :
                 doc[c].items[i] = x
           /\ \A b, c \in Cells : \A i \in 1 .. Len(doc[b].items), j \in 1 .. Len(doc[c].items) :
                 doc[b].items[i] = doc[c].items[j] => b = c /\ i = j
<1>1. Len(doc) \in Nat /\ IsDocument(doc)  BY ValidationAssumption
<1>2. Cells = 1 .. Len(doc) /\ 1 \in Cells  BY <1>1 DEF IsDocument, Cells
<1>3. IsFiniteSet(Cells)  BY <1>1, <1>2, FS_Interval
<1>4. ASSUME NEW c \in Cells
      PROVE  /\ doc[c].items \in Seq(Cells) /\ Len(doc[c].items) \in Nat
             /\ \A i \in 1 .. Len(doc[c].items) :
                   doc[c].items[i] \in Cells /\ doc[c].items[i] > c
  <2> DEFINE s == doc[c].items
  <2>1. s \in Seq(c + 1 .. Len(doc))  BY <1>1, <1>2 DEF IsDocument
  <2>2. c \in Int /\ c + 1 .. Len(doc) \subseteq Cells  BY <1>1, <1>2
  <2> HIDE DEF s
  <2>3. Len(s) \in Nat /\ \A i \in 1 .. Len(s) : s[i] \in c + 1 .. Len(doc)
    BY <2>1, ElementOf
  <2>4. s \in Seq(Cells)  BY <2>1, <2>2
  <2>5. \A i \in 1 .. Len(s) : s[i] \in Cells /\ s[i] > c  BY <1>1, <2>2, <2>3
  <2> QED  BY <2>3, <2>4, <2>5 DEF s
<1>5. /\ \A c \in Cells : doc[c].kind = "scalar" => doc[c].items = <<>>
      /\ \A x \in Cells \ {1} : \E c \in Cells : \E i \in 1 .. Len(doc[c].items) :
            doc[c].items[i] = x
      /\ \A b, c \in Cells : \A i \in 1 .. Len(doc[b].items), j \in 1 .. Len(doc[c].items) :
            doc[b].items[i] = doc[c].items[j] => b = c /\ i = j
  BY <1>1, <1>2, Zenon DEF IsDocument
<1> QED  BY <1>1, <1>2, <1>3, <1>4, <1>5

\* The cells that wait to be visited.
Waiting == {stack[i] : i \in 1 .. Len(stack)}

\* V holds the cells that have been visited: each once, and none that waits.
Traversal(V) ==
    /\ V \subseteq Cells /\ stack \in Seq(Cells)
    /\ \A i, j \in 1 .. Len(stack) : stack[i] = stack[j] => i = j
    /\ Waiting \cap V = {}
    /\ 1 \in V \cup Waiting
    /\ \A c \in V : \A i \in 1 .. Len(doc[c].items) : doc[c].items[i] \in V \cup Waiting
    /\ \A x \in (V \cup Waiting) \ {1} :
          \E c \in V : \E i \in 1 .. Len(doc[c].items) : doc[c].items[i] = x

\* When nothing waits everything has been visited.
LEMMA AllVisited ==
    ASSUME doc \in Docs, NEW V, Traversal(V), stack = <<>>
    PROVE  V = Cells
<1> SUFFICES ASSUME Cells \ V # {} PROVE FALSE
  BY DEF Traversal
<1>1. Cells \ V \subseteq Nat  BY Shape
<1>2. PICK x \in Cells \ V : \A y \in Cells \ V : x <= y  BY <1>1, Least
<1>3. Waiting = {}  BY DEF Waiting
<1>4. x # 1  BY <1>3 DEF Traversal
<1>5. PICK c \in Cells : \E i \in 1 .. Len(doc[c].items) : doc[c].items[i] = x
  BY <1>4, Shape
<1>6. x > c /\ x \in Nat /\ c \in Nat  BY <1>5, Shape
<1>7. c \in V  BY <1>2, <1>6
<1> QED  BY <1>3, <1>5, <1>7 DEF Traversal

\* A cell that is taken from the stack joins the visited ones, and what it holds
\* waits.
LEMMA TraversalStep ==
    ASSUME doc \in Docs, NEW V, Traversal(V), stack # <<>>, doc' = doc,
           NEW id, id = stack[Len(stack)], stack' = Rest \o doc[id].items
    PROVE  id \in Cells \ V /\ Traversal(V \cup {id})'
<1> DEFINE s == doc[id].items
           n == Len(stack) - 1
<1>1. Len(stack) \in Nat \ {0} /\ n \in Nat /\ stack \in Seq(Cells)
  BY DEF Traversal
<1>2. id \in Cells /\ id \in Waiting /\ id \notin V
  BY <1>1 DEF Traversal, Waiting
<1>3. Len(s) \in Nat /\ s \in Seq(Cells)  BY <1>2, Shape
<1>4. Rest \in Seq(Cells) /\ Len(Rest) = n /\ \A i \in 1 .. n : Rest[i] = stack[i]
  BY <1>1, WithoutLast DEF Rest
<1>5. /\ stack' \in Seq(Cells) /\ Len(stack') = n + Len(s)
      /\ \A i \in 1 .. n : stack'[i] = stack[i]
      /\ \A i \in n + 1 .. n + Len(s) : stack'[i] = s[i - n]
  <2> HIDE DEF s, n
  <2>1. stack' = Rest \o s  BY DEF s
  <2>2. /\ Rest \o s \in Seq(Cells) /\ Len(Rest \o s) = Len(Rest) + Len(s)
        /\ \A i \in 1 .. Len(Rest) : (Rest \o s)[i] = Rest[i]
        /\ \A i \in Len(Rest) + 1 .. Len(Rest) + Len(s) : (Rest \o s)[i] = s[i - Len(Rest)]
    BY <1>3, <1>4, Joined DEF s
  <2> QED  BY <1>4, <2>1, <2>2
<1>6. \A i \in 1 .. Len(s) : s[i] \notin V \cup Waiting
  <2> SUFFICES ASSUME NEW i \in 1 .. Len(s), s[i] \in V \cup Waiting PROVE FALSE
    OBVIOUS
  <2>1. s[i] \in Cells /\ s[i] > id /\ id \in Nat \ {0}  BY <1>2, Shape
  <2>2. s[i] # 1  BY <2>1
  <2>3. PICK c \in V : \E j \in 1 .. Len(doc[c].items) : doc[c].items[j] = s[i]
    BY <2>2 DEF Traversal
  <2>4. c = id  BY <1>2, <2>3, Shape DEF Traversal
  <2> QED  BY <1>2, <2>3, <2>4
<1>7. \A i, j \in 1 .. Len(s) : s[i] = s[j] => i = j
  <2>1. \A b, c \in Cells : \A i \in 1 .. Len(doc[b].items), j \in 1 .. Len(doc[c].items) :
           doc[b].items[i] = doc[c].items[j] => b = c /\ i = j
    BY Shape
  <2> QED  BY <1>2, <2>1, Zenon
<1>8. \A i \in 1 .. n : stack[i] # id /\ stack[i] \in Waiting
  BY <1>1 DEF Traversal, Waiting
<1>9. Waiting' = (Waiting \ {id}) \cup {s[i] : i \in 1 .. Len(s)}
  <2> HIDE DEF s
  <2>1. ASSUME NEW x \in Waiting' PROVE x \in (Waiting \ {id}) \cup {s[i] : i \in 1 .. Len(s)}
    <3>1. PICK i \in 1 .. n + Len(s) : x = stack'[i]  BY <1>5, <2>1 DEF Waiting
    <3>2. CASE i \in 1 .. n  BY <1>5, <1>8, <3>1, <3>2
    <3>3. CASE i \notin 1 .. n
      <4>1. i \in n + 1 .. n + Len(s) /\ i - n \in 1 .. Len(s)  BY <1>1, <1>3, <3>3
      <4> QED  BY <1>5, <3>1, <4>1
    <3> QED  BY <3>2, <3>3
  <2>2. ASSUME NEW x \in Waiting, x # id PROVE x \in Waiting'
    <3>1. PICK i \in 1 .. Len(stack) : x = stack[i]  BY DEF Waiting
    <3>2. i \in 1 .. n  BY <1>1, <2>2, <3>1
    <3>3. i \in 1 .. Len(stack')  BY <1>1, <1>3, <1>5, <3>2
    <3>4. stack'[i] = x  BY <1>5, <3>1, <3>2
    <3> QED  BY <3>3, <3>4 DEF Waiting
  <2>3. ASSUME NEW i \in 1 .. Len(s) PROVE s[i] \in Waiting'
    <3>1. n + i \in n + 1 .. n + Len(s) /\ n + i \in 1 .. Len(stack') /\ (n + i) - n = i
      BY <1>1, <1>3, <1>5
    <3>2. stack'[n + i] = s[i]  BY <1>5, <3>1
    <3> QED  BY <3>1, <3>2 DEF Waiting
  <2> QED  BY <2>1, <2>2, <2>3
<1> DEFINE W == V \cup {id}
<1>10. W \subseteq Cells /\ stack' \in Seq(Cells)
  BY <1>2, <1>5 DEF Traversal
<1>11. \A i, j \in 1 .. Len(stack') : stack'[i] = stack'[j] => i = j
  <2> HIDE DEF s
  <2>1. \A i \in 1 .. n, j \in n + 1 .. n + Len(s) : stack'[i] # stack'[j]
    <3> SUFFICES ASSUME NEW i \in 1 .. n, NEW j \in n + 1 .. n + Len(s)
                 PROVE  stack'[i] # stack'[j]
      OBVIOUS
    <3>1. stack'[i] \in Waiting  BY <1>5, <1>8
    <3>2. j - n \in 1 .. Len(s)  BY <1>1, <1>3
    <3>3. stack'[j] \notin Waiting  BY <1>5, <1>6, <3>2
    <3> QED  BY <3>1, <3>3
  <2>2. \A i, j \in 1 .. n : stack'[i] = stack'[j] => i = j
    BY <1>1, <1>5 DEF Traversal
  <2>3. \A i, j \in n + 1 .. n + Len(s) : stack'[i] = stack'[j] => i = j
    <3> SUFFICES ASSUME NEW i \in n + 1 .. n + Len(s), NEW j \in n + 1 .. n + Len(s),
                        stack'[i] = stack'[j]
                 PROVE  i = j
      OBVIOUS
    <3>1. i - n \in 1 .. Len(s) /\ j - n \in 1 .. Len(s)  BY <1>1, <1>3
    <3>2. i - n = j - n  BY <1>5, <1>7, <3>1
    <3> QED  BY <1>1, <1>3, <3>2
  <2>4. \A i \in 1 .. Len(stack') : i \in 1 .. n \/ i \in n + 1 .. n + Len(s)
    BY <1>1, <1>3, <1>5
  <2> QED  BY <2>1, <2>2, <2>3, <2>4
<1>12. Waiting' \cap W = {}
  <2>1. \A i \in 1 .. Len(s) : s[i] # id  BY <1>2, <1>6
  <2> HIDE DEF s
  <2> QED  BY <1>6, <1>9, <2>1 DEF Traversal
<1>13. W \cup Waiting' = V \cup Waiting \cup {s[i] : i \in 1 .. Len(s)}
  BY <1>2, <1>9
<1>14. 1 \in W \cup Waiting'  BY <1>13 DEF Traversal
<1>15. \A c \in W : \A i \in 1 .. Len(doc'[c].items) : doc'[c].items[i] \in W \cup Waiting'
  BY <1>13 DEF Traversal
<1>16. \A x \in (W \cup Waiting') \ {1} :
          \E c \in W : \E i \in 1 .. Len(doc'[c].items) : doc'[c].items[i] = x
  <2> SUFFICES ASSUME NEW x \in (W \cup Waiting') \ {1}
               PROVE  \E c \in W : \E i \in 1 .. Len(doc[c].items) : doc[c].items[i] = x
    OBVIOUS
  <2>1. CASE x \in V \cup Waiting  BY <2>1 DEF Traversal
  <2>2. CASE x \in {s[i] : i \in 1 .. Len(s)}  BY <2>2
  <2> QED  BY <1>13, <2>1, <2>2
<1>17. W \subseteq Cells' /\ stack' \in Seq(Cells')
  BY <1>10 DEF Cells
<1>18. Traversal(W)'
  <2> HIDE DEF W, s, n
  <2> QED  BY <1>11, <1>12, <1>14, <1>15, <1>16, <1>17 DEF Traversal
<1> QED  BY <1>2, <1>18

-----------------------------------------------------------------------------
(* The verdict is that of the definition: an account of what the walk has  *)
(* looked at, V being the cells it has visited.                            *)

GraphsIn(V) == {c \in V : IsGraph(doc[c])}
ContainersIn(V) == {c \in V : doc[c].kind # "scalar"}
Nodes == [g \in Graphs |-> Len(NodeList(g))]
Links == [g \in Graphs |-> Len(ConnectionList(g))]

\* The entries of the lists of lengths L that were looked at when all of them
\* were in the graphs of G, but only the first n in g.
LookedAt(G, L, C, g, n) == {p \in G \X C : p[2] <= IF p[1] = g THEN n ELSE L[p[1]]}

NamesUpTo(g, n) == {doc[NodeList(g)[i]].name : i \in 1 .. n}

\* The first n nodes of g, or connections, have no error.
NodesSound(g, n) ==
    /\ \A i \in 1 .. n :
          LET c == doc[NodeList(g)[i]] IN c.kind = "object" /\ c.name # Bad /\ c.typed
    /\ \A i, j \in 1 .. n :
          doc[NodeList(g)[i]].name = doc[NodeList(g)[j]].name => i = j

LinksSound(g, n) ==
    \A i \in 1 .. n :
       LET c == doc[ConnectionList(g)[i]]
       IN  /\ c.kind = "object" /\ c.ports
           /\ c.from \in NamesUpTo(g, Nodes[g]) /\ c.to \in NamesUpTo(g, Nodes[g])

GraphSound(g) == NodesSound(g, Nodes[g]) /\ LinksSound(g, Links[g])

NodesSeen(V) ==
    LookedAt(GraphsIn(V), Nodes, Cells, IF pc = "nodes" THEN graph ELSE 0, index - 1)
LinksSeen(V) ==
    LookedAt(GraphsIn(V), Links, Cells, IF pc = "pop" THEN 0 ELSE graph,
             IF pc = "nodes" THEN 0 ELSE index - 1)

\* Where the walk stands in a graph.
Position(V) ==
    /\ pc \in {"pop", "nodes", "connections"}
    /\ pc # "pop" => graph \in GraphsIn(V)
    /\ pc = "nodes" => index \in 1 .. Nodes[graph] + 1
    /\ pc = "connections" => index \in 1 .. Links[graph] + 1

\* A walk that has met no error has counted each entry it looked at, and each of
\* them is as it should be.
Clean(V) ==
    /\ nodes = Cardinality(NodesSeen(V)) /\ nodes <= MaxNodes
    /\ connections = Cardinality(LinksSeen(V)) /\ connections <= MaxConnections
    /\ \A g \in GraphsIn(V) : pc = "pop" \/ g # graph => GraphSound(g)
    /\ pc = "nodes" => names = NamesUpTo(graph, index - 1) /\ NodesSound(graph, index - 1)
    /\ pc = "connections" => /\ names = NamesUpTo(graph, Nodes[graph])
                             /\ NodesSound(graph, Nodes[graph])
                             /\ LinksSound(graph, index - 1)

Account(V) ==
    /\ Traversal(V)
    /\ seen = Cardinality(ContainersIn(V)) /\ seen <= MaxContainers
    /\ graphs \in Nat /\ (graphs = 0 <=> GraphsIn(V) = {})
    /\ Position(V)
    /\ ~ invalid => Clean(V)

\* An error that was noted is one of the document, and a walk goes on only with
\* a complete account of what it has visited.
Exact ==
    /\ doc \in Docs /\ invalid \in BOOLEAN
    /\ invalid => ~ WellFormed
    /\ pc = "end" /\ ~ invalid => WellFormed
    /\ pc # "end" => \E V \in SUBSET Cells : Account(V)

-----------------------------------------------------------------------------
(* Counting entries.                                                       *)

LEMMA Looked ==
    ASSUME NEW m \in Nat, NEW G \in SUBSET (1 .. m), NEW L, NEW g, NEW n
    PROVE  /\ LookedAt(G, L, 1 .. m, g, n) \subseteq G \X (1 .. m)
           /\ IsFiniteSet(LookedAt(G, L, 1 .. m, g, n))
           /\ Cardinality(LookedAt(G, L, 1 .. m, g, n)) \in Nat
<1>1. LookedAt(G, L, 1 .. m, g, n) \subseteq G \X (1 .. m)  BY DEF LookedAt
<1>2. IsFiniteSet(1 .. m)  BY FS_Interval
<1>3. IsFiniteSet(G)  BY <1>2, FS_Subset
<1>4. IsFiniteSet(G \X (1 .. m))  BY <1>2, <1>3, FS_Product
<1>5. IsFiniteSet(LookedAt(G, L, 1 .. m, g, n))  BY <1>1, <1>4, FS_Subset
<1> QED  BY <1>1, <1>5, FS_CardinalityType

\* The next entry of g is one more.
LEMMA LookedNext ==
    ASSUME NEW m \in Nat, NEW G \in SUBSET (1 .. m), NEW L, NEW g \in G,
           NEW n \in 0 .. m - 1
    PROVE  Cardinality(LookedAt(G, L, 1 .. m, g, n + 1))
             = Cardinality(LookedAt(G, L, 1 .. m, g, n)) + 1
<1> DEFINE A == LookedAt(G, L, 1 .. m, g, n)
           B == LookedAt(G, L, 1 .. m, g, n + 1)
<1>1. ASSUME NEW p \in B, p # <<g, n + 1>> PROVE p \in A
  <2>1. p \in G \X (1 .. m) /\ p = <<p[1], p[2]>> /\ p[2] \in 1 .. m
    BY DEF LookedAt
  <2>2. CASE p[1] = g
    <3>1. p[2] <= n + 1 /\ p[2] # n + 1  BY <1>1, <2>1, <2>2 DEF LookedAt
    <3> QED  BY <2>1, <2>2, <3>1 DEF LookedAt
  <2>3. CASE p[1] # g  BY <2>1, <2>3 DEF LookedAt
  <2> QED  BY <2>2, <2>3
<1>2. ASSUME NEW p \in A PROVE p \in B
  <2>1. p \in G \X (1 .. m) /\ p[2] \in 1 .. m  BY DEF LookedAt
  <2> QED  BY <2>1 DEF LookedAt
<1>3. <<g, n + 1>> \in B /\ <<g, n + 1>> \notin A  BY DEF LookedAt
<1>4. B = A \cup {<<g, n + 1>>}  BY <1>1, <1>2, <1>3
<1>5. IsFiniteSet(A)  BY Looked
<1> HIDE DEF A, B
<1>6. Cardinality(A \cup {<<g, n + 1>>}) = Cardinality(A) + 1
  BY <1>3, <1>5, FS_AddElement
<1>7. Cardinality(B) = Cardinality(A) + 1  BY <1>4, <1>6
<1> QED  BY <1>7 DEF A, B

\* All of g is what it holds; nothing of a graph that was just met was looked at.
LEMMA LookedAll ==
    ASSUME NEW m \in Nat, NEW G \in SUBSET (1 .. m), NEW L, NEW g, NEW n
    PROVE  LookedAt(G, L, 1 .. m, g, L[g]) = LookedAt(G, L, 1 .. m, 0, n)
<1>1. ASSUME NEW p \in G \X (1 .. m)
      PROVE  (IF p[1] = g THEN L[g] ELSE L[p[1]]) = (IF p[1] = 0 THEN n ELSE L[p[1]])
  <2>1. p[1] \in G  BY <1>1
  <2>2. p[1] \in 1 .. m  BY <2>1
  <2>3. p[1] # 0  BY <2>2
  <2> QED  BY <2>3
<1> QED  BY <1>1, Zenon DEF LookedAt

LEMMA LookedNew ==
    ASSUME NEW m \in Nat, NEW G \in SUBSET (1 .. m), NEW L, NEW g \in (1 .. m) \ G, NEW n
    PROVE  LookedAt(G \cup {g}, L, 1 .. m, g, 0) = LookedAt(G, L, 1 .. m, 0, n)
<1>1. ASSUME NEW p \in LookedAt(G \cup {g}, L, 1 .. m, g, 0)
      PROVE  p \in LookedAt(G, L, 1 .. m, 0, n)
  <2>1. p \in (G \cup {g}) \X (1 .. m) /\ p[2] \in 1 .. m /\ p = <<p[1], p[2]>>
    BY DEF LookedAt
  <2>2. p[1] # g  BY <2>1 DEF LookedAt
  <2> QED  BY <2>1, <2>2 DEF LookedAt
<1>2. ASSUME NEW p \in LookedAt(G, L, 1 .. m, 0, n)
      PROVE  p \in LookedAt(G \cup {g}, L, 1 .. m, g, 0)
  <2>1. p \in G \X (1 .. m) /\ p[1] # 0 /\ p[1] # g  BY DEF LookedAt
  <2> QED  BY <2>1 DEF LookedAt
<1> QED  BY <1>1, <1>2

\* No more was looked at than there is.
LEMMA LookedSome ==
    ASSUME NEW m \in Nat, NEW G \in SUBSET (1 .. m), NEW F \in SUBSET G,
           NEW L \in [G -> 0 .. m], NEW g, NEW n \in Int, g \in F => n <= L[g]
    PROVE  Cardinality(LookedAt(F, L, 1 .. m, g, n))
             <= Cardinality(LookedAt(G, L, 1 .. m, 0, 0))
<1> DEFINE A == LookedAt(F, L, 1 .. m, g, n)
           B == LookedAt(G, L, 1 .. m, 0, 0)
<1>1. ASSUME NEW p \in A PROVE p \in B
  <2>1. p \in F \X (1 .. m) /\ p[1] \in F /\ p[2] \in 1 .. m /\ p[1] # 0  BY DEF LookedAt
  <2>2. L[p[1]] \in 0 .. m  BY <2>1
  <2>3. CASE p[1] = g
    <3>1. p[2] <= n  BY <2>1, <2>3 DEF LookedAt
    <3>2. p[2] <= L[p[1]]  BY <2>1, <2>2, <2>3, <3>1
    <3> QED  BY <2>1, <3>2 DEF LookedAt
  <2>4. CASE p[1] # g
    <3>1. p[2] <= L[p[1]]  BY <2>1, <2>4 DEF LookedAt
    <3> QED  BY <2>1, <3>1 DEF LookedAt
  <2> QED  BY <2>3, <2>4
<1>2. IsFiniteSet(B) /\ A \subseteq B  BY <1>1, Looked
<1> HIDE DEF A, B
<1>3. Cardinality(A) <= Cardinality(B)  BY <1>2, FS_Subset
<1> QED  BY <1>3 DEF A, B

\* The lists of a graph, and the numbers of entries in them.
LEMMA Lists ==
    ASSUME doc \in Docs, NEW g \in Graphs
    PROVE  /\ g \in Cells /\ Nodes[g] = Len(NodeList(g)) /\ Links[g] = Len(ConnectionList(g))
           /\ Nodes[g] \in 0 .. Len(doc) /\ Links[g] \in 0 .. Len(doc)
<1>1. \A c \in Cells : Len(doc[c].items) \in 0 .. Len(doc)
  <2> SUFFICES ASSUME NEW c \in Cells PROVE Len(doc[c].items) \in 0 .. Len(doc)
    OBVIOUS
  <2> DEFINE n == Len(doc[c].items)
             f == [i \in 1 .. n |-> doc[c].items[i]]
  <2>1. n \in Nat /\ Len(doc) \in Nat /\ Cells = 1 .. Len(doc)  BY Shape
  <2>2. \A i \in 1 .. n : doc[c].items[i] \in Cells  BY Shape
  <2>3. \A i, j \in 1 .. n : doc[c].items[i] = doc[c].items[j] => i = j
    <3>1. \A b, d \in Cells : \A i \in 1 .. Len(doc[b].items), j \in 1 .. Len(doc[d].items) :
             doc[b].items[i] = doc[d].items[j] => b = d /\ i = j
      BY Shape
    <3> QED  BY <3>1, Zenon
  <2>4. f \in Injection(1 .. n, Cells)
    <3>1. f \in [1 .. n -> Cells]  BY <2>2
    <3>2. \A i, j \in 1 .. n : f[i] = f[j] => i = j  BY <2>3
    <3> HIDE DEF f, n
    <3> QED  BY <3>1, <3>2 DEF Injection, IsInjective
  <2> HIDE DEF f
  <2>5. Cardinality(1 .. n) <= Cardinality(Cells)  BY <2>4, Shape, FS_Injection
  <2> HIDE DEF n
  <2>6. Cardinality(1 .. n) = n
    <3>1. Cardinality(1 .. n) = IF 1 > n THEN 0 ELSE n - 1 + 1  BY <2>1, FS_Interval
    <3> QED  BY <2>1, <3>1
  <2>7. Cardinality(Cells) = Len(doc)
    <3>1. Cardinality(Cells) = IF 1 > Len(doc) THEN 0 ELSE Len(doc) - 1 + 1
      BY <2>1, FS_Interval
    <3> QED  BY <2>1, <3>1
  <2>8. n \in 0 .. Len(doc)  BY <2>1, <2>5, <2>6, <2>7
  <2> QED  BY <2>8 DEF n
<1>2. g \in Cells /\ doc[g].nodes \in Cells /\ doc[g].connections \in Cells
  <2>1. IsDocument(doc)  BY ValidationAssumption
  <2>2. Cells = 1 .. Len(doc)  BY Shape
  <2>3. g \in Cells /\ doc[g].nodes # 0 /\ doc[g].connections # 0
    BY DEF Graphs, IsGraph
  <2>4. doc[g].nodes \in Cells \cup {0} /\ doc[g].connections \in Cells \cup {0}
    BY <2>1, <2>2, <2>3 DEF IsDocument
  <2> QED  BY <2>3, <2>4
<1>3. Len(NodeList(g)) \in 0 .. Len(doc) /\ Len(ConnectionList(g)) \in 0 .. Len(doc)
  BY <1>1, <1>2 DEF NodeList, ConnectionList
<1> QED  BY <1>2, <1>3 DEF Nodes, Links

LEMMA GraphsOf ==
    ASSUME doc \in Docs
    PROVE  /\ Len(doc) \in Nat /\ Cells = 1 .. Len(doc) /\ Graphs \subseteq Cells
           /\ Nodes \in [Graphs -> 0 .. Len(doc)] /\ Links \in [Graphs -> 0 .. Len(doc)]
           /\ GraphsIn(Cells) = Graphs
<1>1. \A g \in Graphs : Nodes[g] \in 0 .. Len(doc) /\ Links[g] \in 0 .. Len(doc)
  BY Lists
<1>2. Nodes \in [Graphs -> 0 .. Len(doc)]  BY <1>1 DEF Nodes
<1>3. Links \in [Graphs -> 0 .. Len(doc)]  BY <1>1 DEF Links
<1>4. Graphs \subseteq Cells /\ GraphsIn(Cells) = Graphs  BY DEF Graphs, GraphsIn
<1> QED  BY <1>2, <1>3, <1>4, Shape

\* The names of a graph are as many as its nodes when no two are the same.
LEMMA DistinctNames ==
    ASSUME NEW f, NEW n \in Nat
    PROVE  Cardinality({f[i] : i \in 1 .. n}) = n
             <=> \A i, j \in 1 .. n : f[i] = f[j] => i = j
<1> DEFINE T == {f[i] : i \in 1 .. n}
           h == [i \in 1 .. n |-> f[i]]
<1>1. h \in Surjection(1 .. n, T)
  <2>1. h \in [1 .. n -> T]  OBVIOUS
  <2>2. \A t \in T : \E i \in 1 .. n : h[i] = t  OBVIOUS
  <2> HIDE DEF h, T
  <2> QED  BY <2>1, <2>2 DEF Surjection
<1>2. IsFiniteSet(1 .. n) /\ Cardinality(1 .. n) = n
  <2>1. IsFiniteSet(1 .. n) /\ Cardinality(1 .. n) = IF 1 > n THEN 0 ELSE n - 1 + 1
    BY FS_Interval
  <2> QED  BY <2>1
<1>3. Cardinality(T) = Cardinality(1 .. n) <=> h \in Injection(1 .. n, T)
  <2> HIDE DEF h, T
  <2> QED  BY <1>1, <1>2, FS_Surjection
<1>4. h \in Injection(1 .. n, T) <=> \A i, j \in 1 .. n : f[i] = f[j] => i = j
  <2>1. h \in [1 .. n -> T] /\ \A i \in 1 .. n : h[i] = f[i]  OBVIOUS
  <2> HIDE DEF h, T
  <2> QED  BY <2>1 DEF Injection, IsInjective
<1> QED  BY <1>2, <1>3, <1>4

\* What a graph of the document must be, by position.
LEMMA SoundGraph ==
    ASSUME doc \in Docs, NEW g \in Graphs
    PROVE  GraphWellFormed(g) <=> GraphSound(g)
<1> DEFINE n == Len(NodeList(g))
           name == [i \in 1 .. n |-> doc[NodeList(g)[i]].name]
           known == {doc[NodeList(g)[i]].name : i \in 1 .. n}
<1>1. n \in Nat /\ Nodes[g] = n /\ Links[g] = Len(ConnectionList(g))
  BY Lists
<1>2. NamesUpTo(g, Nodes[g]) = known  BY <1>1 DEF NamesUpTo
<1>3. known = {name[i] : i \in 1 .. n}  OBVIOUS
<1>4. \A i \in 1 .. n : name[i] = doc[NodeList(g)[i]].name  OBVIOUS
<1> HIDE DEF name, known
<1>5. Cardinality(known) = n
        <=> \A i, j \in 1 .. n :
               doc[NodeList(g)[i]].name = doc[NodeList(g)[j]].name => i = j
  BY <1>1, <1>3, <1>4, DistinctNames
<1>6. (\A i \in 1 .. Len(ConnectionList(g)) :
          LET c == doc[ConnectionList(g)[i]]
          IN  c.kind = "object" /\ c.ports /\ {c.from, c.to} \subseteq known)
      <=> LinksSound(g, Links[g])
  BY <1>1, <1>2, Zenon DEF LinksSound
<1>7. GraphWellFormed(g)
      <=> /\ \A i \in 1 .. n :
                LET c == doc[NodeList(g)[i]]
                IN  c.kind = "object" /\ c.name # Bad /\ c.typed
          /\ Cardinality(known) = n
          /\ LinksSound(g, Links[g])
  BY <1>6, Zenon DEF GraphWellFormed, known
<1>8. NodesSound(g, Nodes[g])
      <=> /\ \A i \in 1 .. n :
                LET c == doc[NodeList(g)[i]]
                IN  c.kind = "object" /\ c.name # Bad /\ c.typed
          /\ \A i, j \in 1 .. n :
                doc[NodeList(g)[i]].name = doc[NodeList(g)[j]].name => i = j
  BY <1>1, Zenon DEF NodesSound
<1> QED  BY <1>5, <1>7, <1>8, Zenon DEF GraphSound

\* A well-formed document, in the terms of the account.
LEMMA WellFormedMeans ==
    ASSUME doc \in Docs
    PROVE  WellFormed
           <=> /\ Graphs # {} /\ \A g \in Graphs : GraphSound(g)
               /\ Cardinality(ContainersIn(Cells)) <= MaxContainers
               /\ Cardinality(LookedAt(Graphs, Nodes, Cells, 0, 0)) <= MaxNodes
               /\ Cardinality(LookedAt(Graphs, Links, Cells, 0, 0)) <= MaxConnections
<1>1. Occurrences(NodeList) = LookedAt(Graphs, Nodes, Cells, 0, 0)
  <2>1. ASSUME NEW p \in Occurrences(NodeList)
        PROVE  p \in LookedAt(Graphs, Nodes, Cells, 0, 0)
    <3>1. PICK g \in Graphs : \E i \in 1 .. Len(NodeList(g)) : p = <<g, i>>
      BY DEF Occurrences
    <3>2. PICK i \in 1 .. Len(NodeList(g)) : p = <<g, i>>  BY <3>1
    <3>3. Nodes[g] = Len(NodeList(g)) /\ Nodes[g] \in 0 .. Len(doc) /\ g \in Cells
      BY Lists
    <3>4. i \in Cells /\ g # 0 /\ i <= Nodes[g]  BY <3>3, GraphsOf
    <3> QED  BY <3>2, <3>4 DEF LookedAt
  <2>2. ASSUME NEW p \in LookedAt(Graphs, Nodes, Cells, 0, 0)
        PROVE  p \in Occurrences(NodeList)
    <3>1. PICK g \in Graphs : \E i \in Cells : p = <<g, i>>  BY DEF LookedAt
    <3>2. PICK i \in Cells : p = <<g, i>>  BY <3>1
    <3>3. Nodes[g] = Len(NodeList(g)) /\ Nodes[g] \in 0 .. Len(doc) /\ g # 0
      BY Lists, GraphsOf
    <3>4. i <= Nodes[g]  BY <3>2, <3>3 DEF LookedAt
    <3>5. i \in 1 .. Len(NodeList(g))  BY <3>3, <3>4, GraphsOf
    <3> QED  BY <3>2, <3>5 DEF Occurrences
  <2> QED  BY <2>1, <2>2
<1>2. Occurrences(ConnectionList) = LookedAt(Graphs, Links, Cells, 0, 0)
  <2>1. ASSUME NEW p \in Occurrences(ConnectionList)
        PROVE  p \in LookedAt(Graphs, Links, Cells, 0, 0)
    <3>1. PICK g \in Graphs : \E i \in 1 .. Len(ConnectionList(g)) : p = <<g, i>>
      BY DEF Occurrences
    <3>2. PICK i \in 1 .. Len(ConnectionList(g)) : p = <<g, i>>  BY <3>1
    <3>3. Links[g] = Len(ConnectionList(g)) /\ Links[g] \in 0 .. Len(doc) /\ g \in Cells
      BY Lists
    <3>4. i \in Cells /\ g # 0 /\ i <= Links[g]  BY <3>3, GraphsOf
    <3> QED  BY <3>2, <3>4 DEF LookedAt
  <2>2. ASSUME NEW p \in LookedAt(Graphs, Links, Cells, 0, 0)
        PROVE  p \in Occurrences(ConnectionList)
    <3>1. PICK g \in Graphs : \E i \in Cells : p = <<g, i>>  BY DEF LookedAt
    <3>2. PICK i \in Cells : p = <<g, i>>  BY <3>1
    <3>3. Links[g] = Len(ConnectionList(g)) /\ Links[g] \in 0 .. Len(doc) /\ g # 0
      BY Lists, GraphsOf
    <3>4. i <= Links[g]  BY <3>2, <3>3 DEF LookedAt
    <3>5. i \in 1 .. Len(ConnectionList(g))  BY <3>3, <3>4, GraphsOf
    <3> QED  BY <3>2, <3>5 DEF Occurrences
  <2> QED  BY <2>1, <2>2
<1>3. ContainersIn(Cells) = {c \in Cells : doc[c].kind # "scalar"}
  BY DEF ContainersIn
<1>4. (\A g \in Graphs : GraphWellFormed(g)) <=> (\A g \in Graphs : GraphSound(g))
  BY SoundGraph
<1> QED  BY <1>1, <1>2, <1>3, <1>4, Zenon DEF WellFormed

\* The document does not change, and neither does what it should be.
LEMMA Same ==
    ASSUME doc' = doc
    PROVE  /\ Cells' = Cells /\ Graphs' = Graphs /\ Nodes' = Nodes /\ Links' = Links
           /\ WellFormed' <=> WellFormed
<1>1. Cells' = Cells /\ Graphs' = Graphs  BY DEF Cells, Graphs
<1>2. Nodes' = Nodes /\ Links' = Links
  BY <1>1 DEF Nodes, Links, NodeList, ConnectionList
<1>3. WellFormed' <=> WellFormed
  BY <1>1 DEF WellFormed, Occurrences, GraphWellFormed, NodeList, ConnectionList, Cells
<1> QED  BY <1>1, <1>2, <1>3

LEMMA SameAccount ==
    ASSUME doc' = doc
    PROVE  /\ \A S : GraphsIn(S)' = GraphsIn(S) /\ ContainersIn(S)' = ContainersIn(S)
           /\ \A g, n : /\ NamesUpTo(g, n)' = NamesUpTo(g, n)
                        /\ NodesSound(g, n)' <=> NodesSound(g, n)
                        /\ LinksSound(g, n)' <=> LinksSound(g, n)
           /\ \A g : GraphSound(g)' <=> GraphSound(g)
<1>1. \A S : GraphsIn(S)' = GraphsIn(S) /\ ContainersIn(S)' = ContainersIn(S)
  BY DEF GraphsIn, ContainersIn
<1>2. \A g, n : NamesUpTo(g, n)' = NamesUpTo(g, n)
  BY DEF NamesUpTo, NodeList
<1>3. \A g, n : NodesSound(g, n)' <=> NodesSound(g, n)
  BY DEF NodesSound, NodeList
<1>4. Nodes' = Nodes /\ Links' = Links  BY Same
<1>5. \A g, n : LinksSound(g, n)' <=> LinksSound(g, n)
  BY <1>4 DEF LinksSound, NamesUpTo, NodeList, ConnectionList
<1>6. \A g : GraphSound(g)' <=> GraphSound(g)
  BY <1>3, <1>4, <1>5 DEF GraphSound
<1> QED  BY <1>1, <1>2, <1>3, <1>5, <1>6

LEMMA SameTraversal ==
    ASSUME doc' = doc, stack' = stack, NEW V, Traversal(V)
    PROVE  Traversal(V)'
<1>1. Cells' = Cells /\ Waiting' = Waiting  BY DEF Cells, Waiting
<1>2. /\ V \subseteq Cells' /\ stack' \in Seq(Cells')
      /\ \A i, j \in 1 .. Len(stack') : stack'[i] = stack'[j] => i = j
      /\ Waiting' \cap V = {} /\ 1 \in V \cup Waiting'
  BY <1>1 DEF Traversal
<1>3. \A c \in V : \A i \in 1 .. Len(doc'[c].items) : doc'[c].items[i] \in V \cup Waiting'
  BY <1>1 DEF Traversal
<1>4. \A x \in (V \cup Waiting') \ {1} :
         \E c \in V : \E i \in 1 .. Len(doc'[c].items) : doc'[c].items[i] = x
  BY <1>1 DEF Traversal
<1> QED  BY <1>2, <1>3, <1>4 DEF Traversal

\* What was looked at is part of what the document holds.
LEMMA WithinDocument ==
    ASSUME doc \in Docs, NEW V \in SUBSET Cells
    PROVE  /\ Cardinality(ContainersIn(V)) \in Nat
           /\ Cardinality(ContainersIn(V)) <= Cardinality(ContainersIn(Cells))
           /\ \A g, n : n \in Int /\ (g \in GraphsIn(V) => n <= Nodes[g]) =>
                 Cardinality(LookedAt(GraphsIn(V), Nodes, Cells, g, n))
                   <= Cardinality(LookedAt(Graphs, Nodes, Cells, 0, 0))
           /\ \A g, n : n \in Int /\ (g \in GraphsIn(V) => n <= Links[g]) =>
                 Cardinality(LookedAt(GraphsIn(V), Links, Cells, g, n))
                   <= Cardinality(LookedAt(Graphs, Links, Cells, 0, 0))
           /\ \A g, n : /\ Cardinality(LookedAt(GraphsIn(V), Nodes, Cells, g, n)) \in Nat
                        /\ Cardinality(LookedAt(GraphsIn(V), Links, Cells, g, n)) \in Nat
           /\ Cardinality(LookedAt(Graphs, Nodes, Cells, 0, 0)) \in Nat
           /\ Cardinality(LookedAt(Graphs, Links, Cells, 0, 0)) \in Nat
           /\ Cardinality(ContainersIn(Cells)) \in Nat
<1> DEFINE m == Len(doc)
<1>1. m \in Nat /\ Cells = 1 .. m /\ Graphs \in SUBSET (1 .. m)
      /\ Nodes \in [Graphs -> 0 .. m] /\ Links \in [Graphs -> 0 .. m]
  BY GraphsOf
<1>2. GraphsIn(V) \in SUBSET Graphs /\ GraphsIn(V) \in SUBSET (1 .. m)
  BY <1>1 DEF GraphsIn, Graphs
<1>3. /\ IsFiniteSet(ContainersIn(Cells)) /\ IsFiniteSet(ContainersIn(V))
      /\ Cardinality(ContainersIn(V)) <= Cardinality(ContainersIn(Cells))
  <2>1. ContainersIn(V) \subseteq ContainersIn(Cells) /\ ContainersIn(Cells) \subseteq Cells
    BY DEF ContainersIn
  <2>2. IsFiniteSet(ContainersIn(Cells))  BY <2>1, Shape, FS_Subset
  <2> QED  BY <2>1, <2>2, FS_Subset
<1> HIDE DEF m
<1>4. ASSUME NEW g, NEW n \in Int, g \in GraphsIn(V) => n <= Nodes[g]
      PROVE  Cardinality(LookedAt(GraphsIn(V), Nodes, Cells, g, n))
               <= Cardinality(LookedAt(Graphs, Nodes, Cells, 0, 0))
  BY <1>1, <1>2, <1>4, LookedSome
<1>5. ASSUME NEW g, NEW n \in Int, g \in GraphsIn(V) => n <= Links[g]
      PROVE  Cardinality(LookedAt(GraphsIn(V), Links, Cells, g, n))
               <= Cardinality(LookedAt(Graphs, Links, Cells, 0, 0))
  BY <1>1, <1>2, <1>5, LookedSome
<1>6. \A G \in SUBSET (1 .. m) : \A L, g, n :
         Cardinality(LookedAt(G, L, Cells, g, n)) \in Nat
  BY <1>1, Looked
<1>7. Cardinality(ContainersIn(V)) \in Nat /\ Cardinality(ContainersIn(Cells)) \in Nat
  BY <1>3, FS_CardinalityType
<1> QED  BY <1>1, <1>2, <1>3, <1>4, <1>5, <1>6, <1>7

\* A step inside a graph: the document is judged as before, and the account of
\* the cells that were visited is still complete.
LEMMA Continue ==
    ASSUME Exact, doc' = doc, NEW V \in SUBSET Cells, Account(V)', invalid' \in BOOLEAN,
           invalid' => ~ WellFormed, pc' # "end"
    PROVE  Exact'
<1>1. Cells' = Cells /\ (WellFormed' <=> WellFormed)  BY Same
<1>2. doc \in Docs  BY DEF Exact
<1>3. \E U \in SUBSET Cells' : Account(U)'  BY <1>1
<1> QED  BY <1>1, <1>2, <1>3 DEF Exact

-----------------------------------------------------------------------------
(* The steps of the walk.                                                  *)

LEMMA ExactNode ==
    ASSUME Exact, CheckNode
    PROVE  Exact'
<1>1. doc \in Docs /\ invalid \in BOOLEAN /\ (invalid => ~ WellFormed)
  BY DEF Exact
<1>2. /\ pc = "nodes" /\ index <= Len(NodeList(graph)) /\ nodes' = nodes + 1
      /\ doc' = doc /\ stack' = stack /\ graph' = graph /\ seen' = seen
      /\ connections' = connections /\ graphs' = graphs
  BY DEF CheckNode
<1>3. PICK V \in SUBSET Cells : Account(V)  BY <1>2 DEF Exact
<1>4. /\ graph \in GraphsIn(V) /\ graph \in Graphs /\ graph \in Cells
      /\ index \in 1 .. Nodes[graph] /\ Nodes[graph] \in 0 .. Len(doc)
      /\ Links[graph] \in 0 .. Len(doc) /\ Len(doc) \in Nat
  <2>1. graph \in GraphsIn(V) /\ index \in 1 .. Nodes[graph] + 1
    BY <1>2, <1>3 DEF Account, Position
  <2>2. graph \in Graphs  BY <2>1 DEF GraphsIn, Graphs
  <2>3. /\ graph \in Cells /\ Nodes[graph] = Len(NodeList(graph))
        /\ Nodes[graph] \in 0 .. Len(doc) /\ Links[graph] \in 0 .. Len(doc)
    BY <1>1, <2>2, Lists
  <2> QED  BY <1>1, <1>2, <2>1, <2>2, <2>3, GraphsOf
<1>5. /\ GraphsIn(V)' = GraphsIn(V) /\ ContainersIn(V)' = ContainersIn(V)
      /\ Cells' = Cells /\ Nodes' = Nodes /\ Links' = Links
      /\ \A g : GraphSound(g)' <=> GraphSound(g)
      /\ \A g, n : /\ NamesUpTo(g, n)' = NamesUpTo(g, n)
                   /\ NodesSound(g, n)' <=> NodesSound(g, n)
  BY <1>2, Same, SameAccount
<1>6. Traversal(V)'  BY <1>2, <1>3, SameTraversal DEF Account
<1>7. /\ seen' = Cardinality(ContainersIn(V)') /\ seen' <= MaxContainers
      /\ graphs' \in Nat /\ (graphs' = 0 <=> GraphsIn(V)' = {})
  BY <1>2, <1>3, <1>5 DEF Account
<1> DEFINE counted(n) == Cardinality(LookedAt(GraphsIn(V), Nodes, Cells, graph, n))
<1>8. counted(index) = counted(index - 1) + 1
  <2> DEFINE G == GraphsIn(V)
             m == Len(doc)
             k == index - 1
  <2>1. m \in Nat /\ Cells = 1 .. m /\ G \in SUBSET (1 .. m) /\ graph \in G
    BY <1>1, <1>4, GraphsOf DEF GraphsIn
  <2>2. k \in 0 .. m - 1 /\ k + 1 = index  BY <1>4
  <2> HIDE DEF G, m, k
  <2>3. Cardinality(LookedAt(G, Nodes, 1 .. m, graph, k + 1))
          = Cardinality(LookedAt(G, Nodes, 1 .. m, graph, k)) + 1
    BY <2>1, <2>2, LookedNext
  <2> QED  BY <2>1, <2>2, <2>3 DEF G, k
<1>9. ~ invalid => /\ nodes = counted(index - 1) /\ nodes' = counted(index)
                   /\ nodes' \in Nat
  <2>1. ASSUME ~ invalid PROVE nodes = counted(index - 1)
    BY <1>2, <1>3, <2>1 DEF Account, Clean, NodesSeen
  <2>2. counted(index) \in Nat  BY <1>1, WithinDocument
  <2> HIDE DEF counted
  <2> QED  BY <1>2, <1>8, <2>1, <2>2
<1>10. CASE Over(nodes', MaxNodes)
  <2>1. invalid' = TRUE /\ pc' = "connections" /\ index' = 1
    BY <1>10 DEF CheckNode
  <2>2. ~ WellFormed
    <3>1. CASE invalid  BY <1>1, <3>1
    <3>2. CASE ~ invalid
      <4>1. nodes' <= Cardinality(LookedAt(Graphs, Nodes, Cells, 0, 0))
        BY <1>1, <1>4, <1>9, <3>2, WithinDocument
      <4>2. Cardinality(LookedAt(Graphs, Nodes, Cells, 0, 0)) \in Nat
        BY <1>1, WithinDocument
      <4>3. nodes' > MaxNodes /\ nodes' \in Nat /\ MaxNodes \in Nat
        BY <1>9, <1>10, <3>2, ValidationAssumption DEF Over
      <4>4. ~ (Cardinality(LookedAt(Graphs, Nodes, Cells, 0, 0)) <= MaxNodes)
        BY <4>1, <4>2, <4>3
      <4> QED  BY <1>1, <4>4, WellFormedMeans
    <3> QED  BY <3>1, <3>2
  <2>3. Position(V)'
    <3>1. graph' \in GraphsIn(V)' /\ index' \in 1 .. Links'[graph'] + 1
      BY <1>2, <1>4, <1>5, <2>1
    <3> QED  BY <2>1, <3>1 DEF Position
  <2>4. Account(V)'  BY <1>6, <1>7, <2>1, <2>3 DEF Account
  <2> QED  BY <1>2, <2>1, <2>2, <2>4, Continue
<1>11. CASE ~ Over(nodes', MaxNodes)
  <2> DEFINE list == NodeList(graph)
             c == doc[list[index]]
             named == c.kind = "object" /\ c.name # Bad /\ c.name \notin names
  <2>1. /\ names' = IF named THEN names \cup {c.name} ELSE names
        /\ invalid' = (invalid \/ ~ named \/ ~ c.typed)
        /\ index' = index + 1 /\ pc' = pc
    BY <1>11 DEF CheckNode
  <2>2. invalid' \in BOOLEAN  BY <2>1, Zenon
  <2>3. index \in Nat /\ index' \in 1 .. Nodes[graph] + 1 /\ index' - 1 = index
    BY <1>4, <2>1
  <2>4. Position(V)'
    <3>1. graph' \in GraphsIn(V)' /\ index' \in 1 .. Nodes'[graph'] + 1
      BY <1>2, <1>4, <1>5, <2>3
    <3>2. pc' = "nodes"  BY <1>2, <2>1
    <3> QED  BY <3>1, <3>2 DEF Position
  <2>5. ASSUME ~ invalid
        PROVE  /\ names = {doc[list[i]].name : i \in 1 .. index - 1}
               /\ \A i \in 1 .. index - 1 :
                     LET d == doc[list[i]] IN d.kind = "object" /\ d.name # Bad /\ d.typed
               /\ \A i, j \in 1 .. index - 1 : doc[list[i]].name = doc[list[j]].name => i = j
    BY <1>2, <1>3, <2>5 DEF Account, Clean, NamesUpTo, NodesSound
  <2>6. \A i \in 1 .. index : i \in 1 .. index - 1 \/ i = index
    BY <2>3
  <2>7. \A i \in 1 .. index - 1 : i \in 1 .. index /\ i # index  BY <2>3
  <2>8. index \in 1 .. index  BY <1>4
  <2> HIDE DEF list
  <2>9. ASSUME ~ invalid, named, c.typed
        PROVE  /\ names' = {doc[list[i]].name : i \in 1 .. index}
               /\ \A i \in 1 .. index :
                     LET d == doc[list[i]] IN d.kind = "object" /\ d.name # Bad /\ d.typed
               /\ \A i, j \in 1 .. index : doc[list[i]].name = doc[list[j]].name => i = j
    <3>1. names' = names \cup {c.name}  BY <2>1, <2>9
    <3>2. {doc[list[i]].name : i \in 1 .. index}
             = {doc[list[i]].name : i \in 1 .. index - 1} \cup {c.name}
      BY <2>6, <2>7, <2>8
    <3>3. names' = {doc[list[i]].name : i \in 1 .. index}  BY <2>5, <2>9, <3>1, <3>2
    <3>4. \A i \in 1 .. index :
             LET d == doc[list[i]] IN d.kind = "object" /\ d.name # Bad /\ d.typed
      BY <2>5, <2>6, <2>9, Zenon
    <3>5. \A i \in 1 .. index - 1 : doc[list[i]].name # c.name
      BY <2>5, <2>9
    <3>6. \A i, j \in 1 .. index : doc[list[i]].name = doc[list[j]].name => i = j
      <4> SUFFICES ASSUME NEW i \in 1 .. index, NEW j \in 1 .. index,
                          doc[list[i]].name = doc[list[j]].name
                   PROVE  i = j
        OBVIOUS
      <4>1. CASE i = index
        <5>1. CASE j = index  BY <4>1, <5>1
        <5>2. CASE j \in 1 .. index - 1
          BY <3>5, <4>1, <5>2
        <5> QED  BY <2>6, <5>1, <5>2
      <4>2. CASE i \in 1 .. index - 1
        <5>1. CASE j = index  BY <3>5, <4>2, <5>1
        <5>2. CASE j \in 1 .. index - 1
          <6>1. \A k, l \in 1 .. index - 1 : doc[list[k]].name = doc[list[l]].name => k = l
            BY <2>5, <2>9, Zenon
          <6> QED  BY <4>2, <5>2, <6>1, Zenon
        <5> QED  BY <2>6, <5>1, <5>2
      <4> QED  BY <2>6, <4>1, <4>2
    <3> QED  BY <3>3, <3>4, <3>6
  <2>10. ASSUME ~ invalid' PROVE Clean(V)'
    <3>1. ~ invalid /\ named /\ c.typed  BY <2>1, <2>10, Zenon
    <3>2. pc' = "nodes"  BY <1>2, <2>1
    <3>3. NodesSeen(V)' = LookedAt(GraphsIn(V), Nodes, Cells, graph, index)
      BY <1>2, <1>5, <2>3, <3>2 DEF NodesSeen
    <3>4. nodes' = Cardinality(NodesSeen(V)') /\ nodes' <= MaxNodes
      BY <1>9, <1>11, <3>1, <3>3, ValidationAssumption DEF Over
    <3>5. LinksSeen(V)' = LinksSeen(V)
      BY <1>2, <1>5, <3>2 DEF LinksSeen
    <3>6. connections' = Cardinality(LinksSeen(V)') /\ connections' <= MaxConnections
      BY <1>2, <1>3, <3>1, <3>5 DEF Account, Clean
    <3>7. \A g \in GraphsIn(V)' : pc' = "pop" \/ g # graph' => GraphSound(g)'
      <4>1. \A g \in GraphsIn(V) : g # graph => GraphSound(g)
        BY <1>2, <1>3, <3>1 DEF Account, Clean
      <4> QED  BY <1>2, <1>5, <3>2, <4>1
    <3>8. names' = NamesUpTo(graph, index) /\ NodesSound(graph, index)
      BY <2>9, <3>1, Zenon DEF NamesUpTo, NodesSound, list
    <3>9. names' = NamesUpTo(graph, index - 1)' /\ NodesSound(graph, index - 1)'
      <4>1. NamesUpTo(graph, index - 1)' = NamesUpTo(graph, index)
        BY <1>2, <2>3 DEF NamesUpTo, NodeList
      <4>2. NodesSound(graph, index - 1)' <=> NodesSound(graph, index)
        BY <1>2, <2>3 DEF NodesSound, NodeList
      <4> QED  BY <3>8, <4>1, <4>2
    <3> QED  BY <3>2, <3>4, <3>6, <3>7, <3>9 DEF Clean
  <2>11. Account(V)'  BY <1>6, <1>7, <2>4, <2>10 DEF Account
  <2>12. ASSUME invalid' PROVE ~ WellFormed
    <3>1. CASE invalid  BY <1>1, <3>1
    <3>2. CASE ~ invalid
      <4>1. ~ named \/ ~ c.typed  BY <2>1, <2>12, <3>2, Zenon
      <4>2. SUFFICES ASSUME WellFormed PROVE FALSE  OBVIOUS
      <4>3. NodesSound(graph, Nodes[graph])
        BY <1>1, <1>4, <4>2, WellFormedMeans DEF GraphSound
      <4>4. index \in 1 .. Nodes[graph] /\ \A i \in 1 .. index - 1 :
               i \in 1 .. Nodes[graph] /\ i # index
        BY <1>4
      <4>5. c.kind = "object" /\ c.name # Bad /\ c.typed
        BY <4>3, <4>4, Zenon DEF NodesSound, list
      <4>6. c.name \in names  BY <4>1, <4>5, Zenon
      <4>7. PICK i \in 1 .. index - 1 : doc[list[i]].name = c.name
        BY <2>5, <3>2, <4>6
      <4>8. i = index  BY <4>3, <4>4, <4>7, Zenon DEF NodesSound, list
      <4> QED  BY <4>4, <4>8
    <3> QED  BY <3>1, <3>2
  <2> QED  BY <1>2, <2>1, <2>2, <2>11, <2>12, Continue
<1> QED  BY <1>10, <1>11

LEMMA ExactConnection ==
    ASSUME Exact, CheckConnection
    PROVE  Exact'
<1>1. doc \in Docs /\ invalid \in BOOLEAN /\ (invalid => ~ WellFormed)
  BY DEF Exact
<1>2. /\ pc = "connections" /\ index <= Len(ConnectionList(graph))
      /\ connections' = connections + 1
      /\ doc' = doc /\ stack' = stack /\ graph' = graph /\ seen' = seen
      /\ nodes' = nodes /\ names' = names /\ graphs' = graphs
  BY DEF CheckConnection
<1>3. PICK V \in SUBSET Cells : Account(V)  BY <1>2 DEF Exact
<1>4. /\ graph \in GraphsIn(V) /\ graph \in Graphs /\ graph \in Cells
      /\ index \in 1 .. Links[graph] /\ Links[graph] \in 0 .. Len(doc)
      /\ Nodes[graph] \in 0 .. Len(doc) /\ Len(doc) \in Nat
  <2>1. graph \in GraphsIn(V) /\ index \in 1 .. Links[graph] + 1
    BY <1>2, <1>3 DEF Account, Position
  <2>2. graph \in Graphs  BY <2>1 DEF GraphsIn, Graphs
  <2>3. /\ graph \in Cells /\ Links[graph] = Len(ConnectionList(graph))
        /\ Nodes[graph] \in 0 .. Len(doc) /\ Links[graph] \in 0 .. Len(doc)
    BY <1>1, <2>2, Lists
  <2> QED  BY <1>1, <1>2, <2>1, <2>2, <2>3, GraphsOf
<1>5. /\ GraphsIn(V)' = GraphsIn(V) /\ ContainersIn(V)' = ContainersIn(V)
      /\ Cells' = Cells /\ Nodes' = Nodes /\ Links' = Links
      /\ \A g : GraphSound(g)' <=> GraphSound(g)
  BY <1>2, Same, SameAccount
<1>6. Traversal(V)'  BY <1>2, <1>3, SameTraversal DEF Account
<1>7. /\ seen' = Cardinality(ContainersIn(V)') /\ seen' <= MaxContainers
      /\ graphs' \in Nat /\ (graphs' = 0 <=> GraphsIn(V)' = {})
  BY <1>2, <1>3, <1>5 DEF Account
<1> DEFINE counted(n) == Cardinality(LookedAt(GraphsIn(V), Links, Cells, graph, n))
<1>8. counted(index) = counted(index - 1) + 1
  <2> DEFINE G == GraphsIn(V)
             m == Len(doc)
             k == index - 1
  <2>1. m \in Nat /\ Cells = 1 .. m /\ G \in SUBSET (1 .. m) /\ graph \in G
    BY <1>1, <1>4, GraphsOf DEF GraphsIn
  <2>2. k \in 0 .. m - 1 /\ k + 1 = index  BY <1>4
  <2> HIDE DEF G, m, k
  <2>3. Cardinality(LookedAt(G, Links, 1 .. m, graph, k + 1))
          = Cardinality(LookedAt(G, Links, 1 .. m, graph, k)) + 1
    BY <2>1, <2>2, LookedNext
  <2> QED  BY <2>1, <2>2, <2>3 DEF G, k
<1>9. ~ invalid => /\ connections = counted(index - 1) /\ connections' = counted(index)
                   /\ connections' \in Nat
  <2>1. ASSUME ~ invalid PROVE connections = counted(index - 1)
    BY <1>2, <1>3, <2>1 DEF Account, Clean, LinksSeen
  <2>2. counted(index) \in Nat  BY <1>1, WithinDocument
  <2> HIDE DEF counted
  <2> QED  BY <1>2, <1>8, <2>1, <2>2
<1>10. CASE Over(connections', MaxConnections)
  <2>1. invalid' = TRUE /\ pc' = "pop"
    BY <1>10 DEF CheckConnection
  <2>2. ~ WellFormed
    <3>1. CASE invalid  BY <1>1, <3>1
    <3>2. CASE ~ invalid
      <4>1. connections' <= Cardinality(LookedAt(Graphs, Links, Cells, 0, 0))
        BY <1>1, <1>4, <1>9, <3>2, WithinDocument
      <4>2. Cardinality(LookedAt(Graphs, Links, Cells, 0, 0)) \in Nat
        BY <1>1, WithinDocument
      <4>3. connections' > MaxConnections /\ connections' \in Nat /\ MaxConnections \in Nat
        BY <1>9, <1>10, <3>2, ValidationAssumption DEF Over
      <4>4. ~ (Cardinality(LookedAt(Graphs, Links, Cells, 0, 0)) <= MaxConnections)
        BY <4>1, <4>2, <4>3
      <4> QED  BY <1>1, <4>4, WellFormedMeans
    <3> QED  BY <3>1, <3>2
  <2>3. Position(V)'  BY <2>1 DEF Position
  <2>4. Account(V)'  BY <1>6, <1>7, <2>1, <2>3 DEF Account
  <2> QED  BY <1>2, <2>1, <2>2, <2>4, Continue
<1>11. CASE ~ Over(connections', MaxConnections)
  <2> DEFINE c == doc[ConnectionList(graph)[index]]
  <2>1. /\ invalid' = (invalid \/ ~ Linked(c))
        /\ index' = index + 1 /\ pc' = pc
    BY <1>11 DEF CheckConnection
  <2>2. invalid' \in BOOLEAN  BY <2>1, Zenon
  <2>3. index \in Nat /\ index' \in 1 .. Links[graph] + 1 /\ index' - 1 = index
    BY <1>4, <2>1
  <2>4. Position(V)'
    <3>1. graph' \in GraphsIn(V)' /\ index' \in 1 .. Links'[graph'] + 1
      BY <1>2, <1>4, <1>5, <2>3
    <3>2. pc' = "connections"  BY <1>2, <2>1
    <3> QED  BY <3>1, <3>2 DEF Position
  <2>5. ASSUME ~ invalid
        PROVE  /\ names = NamesUpTo(graph, Nodes[graph])
               /\ NodesSound(graph, Nodes[graph]) /\ LinksSound(graph, index - 1)
    BY <1>2, <1>3, <2>5 DEF Account, Clean
  <2>6. index \in 1 .. Links[graph] /\ \A i \in 1 .. index : i \in 1 .. index - 1 \/ i = index
    BY <1>4
  <2>7. ASSUME ~ invalid, Linked(c) PROVE LinksSound(graph, index)
    <3> DEFINE sound(i) ==
                 LET d == doc[ConnectionList(graph)[i]]
                 IN  /\ d.kind = "object" /\ d.ports
                     /\ d.from \in NamesUpTo(graph, Nodes[graph])
                     /\ d.to \in NamesUpTo(graph, Nodes[graph])
    <3>1. \A i \in 1 .. index - 1 : sound(i)  BY <2>5, <2>7, Zenon DEF LinksSound
    <3>2. sound(index)  BY <2>5, <2>7, Zenon DEF Linked
    <3>3. \A i \in 1 .. index : sound(i)
      <4> HIDE DEF sound
      <4> QED  BY <2>6, <3>1, <3>2, Zenon
    <3> QED  BY <3>3, Zenon DEF LinksSound
  <2>8. ASSUME ~ invalid, LinksSound(graph, Links[graph]) PROVE Linked(c)
    BY <2>5, <2>6, <2>8, Zenon DEF Linked, LinksSound
  <2>9. ASSUME ~ invalid' PROVE Clean(V)'
    <3>1. ~ invalid /\ Linked(c)  BY <2>1, <2>9, Zenon
    <3>2. pc' = "connections"  BY <1>2, <2>1
    <3>3. LinksSeen(V)' = LookedAt(GraphsIn(V), Links, Cells, graph, index)
      BY <1>2, <1>5, <2>3, <3>2 DEF LinksSeen
    <3>4. connections' = Cardinality(LinksSeen(V)') /\ connections' <= MaxConnections
      BY <1>9, <1>11, <3>1, <3>3, ValidationAssumption DEF Over
    <3>5. NodesSeen(V) = LookedAt(GraphsIn(V), Nodes, Cells, 0, index - 1)
      BY <1>2 DEF NodesSeen
    <3>6. NodesSeen(V)' = LookedAt(GraphsIn(V), Nodes, Cells, 0, index)
      BY <1>5, <2>3, <3>2 DEF NodesSeen
    <3>7. NodesSeen(V)' = NodesSeen(V)
      <4> DEFINE G == GraphsIn(V)
                 m == Len(doc)
      <4>1. m \in Nat /\ Cells = 1 .. m /\ G \in SUBSET (1 .. m)
        BY <1>1, GraphsOf DEF GraphsIn
      <4> HIDE DEF G, m
      <4>2. \A n : LookedAt(G, Nodes, 1 .. m, 0, n) = LookedAt(G, Nodes, 1 .. m, 0, Nodes[0])
        BY <4>1, LookedAll
      <4> QED  BY <3>5, <3>6, <4>1, <4>2 DEF G
    <3>8. nodes' = Cardinality(NodesSeen(V)') /\ nodes' <= MaxNodes
      BY <1>2, <1>3, <3>1, <3>7 DEF Account, Clean
    <3>9. \A g \in GraphsIn(V)' : pc' = "pop" \/ g # graph' => GraphSound(g)'
      <4>1. \A g \in GraphsIn(V) : g # graph => GraphSound(g)
        BY <1>2, <1>3, <3>1 DEF Account, Clean
      <4> QED  BY <1>2, <1>5, <3>2, <4>1
    <3>10. /\ names' = NamesUpTo(graph, Nodes[graph])'
           /\ NodesSound(graph, Nodes[graph])' /\ LinksSound(graph, index - 1)'
      <4>1. NamesUpTo(graph, Nodes[graph])' = NamesUpTo(graph, Nodes[graph])
        BY <1>2, <1>5 DEF NamesUpTo, NodeList
      <4>2. NodesSound(graph, Nodes[graph])' <=> NodesSound(graph, Nodes[graph])
        BY <1>2, <1>5 DEF NodesSound, NodeList
      <4>3. LinksSound(graph, index - 1)' <=> LinksSound(graph, index)
        BY <1>2, <2>3, <4>1, Zenon DEF LinksSound, ConnectionList
      <4> QED  BY <1>2, <2>5, <2>7, <3>1, <4>1, <4>2, <4>3
    <3> QED  BY <3>2, <3>4, <3>8, <3>9, <3>10 DEF Clean
  <2>10. Account(V)'  BY <1>6, <1>7, <2>4, <2>9 DEF Account
  <2>11. ASSUME invalid' PROVE ~ WellFormed
    <3>1. CASE invalid  BY <1>1, <3>1
    <3>2. CASE ~ invalid
      <4>1. ~ Linked(c)  BY <2>1, <2>11, <3>2, Zenon
      <4>2. ~ LinksSound(graph, Links[graph])  BY <2>8, <3>2, <4>1
      <4> QED  BY <1>1, <1>4, <4>2, WellFormedMeans DEF GraphSound
    <3> QED  BY <3>1, <3>2
  <2> QED  BY <1>2, <2>1, <2>2, <2>10, <2>11, Continue
<1> QED  BY <1>10, <1>11

LEMMA ExactEndLoop ==
    ASSUME Exact, EndLoop
    PROVE  Exact'
<1>1. doc \in Docs /\ invalid \in BOOLEAN /\ (invalid => ~ WellFormed)
  BY DEF Exact
<1>2. /\ doc' = doc /\ stack' = stack /\ graph' = graph /\ seen' = seen
      /\ nodes' = nodes /\ names' = names /\ graphs' = graphs
      /\ connections' = connections /\ invalid' = invalid
      /\ pc \in {"nodes", "connections"}
  BY DEF EndLoop
<1>3. PICK V \in SUBSET Cells : Account(V)  BY <1>2 DEF Exact
<1>4. graph \in GraphsIn(V) /\ graph \in Graphs
  BY <1>2, <1>3 DEF Account, Position, GraphsIn, Graphs
<1>5. /\ Nodes[graph] = Len(NodeList(graph)) /\ Links[graph] = Len(ConnectionList(graph))
      /\ Nodes[graph] \in Nat /\ Links[graph] \in Nat
  BY <1>1, <1>4, Lists, GraphsOf
<1>6. /\ GraphsIn(V)' = GraphsIn(V) /\ ContainersIn(V)' = ContainersIn(V)
      /\ Cells' = Cells /\ Nodes' = Nodes /\ Links' = Links
      /\ \A g : GraphSound(g)' <=> GraphSound(g)
  BY <1>2, Same, SameAccount
<1>7. Traversal(V)'  BY <1>2, <1>3, SameTraversal DEF Account
<1>8. /\ seen' = Cardinality(ContainersIn(V)') /\ seen' <= MaxContainers
      /\ graphs' \in Nat /\ (graphs' = 0 <=> GraphsIn(V)' = {})
  BY <1>2, <1>3, <1>6 DEF Account
<1>9. /\ \A n, k : LookedAt(GraphsIn(V), Nodes, Cells, 0, n)
                     = LookedAt(GraphsIn(V), Nodes, Cells, 0, k)
      /\ \A n : LookedAt(GraphsIn(V), Nodes, Cells, graph, Nodes[graph])
                  = LookedAt(GraphsIn(V), Nodes, Cells, 0, n)
      /\ \A n : LookedAt(GraphsIn(V), Links, Cells, graph, Links[graph])
                  = LookedAt(GraphsIn(V), Links, Cells, 0, n)
  <2> DEFINE G == GraphsIn(V)
             m == Len(doc)
  <2>1. m \in Nat /\ Cells = 1 .. m /\ G \in SUBSET (1 .. m)
    BY <1>1, GraphsOf DEF GraphsIn
  <2> HIDE DEF G, m
  <2>2. \A L, g, n : LookedAt(G, L, 1 .. m, g, L[g]) = LookedAt(G, L, 1 .. m, 0, n)
    BY <2>1, LookedAll
  <2>3. \A L, n, k : LookedAt(G, L, 1 .. m, 0, n) = LookedAt(G, L, 1 .. m, 0, k)
    BY <2>2
  <2> QED  BY <2>1, <2>2, <2>3 DEF G
<1>10. CASE pc = "nodes"
  <2>1. pc' = "connections" /\ index' = 1 /\ index = Nodes[graph] + 1 /\ index - 1 = Nodes[graph]
    <3>1. pc' = "connections" /\ index' = 1 /\ index > Nodes[graph]
      BY <1>5, <1>10 DEF EndLoop
    <3>2. index \in 1 .. Nodes[graph] + 1  BY <1>3, <1>10 DEF Account, Position
    <3> QED  BY <1>5, <3>1, <3>2
  <2>2. Position(V)'
    <3>1. graph' \in GraphsIn(V)' /\ index' \in 1 .. Links'[graph'] + 1
      BY <1>2, <1>4, <1>5, <1>6, <2>1
    <3> QED  BY <2>1, <3>1 DEF Position
  <2>3. ASSUME ~ invalid PROVE Clean(V)'
    <3>1. /\ nodes = Cardinality(NodesSeen(V)) /\ nodes <= MaxNodes
          /\ connections = Cardinality(LinksSeen(V)) /\ connections <= MaxConnections
          /\ \A g \in GraphsIn(V) : g # graph => GraphSound(g)
          /\ names = NamesUpTo(graph, Nodes[graph]) /\ NodesSound(graph, Nodes[graph])
      BY <1>3, <1>10, <2>1, <2>3 DEF Account, Clean
    <3>2. NodesSeen(V) = LookedAt(GraphsIn(V), Nodes, Cells, graph, Nodes[graph])
      BY <1>10, <2>1 DEF NodesSeen
    <3>3. NodesSeen(V)' = LookedAt(GraphsIn(V), Nodes, Cells, 0, 0)
      BY <1>6, <2>1 DEF NodesSeen
    <3>4. LinksSeen(V)' = LinksSeen(V)
      BY <1>2, <1>6, <1>10, <2>1 DEF LinksSeen
    <3>5. NodesSeen(V)' = NodesSeen(V)  BY <1>9, <3>2, <3>3
    <3>6. /\ NamesUpTo(graph, Nodes[graph])' = NamesUpTo(graph, Nodes[graph])
          /\ NodesSound(graph, Nodes[graph])' <=> NodesSound(graph, Nodes[graph])
      BY <1>2, <1>6 DEF NodesSound, NamesUpTo, NodeList
    <3>7. LinksSound(graph, index - 1)'  BY <2>1 DEF LinksSound
    <3>8. \A g \in GraphsIn(V)' : pc' = "pop" \/ g # graph' => GraphSound(g)'
      BY <1>2, <1>6, <2>1, <3>1
    <3> QED  BY <1>2, <2>1, <3>1, <3>4, <3>5, <3>6, <3>7, <3>8 DEF Clean
  <2>4. Account(V)'  BY <1>2, <1>7, <1>8, <2>2, <2>3 DEF Account
  <2> QED  BY <1>1, <1>2, <2>1, <2>4, Continue
<1>11. CASE pc = "connections"
  <2>1. pc' = "pop" /\ index' = index /\ index - 1 = Links[graph]
    <3>1. pc' = "pop" /\ index' = index /\ index > Links[graph]
      BY <1>5, <1>11 DEF EndLoop
    <3>2. index \in 1 .. Links[graph] + 1  BY <1>3, <1>11 DEF Account, Position
    <3> QED  BY <1>5, <3>1, <3>2
  <2>2. Position(V)'  BY <2>1 DEF Position
  <2>3. ASSUME ~ invalid PROVE Clean(V)'
    <3>1. /\ nodes = Cardinality(NodesSeen(V)) /\ nodes <= MaxNodes
          /\ connections = Cardinality(LinksSeen(V)) /\ connections <= MaxConnections
          /\ \A g \in GraphsIn(V) : g # graph => GraphSound(g)
          /\ NodesSound(graph, Nodes[graph]) /\ LinksSound(graph, Links[graph])
      BY <1>3, <1>11, <2>1, <2>3 DEF Account, Clean
    <3>2. NodesSeen(V)' = NodesSeen(V)
      BY <1>6, <1>11, <2>1 DEF NodesSeen
    <3>3. LinksSeen(V) = LookedAt(GraphsIn(V), Links, Cells, graph, Links[graph])
      BY <1>11, <2>1 DEF LinksSeen
    <3>4. LinksSeen(V)' = LookedAt(GraphsIn(V), Links, Cells, 0, index - 1)
      BY <1>6, <2>1 DEF LinksSeen
    <3>5. LinksSeen(V)' = LinksSeen(V)  BY <1>9, <3>3, <3>4
    <3>6. \A g \in GraphsIn(V) : GraphSound(g)  BY <3>1 DEF GraphSound
    <3>7. \A g \in GraphsIn(V)' : pc' = "pop" \/ g # graph' => GraphSound(g)'
      BY <1>6, <3>6
    <3> QED  BY <1>2, <2>1, <3>1, <3>2, <3>5, <3>7 DEF Clean
  <2>4. Account(V)'  BY <1>2, <1>7, <1>8, <2>2, <2>3 DEF Account
  <2> QED  BY <1>1, <1>2, <2>1, <2>4, Continue
<1> QED  BY <1>2, <1>10, <1>11

LEMMA ExactFinish ==
    ASSUME Exact, Finish
    PROVE  Exact'
<1>1. doc \in Docs /\ invalid \in BOOLEAN /\ (invalid => ~ WellFormed)
  BY DEF Exact
<1>2. /\ pc = "pop" /\ stack = <<>> /\ pc' = "end" /\ doc' = doc
      /\ invalid' = (invalid \/ graphs = 0)
  BY DEF Finish
<1>3. PICK V \in SUBSET Cells : Account(V)  BY <1>2 DEF Exact
<1>4. V = Cells  BY <1>1, <1>2, <1>3, AllVisited DEF Account
<1>5. GraphsIn(V) = Graphs  BY <1>1, <1>4, GraphsOf
<1>6. graphs = 0 <=> Graphs = {}  BY <1>3, <1>5 DEF Account
<1>7. invalid' \in BOOLEAN /\ (invalid' => ~ WellFormed)
  <2>1. invalid' \in BOOLEAN  BY <1>2, Zenon
  <2>2. ASSUME invalid' PROVE ~ WellFormed
    <3>1. CASE invalid  BY <1>1, <3>1
    <3>2. CASE graphs = 0  BY <1>1, <1>6, <3>2, WellFormedMeans
    <3> QED  BY <1>2, <2>2, <3>1, <3>2, Zenon
  <2> QED  BY <2>1, <2>2
<1>8. ASSUME ~ invalid' PROVE WellFormed
  <2>1. ~ invalid /\ graphs # 0  BY <1>2, <1>8, Zenon
  <2>2. /\ nodes = Cardinality(NodesSeen(V)) /\ nodes <= MaxNodes
        /\ connections = Cardinality(LinksSeen(V)) /\ connections <= MaxConnections
        /\ \A g \in Graphs : GraphSound(g)
        /\ Cardinality(ContainersIn(Cells)) <= MaxContainers
    BY <1>2, <1>3, <1>4, <1>5, <2>1 DEF Account, Clean
  <2>3. /\ NodesSeen(V) = LookedAt(Graphs, Nodes, Cells, 0, 0)
        /\ LinksSeen(V) = LookedAt(Graphs, Links, Cells, 0, 0)
    <3>1. \A L, n : LookedAt(Graphs, L, Cells, 0, n) = LookedAt(Graphs, L, Cells, 0, 0)
      <4> DEFINE m == Len(doc)
      <4>1. m \in Nat /\ Cells = 1 .. m /\ Graphs \in SUBSET (1 .. m)
        BY <1>1, GraphsOf
      <4> HIDE DEF m
      <4>2. \A L, n : LookedAt(Graphs, L, 1 .. m, 0, L[0]) = LookedAt(Graphs, L, 1 .. m, 0, n)
        BY <4>1, LookedAll
      <4> QED  BY <4>1, <4>2
    <3>2. /\ NodesSeen(V) = LookedAt(Graphs, Nodes, Cells, 0, index - 1)
          /\ LinksSeen(V) = LookedAt(Graphs, Links, Cells, 0, index - 1)
      BY <1>2, <1>5 DEF NodesSeen, LinksSeen
    <3> QED  BY <3>1, <3>2
  <2>4. Graphs # {}  BY <1>6, <2>1
  <2> QED  BY <1>1, <2>2, <2>3, <2>4, WellFormedMeans
<1>9. WellFormed' <=> WellFormed  BY <1>2, Same
<1> QED  BY <1>1, <1>2, <1>7, <1>8, <1>9 DEF Exact

LEMMA ExactPop ==
    ASSUME Exact, Pop
    PROVE  Exact'
<1>1. doc \in Docs /\ invalid \in BOOLEAN /\ (invalid => ~ WellFormed)
  BY DEF Exact
<1>2. /\ pc = "pop" /\ stack # <<>> /\ doc' = doc
      /\ nodes' = nodes /\ connections' = connections
  BY DEF Pop
<1>3. PICK V \in SUBSET Cells : Account(V)  BY <1>2 DEF Exact
<1>4. PICK id : id = stack[Len(stack)]  OBVIOUS
<1> DEFINE W == V \cup {id}
           c == doc[id]
           m == Len(doc)
<1>5. id \in Cells \ V
  <2>1. id \in Waiting
    <3>1. Len(stack) \in Nat \ {0}  BY <1>2, <1>3 DEF Account, Traversal
    <3> QED  BY <1>4, <3>1 DEF Waiting
  <2>2. Waiting \subseteq Cells /\ Waiting \cap V = {}
    BY <1>3, ElementOf DEF Account, Traversal, Waiting
  <2> QED  BY <2>1, <2>2
<1>6. W \in SUBSET Cells  BY <1>5
<1>7. /\ Cells' = Cells /\ Nodes' = Nodes /\ Links' = Links
      /\ (WellFormed' <=> WellFormed)
      /\ \A S : GraphsIn(S)' = GraphsIn(S) /\ ContainersIn(S)' = ContainersIn(S)
      /\ \A g : GraphSound(g)' <=> GraphSound(g)
  BY <1>2, Same, SameAccount
<1>8. /\ m \in Nat /\ Cells = 1 .. m /\ GraphsIn(V) \in SUBSET (1 .. m)
      /\ id \in 1 .. m /\ id # 0
  BY <1>1, <1>5, GraphsOf DEF GraphsIn
<1>9. /\ c.kind = "scalar" => ContainersIn(W) = ContainersIn(V)
      /\ c.kind # "scalar" => ContainersIn(W) = ContainersIn(V) \cup {id}
      /\ IsGraph(c) => GraphsIn(W) = GraphsIn(V) \cup {id}
      /\ ~ IsGraph(c) => GraphsIn(W) = GraphsIn(V)
      /\ id \notin ContainersIn(V) /\ id \notin GraphsIn(V)
  BY <1>5 DEF ContainersIn, GraphsIn
<1>10. c.kind # "scalar" => Cardinality(ContainersIn(W)) = seen + 1
  <2>1. ContainersIn(V) \subseteq Cells  BY DEF ContainersIn
  <2>2. IsFiniteSet(ContainersIn(V))  BY <1>1, <2>1, Shape, FS_Subset
  <2>3. Cardinality(ContainersIn(V) \cup {id}) = Cardinality(ContainersIn(V)) + 1
    BY <1>9, <2>2, FS_AddElement
  <2> QED  BY <1>3, <1>9, <2>3 DEF Account
<1>11. /\ seen = Cardinality(ContainersIn(V)) /\ seen <= MaxContainers
       /\ graphs \in Nat /\ (graphs = 0 <=> GraphsIn(V) = {})
  BY <1>3 DEF Account
\* The account of the entries: nothing was looked at in the cell that is taken.
<1>12. ASSUME ~ invalid
       PROVE  /\ nodes <= MaxNodes /\ connections <= MaxConnections
              /\ \A g \in GraphsIn(V) : GraphSound(g)
              /\ \A n : /\ nodes = Cardinality(LookedAt(GraphsIn(V), Nodes, Cells, 0, n))
                        /\ connections = Cardinality(LookedAt(GraphsIn(V), Links, Cells, 0, n))
              /\ IsGraph(c) =>
                    /\ nodes = Cardinality(LookedAt(GraphsIn(W), Nodes, Cells, id, 0))
                    /\ connections = Cardinality(LookedAt(GraphsIn(W), Links, Cells, id, 0))
  <2> DEFINE G == GraphsIn(V)
  <2>1. /\ nodes = Cardinality(LookedAt(G, Nodes, Cells, 0, index - 1)) /\ nodes <= MaxNodes
        /\ connections = Cardinality(LookedAt(G, Links, Cells, 0, index - 1))
        /\ connections <= MaxConnections /\ \A g \in G : GraphSound(g)
    BY <1>2, <1>3, <1>12 DEF Account, Clean, NodesSeen, LinksSeen
  <2> HIDE DEF m
  <2>2. \A L, n, k : LookedAt(G, L, Cells, 0, n) = LookedAt(G, L, Cells, 0, k)
    <3> HIDE DEF G
    <3>1. \A L, n : LookedAt(G, L, 1 .. m, 0, L[0]) = LookedAt(G, L, 1 .. m, 0, n)
      BY <1>8, LookedAll DEF G
    <3> QED  BY <1>8, <3>1
  <2>3. \A L, n : LookedAt(G \cup {id}, L, Cells, id, 0) = LookedAt(G, L, Cells, 0, n)
    <3>1. id \in (1 .. m) \ G /\ G \in SUBSET (1 .. m)  BY <1>8, <1>9
    <3> HIDE DEF G
    <3>2. \A L, n : LookedAt(G \cup {id}, L, 1 .. m, id, 0) = LookedAt(G, L, 1 .. m, 0, n)
      BY <1>8, <3>1, LookedNew
    <3> QED  BY <1>8, <3>2
  <2>4. \A n : /\ nodes = Cardinality(LookedAt(G, Nodes, Cells, 0, n))
               /\ connections = Cardinality(LookedAt(G, Links, Cells, 0, n))
    <3> HIDE DEF G
    <3> QED  BY <2>1, <2>2
  <2>5. ASSUME IsGraph(c)
        PROVE  /\ nodes = Cardinality(LookedAt(GraphsIn(W), Nodes, Cells, id, 0))
               /\ connections = Cardinality(LookedAt(GraphsIn(W), Links, Cells, id, 0))
    <3>1. GraphsIn(W) = G \cup {id}  BY <1>9, <2>5
    <3> HIDE DEF G, W
    <3> QED  BY <2>3, <2>4, <3>1
  <2> QED  BY <2>1, <2>4, <2>5
<1>13. CASE c.kind = "scalar"
  <2>1. /\ stack' = Rest /\ pc' = pc /\ seen' = seen /\ graphs' = graphs
        /\ invalid' = invalid /\ index' = index /\ graph' = graph
    BY <1>4, <1>13 DEF Pop
  <2>2. c.items = <<>>  BY <1>1, <1>5, <1>13, Shape
  <2>3. stack' = Rest \o c.items
    <3>1. Rest \in Seq(Cells)  BY <1>2, <1>3, WithoutLast DEF Rest, Account, Traversal
    <3> QED  BY <2>1, <2>2, <3>1
  <2>4. Traversal(W)'  BY <1>1, <1>2, <1>3, <1>4, <2>3, TraversalStep DEF Account
  <2>5. ~ IsGraph(c)  BY <1>13 DEF IsGraph
  <2>6. GraphsIn(W)' = GraphsIn(V) /\ ContainersIn(W)' = ContainersIn(V)
    BY <1>7, <1>9, <1>13, <2>5
  <2> HIDE DEF W
  <2>7. Position(W)'  BY <1>2, <2>1 DEF Position
  <2>8. ASSUME ~ invalid' PROVE Clean(W)'
    <3>1. /\ NodesSeen(W)' = LookedAt(GraphsIn(V), Nodes, Cells, 0, index - 1)
          /\ LinksSeen(W)' = LookedAt(GraphsIn(V), Links, Cells, 0, index - 1)
      BY <1>2, <1>7, <2>1, <2>6 DEF NodesSeen, LinksSeen
    <3>2. ~ invalid  BY <2>1, <2>8
    <3>3. \A g \in GraphsIn(W)' : GraphSound(g)'  BY <1>7, <1>12, <2>6, <3>2
    <3> QED  BY <1>2, <1>12, <2>1, <3>1, <3>2, <3>3 DEF Clean
  <2>9. Account(W)'
    BY <1>11, <2>1, <2>4, <2>6, <2>7, <2>8 DEF Account
  <2> QED  BY <1>1, <1>2, <1>6, <2>1, <2>9, Continue
<1>14. CASE c.kind # "scalar" /\ Over(seen + 1, MaxContainers)
  <2>1. invalid' = TRUE /\ pc' = "end"  BY <1>4, <1>14 DEF Pop
  <2>2. /\ Cardinality(ContainersIn(W)) <= Cardinality(ContainersIn(Cells))
        /\ Cardinality(ContainersIn(W)) \in Nat /\ Cardinality(ContainersIn(Cells)) \in Nat
    BY <1>1, <1>6, WithinDocument
  <2>3. ~ (Cardinality(ContainersIn(Cells)) <= MaxContainers)
    BY <1>10, <1>14, <2>2, ValidationAssumption DEF Over
  <2>4. ~ WellFormed  BY <1>1, <2>3, WellFormedMeans
  <2> QED  BY <1>1, <1>2, <1>7, <2>1, <2>4 DEF Exact
<1>15. CASE c.kind # "scalar" /\ ~ Over(seen + 1, MaxContainers)
  <2>1. /\ seen' = seen + 1 /\ stack' = Rest \o c.items /\ invalid' = invalid
        /\ IF IsGraph(c)
           THEN graph' = id /\ index' = 1 /\ names' = {} /\ graphs' = graphs + 1 /\ pc' = "nodes"
           ELSE UNCHANGED <<graph, index, names, graphs, pc>>
    BY <1>4, <1>15 DEF Pop
  <2>2. Traversal(W)'  BY <1>1, <1>2, <1>3, <1>4, <2>1, TraversalStep DEF Account
  <2>3. seen' = Cardinality(ContainersIn(W)') /\ seen' <= MaxContainers
    <3>1. Cardinality(ContainersIn(W)) \in Nat  BY <1>1, <1>6, WithinDocument
    <3> HIDE DEF W
    <3> QED  BY <1>7, <1>10, <1>15, <2>1, <3>1, ValidationAssumption DEF Over
  <2>4. CASE IsGraph(c)
    <3>1. /\ graph' = id /\ index' = 1 /\ index' - 1 = 0 /\ names' = {}
          /\ graphs' = graphs + 1 /\ pc' = "nodes"
      BY <2>1, <2>4
    <3>2. GraphsIn(W)' = GraphsIn(W) /\ GraphsIn(W) = GraphsIn(V) \cup {id}
      BY <1>7, <1>9, <2>4
    <3>3. Nodes[id] \in Nat
      <4>1. id \in Graphs  BY <1>5, <2>4 DEF Graphs
      <4> QED  BY <1>1, <4>1, GraphsOf
    <3> HIDE DEF W, c
    <3>4. Position(W)'
      <4>1. graph' \in GraphsIn(W)' /\ index' \in 1 .. Nodes'[graph'] + 1
        BY <1>7, <3>1, <3>2, <3>3
      <4> QED  BY <3>1, <4>1 DEF Position
    <3>5. ASSUME ~ invalid' PROVE Clean(W)'
      <4>1. ~ invalid  BY <2>1, <3>5
      <4>2. /\ NodesSeen(W)' = LookedAt(GraphsIn(W), Nodes, Cells, id, 0)
            /\ LinksSeen(W)' = LookedAt(GraphsIn(W), Links, Cells, id, 0)
        BY <1>7, <3>1, <3>2 DEF NodesSeen, LinksSeen
      <4>3. \A g \in GraphsIn(W)' : pc' = "pop" \/ g # graph' => GraphSound(g)'
        BY <1>7, <1>12, <3>1, <3>2, <4>1
      <4>4. names' = NamesUpTo(graph, index - 1)'  BY <3>1 DEF NamesUpTo
      <4>5. NodesSound(graph, index - 1)'  BY <3>1 DEF NodesSound
      <4>6. /\ nodes' = Cardinality(NodesSeen(W)') /\ nodes' <= MaxNodes
            /\ connections' = Cardinality(LinksSeen(W)') /\ connections' <= MaxConnections
        BY <1>2, <1>12, <2>4, <4>1, <4>2
      <4> QED  BY <3>1, <4>3, <4>4, <4>5, <4>6 DEF Clean
    <3>6. graphs' \in Nat /\ (graphs' = 0 <=> GraphsIn(W)' = {})
      BY <1>11, <3>1, <3>2
    <3>7. Account(W)'  BY <2>2, <2>3, <3>4, <3>5, <3>6 DEF Account
    <3> QED  BY <1>1, <1>2, <1>6, <2>1, <3>1, <3>7, Continue
  <2>5. CASE ~ IsGraph(c)
    <3>1. graph' = graph /\ index' = index /\ graphs' = graphs /\ pc' = "pop"
      BY <1>2, <2>1, <2>5
    <3>2. GraphsIn(W)' = GraphsIn(V)  BY <1>7, <1>9, <2>5
    <3> HIDE DEF W, c
    <3>3. Position(W)'  BY <3>1 DEF Position
    <3>4. ASSUME ~ invalid' PROVE Clean(W)'
      <4>1. ~ invalid  BY <2>1, <3>4
      <4>2. /\ NodesSeen(W)' = LookedAt(GraphsIn(V), Nodes, Cells, 0, index - 1)
            /\ LinksSeen(W)' = LookedAt(GraphsIn(V), Links, Cells, 0, index - 1)
        BY <1>7, <3>1, <3>2 DEF NodesSeen, LinksSeen
      <4>3. \A g \in GraphsIn(W)' : GraphSound(g)'  BY <1>7, <1>12, <3>2, <4>1
      <4> QED  BY <1>2, <1>12, <3>1, <4>1, <4>2, <4>3 DEF Clean
    <3>5. Account(W)'
      BY <1>11, <2>2, <2>3, <3>1, <3>2, <3>3, <3>4 DEF Account
    <3> QED  BY <1>1, <1>2, <1>6, <2>1, <3>1, <3>5, Continue
  <2> QED  BY <2>4, <2>5
<1> QED  BY <1>13, <1>14, <1>15

LEMMA ExactInit ==
    ASSUME Init
    PROVE  Exact
<1>1. /\ doc \in Docs /\ stack = <<1>> /\ pc = "pop" /\ invalid = FALSE
      /\ seen = 0 /\ nodes = 0 /\ connections = 0 /\ graphs = 0
  BY DEF Init
<1>2. /\ 1 \in Cells /\ Cells = 1 .. Len(doc) /\ Len(doc) \in Nat
  BY <1>1, Shape
<1>3. Waiting = {1}  BY <1>1 DEF Waiting
<1>4. Traversal({})  BY <1>1, <1>2, <1>3 DEF Traversal
<1>5. /\ GraphsIn({}) = {} /\ ContainersIn({}) = {}
      /\ NodesSeen({}) = {} /\ LinksSeen({}) = {}
  BY DEF GraphsIn, ContainersIn, NodesSeen, LinksSeen, LookedAt
<1>6. Cardinality({}) = 0  BY FS_EmptySet
<1>7. Position({})  BY <1>1 DEF Position
<1>8. MaxNodes \in Nat /\ MaxConnections \in Nat /\ MaxContainers \in Nat
  BY ValidationAssumption
<1>9. Clean({})  BY <1>1, <1>5, <1>6, <1>8 DEF Clean
<1>10. Account({})  BY <1>1, <1>4, <1>5, <1>6, <1>7, <1>8, <1>9 DEF Account
<1> QED  BY <1>1, <1>10 DEF Exact

LEMMA ExactNext ==
    ASSUME Exact, [Next]_vars
    PROVE  Exact'
<1>1. CASE UNCHANGED vars
  <2>1. /\ doc' = doc /\ stack' = stack /\ graph' = graph /\ index' = index
        /\ names' = names /\ seen' = seen /\ nodes' = nodes /\ graphs' = graphs
        /\ connections' = connections /\ invalid' = invalid /\ pc' = pc
    BY <1>1 DEF vars
  <2>2. CASE pc = "end"
    BY <2>1, <2>2, Same DEF Exact
  <2>3. CASE pc # "end"
    <3>1. PICK V \in SUBSET Cells : Account(V)  BY <2>3 DEF Exact
    <3>2. Traversal(V)'  BY <2>1, <3>1, SameTraversal DEF Account
    <3>3. /\ GraphsIn(V)' = GraphsIn(V) /\ ContainersIn(V)' = ContainersIn(V)
          /\ Cells' = Cells /\ Nodes' = Nodes /\ Links' = Links
          /\ \A g : GraphSound(g)' <=> GraphSound(g)
          /\ \A g, n : /\ NamesUpTo(g, n)' = NamesUpTo(g, n)
                       /\ NodesSound(g, n)' <=> NodesSound(g, n)
                       /\ LinksSound(g, n)' <=> LinksSound(g, n)
      BY <2>1, Same, SameAccount
    <3>4. /\ NodesSeen(V)' = NodesSeen(V) /\ LinksSeen(V)' = LinksSeen(V)
      BY <2>1, <3>3 DEF NodesSeen, LinksSeen
    <3>5. Position(V)'  BY <2>1, <3>1, <3>3 DEF Account, Position
    <3>6. ASSUME Clean(V) PROVE Clean(V)'
      <4>1. NodesSound(graph, index - 1)' <=> NodesSound(graph, index - 1)
        BY <2>1 DEF NodesSound, NodeList
      <4>2. /\ NodesSound(graph, Nodes[graph])' <=> NodesSound(graph, Nodes[graph])
            /\ NamesUpTo(graph, Nodes[graph])' = NamesUpTo(graph, Nodes[graph])
            /\ NamesUpTo(graph, index - 1)' = NamesUpTo(graph, index - 1)
        BY <2>1, <3>3 DEF NodesSound, NamesUpTo, NodeList
      <4>3. LinksSound(graph, index - 1)' <=> LinksSound(graph, index - 1)
        BY <2>1, <4>2, Zenon DEF LinksSound, ConnectionList
      <4>4. \A g \in GraphsIn(V)' : pc' = "pop" \/ g # graph' => GraphSound(g)'
        BY <2>1, <3>3, <3>6 DEF Clean
      <4> QED  BY <2>1, <3>4, <3>6, <4>1, <4>2, <4>3, <4>4 DEF Clean
    <3>7. Account(V)'  BY <2>1, <3>1, <3>2, <3>3, <3>5, <3>6 DEF Account
    <3>8. invalid' \in BOOLEAN /\ (invalid' => ~ WellFormed)  BY <2>1 DEF Exact
    <3> QED  BY <2>1, <2>3, <3>7, <3>8, Continue
  <2> QED  BY <2>2, <2>3
<1> QED  BY <1>1, ExactPop, ExactNode, ExactConnection, ExactEndLoop, ExactFinish DEF Next

\* _validate_data accepts exactly the well-formed projects: whatever the nesting
\* of the document, the order in which its graphs are met and the loops that are
\* left early at a limit, no error is missed and none is made up.
THEOREM VerdictIsCorrect == Spec => []VerdictIsExact
<1>1. Exact => VerdictIsExact  BY DEF Exact, VerdictIsExact
<1> QED  BY <1>1, ExactInit, ExactNext, PTL DEF Spec
=============================================================================
