----------------------------- MODULE FilterGraph -----------------------------
(* What the traversals of a filter graph find: the list of edges and nodes of *)
(* a graph object (oyFilterGraph_SetFromNode) and the nodes that a signal of  *)
(* a socket reaches (oyFilterSocket_SignalToGraph).  They are functions of    *)
(* the connections, which FilterEdges describes.  A release signal changes    *)
(* these on its way: it is a loop of its own beside the calls of FilterEdges. *)
(* Marks are left out, and observers that handle a signal or change the graph.*)
EXTENDS FilterEdges

VARIABLE walk           \* a release signal: the socket it was sent to, the next
                        \* of its plugs and their number at the beginning, nodes
                        \* to visit, the node visited, and its plugs the same way
vars == <<edges, broken, walk>>

\* A plug of the node that is visited leads to the node of its remote socket.
InputWay(e) ==
  LET m == plugs[e].remote
  IN  [edge |-> e, leads |-> plugs[e].slot /\ Connected(e), beyond |-> m,
       known |-> Connected(e) /\ sockets[m].node]

\* One that requests the socket of the node leads to its own node.
OutputWay(e) == [edge |-> e, leads |-> TRUE, beyond |-> NodeOf(e), known |-> plugs[e].node]

\* What oyFilterNode_AddToAdjacencyLst_() tries from a node: first the plugs and then
\* those that request the socket, in the directions that are not omitted.
Ways(n, dirs) ==
  (IF "inputs" \in dirs THEN [i \in 1 .. NPlugs[n] |-> InputWay(<<n, i>>)] ELSE <<>>) \o
  (IF "outputs" \in dirs /\ sockets[n].slot
   THEN [i \in 1 .. Len(sockets[n].plugs) |-> OutputWay(sockets[n].plugs[i])] ELSE <<>>)

\* The search remembers nodes instead of edges.
MutAddEdge(list, way, visit) ==
  IF \E f \in ToSet(list) : NodeOf(f) = NodeOf(way.edge) THEN list
  ELSE IF way.known THEN visit[<<way.beyond, Append(list, way.edge)>>]
  ELSE Append(list, way.edge)

\* oyAdjacencyListAdd_() takes an edge once; only then the search goes on at the
\* node beyond it, if there is one.
AddEdge(list, way, visit) ==
  IF way.edge \in ToSet(list) THEN list
  ELSE IF way.known THEN visit[<<way.beyond, Append(list, way.edge)>>]
  ELSE Append(list, way.edge)

\* The ways of a node, one after the other.
Tried(list, ways, visit) ==
  LET after[k \in 0 .. Len(ways)] ==
        IF k = 0 THEN list
        ELSE IF ways[k].leads THEN AddEdge(after[k - 1], ways[k], visit) ELSE after[k - 1]
  IN  after[Len(ways)]

\* oyFilterNode_AddToAdjacencyLst_() calls itself with one more edge in the list, so
\* that calls are not deeper than there are edges.
Adjacency(n, dirs) ==
  LET visit[d \in 0 .. Cardinality(Edges)] ==
        [call \in Nodes \X Seq(Edges) |->
           IF d = 0 THEN call[2] ELSE Tried(call[2], Ways(call[1], dirs), visit[d - 1])]
  IN  visit[Cardinality(Edges)][<<n, <<>>>>]

GraphEdges(n, dirs) == ToSet(Adjacency(n, dirs))

\* The nodes come with the edges, so that a node without one is not found.
GraphNodes(n, dirs) ==
  LET found == GraphEdges(n, dirs)
  IN  {NodeOf(e) : e \in found} \cup
      {m \in Nodes : sockets[m].node /\ \E e \in found : plugs[e].remote = m}

\* The flag for the other direction.
MutSignalToGraph(n) ==
  {m \in {n} : sockets[n].node} \cup
  UNION {{NodeOf(e)} \cup GraphNodes(NodeOf(e), {"inputs"}) :
           e \in ToSet(sockets[n].plugs)}

\* The nodes that observe a signal of the socket of n, other than a release.
SignalToGraph(n) ==
  {m \in {n} : sockets[n].node} \cup
  UNION {{NodeOf(e)} \cup GraphNodes(NodeOf(e), {"outputs"}) :
           e \in ToSet(sockets[n].plugs)}

-----------------------------------------------------------------------------
(* A release signal (oyCONNECTOR_EVENT_RELEASED).                              *)

NoWalk == [at |-> NoNode, i |-> 0, n |-> 0, nodes |-> {}, node |-> NoNode, k |-> 0, k_n |-> 0]

\* oyFilterNode_EdgeCount() counts the connected plugs before the first other one.
EdgeCount(m) ==
  Cardinality({i \in 1 .. NPlugs[m] : \A j \in 1 .. i : Connected(<<m, j>>)})

\* oyFilterNode_GetConnectorPos() passes over plugs that are not connected.
NthConnected(m, nth) ==
  {e \in Edges : /\ NodeOf(e) = m /\ Connected(e)
                 /\ Cardinality({i \in 1 .. (e[2] - 1) : Connected(<<m, i>>)}) = nth}

\* The call, in which the plugs of the socket are counted.
SignalRelease(n) ==
  /\ walk = NoWalk
  /\ Alive(n) /\ sockets[n].plugs # <<>> /\ Wasted < MaxWaste
  /\ walk' = [NoWalk EXCEPT !.at = n, !.n = Len(sockets[n].plugs)]
  /\ UNCHANGED <<edges, broken>>

\* The next plug of the socket, if it still has as many, and the nodes that depend
\* on the plug's node.
VisitPlug ==
  LET list == sockets[walk.at].plugs
      i    == walk.i + 1
  IN  /\ walk.at # NoNode /\ walk.nodes = {} /\ walk.k = walk.k_n /\ walk.i < walk.n
      /\ \/ i \in DOMAIN list
            /\ walk' = [walk EXCEPT !.i = i,
                                    !.nodes = GraphNodes(NodeOf(list[i]), {"outputs"})]
            /\ UNCHANGED <<edges, broken>>
         \/ i \notin DOMAIN list /\ GoesWrong /\ UNCHANGED walk

\* The next of these nodes, whose connected plugs are counted.
VisitNode(m) ==
  /\ m \in walk.nodes /\ walk.k = walk.k_n
  /\ walk' = [walk EXCEPT !.nodes = @ \ {m}, !.node = m, !.k = 0, !.k_n = EdgeCount(m)]
  /\ UNCHANGED <<edges, broken>>

\* A plug leaves its socket as in SocketCallback, but does not hear of it itself: it
\* keeps its node and the reference by which it was found.
Dropped(g, e) == [SocketCallback(g, e) EXCEPT !.plugs[e].waste = @ + 1]

\* Each round takes a plug of the node by its number among those still connected,
\* so that it passes over every second one, and takes none in the end.
CallPlug ==
  LET next == NthConnected(walk.node, walk.k)
  IN  /\ walk.k < walk.k_n
      /\ \/ \E e \in next : Becomes(Dropped(Graph, e))
            /\ walk' = [walk EXCEPT !.k = @ + 1]
         \/ next = {} /\ GoesWrong /\ UNCHANGED walk

SignalDone ==
  /\ walk.at # NoNode /\ walk.nodes = {} /\ walk.k = walk.k_n /\ walk.i = walk.n
  /\ walk' = NoWalk
  /\ UNCHANGED <<edges, broken>>

Init == NoEdges /\ walk = NoWalk

Next ==
  /\ ~ broken
  /\ \/ walk = NoWalk /\ Calls /\ UNCHANGED walk
     \/ \E n \in Nodes : SignalRelease(n) \/ VisitNode(n)
     \/ VisitPlug \/ CallPlug \/ SignalDone

Spec == Init /\ [][Next]_vars

-----------------------------------------------------------------------------
\* For comparison: the least set with a node that has next[m] for each member m.
Within(n, next) ==
  {m \in Nodes : \A S \in SUBSET Nodes :
                   n \in S /\ (\A k \in S : next[k] \subseteq S) => m \in S}

Consumers == [n \in Nodes |-> {NodeOf(e) : e \in {f \in Edges : plugs[f].remote = n}}]

Neighbours ==
  [n \in Nodes |-> Consumers[n] \cup {m \in Nodes : Alive(m) /\ n \in Consumers[m]}]

(* A graph object has every edge of the part of the graph its node is in,     *)
(* whatever cycles and shared sockets there are, once, and every node at      *)
(* their ends, as long as no socket has forgotten its node (RemoteNodeKnown). *)
GraphComplete ==
  RemoteNodeKnown =>
    \A n \in Nodes : Alive(n) =>
      LET list == Adjacency(n, {"inputs", "outputs"})
          part == Within(n, Neighbours)
      IN  /\ ToSet(list) = {e \in Edges : Connected(e) /\ NodeOf(e) \in part}
          /\ IsInjective(list)
          /\ list # <<>> => GraphNodes(n, {"inputs", "outputs"}) = part

(* "The traversal direction is defined as from the starting node to the       *)
(* output": a signal of a socket, other than a release, reaches all nodes     *)
(* that depend on its data, however far away, and no others, even past a      *)
(* socket without a node.                                                     *)
SignalsReachOutputs ==
  \A n \in Nodes : Alive(n) =>
    SignalToGraph(n) \cup {n} = Within(n, Consumers)
=============================================================================
