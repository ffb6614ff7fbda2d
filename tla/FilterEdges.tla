----------------------------- MODULE FilterEdges -----------------------------
(* The connections of a filter graph (FilterNode, FilterPlug and FilterSocket  *)
(* in sources/): a node's plugs are its inputs, its socket is its output, a    *)
(* connection is a plug's remote_socket_ and an entry of the socket's          *)
(* requesting_plugs_.  Nodes, plugs and sockets refer to each other in cycles, *)
(* so each class subtracts the references of its own members before it         *)
(* destroys an object.  Patterns, texts and image data are left out.           *)
EXTENDS Naturals, Sequences, FiniteSets, SequencesExt

CONSTANTS Nodes,        \* filter nodes, made by the application
          NPlugs,       \* number of plugs of each node; each has one socket
          Matches,      \* pairs <<input, output>> with connectors of one type
          NoNode,       \* a plug without a remote socket
          MaxUsers,     \* bound: references to a node from outside
          MaxHeld,      \* bound: plugs the application holds at a time
          MaxWaste      \* bound: references to plugs and sockets that get lost

ASSUME FilterAssumption ==
  /\ IsFiniteSet(Nodes) /\ NPlugs \in [Nodes -> Nat]
  /\ Matches \subseteq Nodes \X Nodes
  /\ NoNode \notin Nodes
  /\ MaxUsers \in Nat \ {0} /\ MaxHeld \in Nat /\ MaxWaste \in Nat

VARIABLES plugs,        \* for each plug the slot of its node, its node reference,
                        \* the remote socket, its reference count, the references
                        \* the application holds and those it has lost
          sockets,      \* the same for sockets, with requesting_plugs_
          nodes,        \* reference count, and the part of it from outside
          broken        \* a call has gone wrong: its effect is undefined, so that
                        \* the model stops before it
edges == <<plugs, sockets, nodes>>

Edges == UNION {{n} \X (1 .. NPlugs[n]) : n \in Nodes}

NodeOf(e) == e[1]

Connected(e) == plugs[e].remote # NoNode

Alive(n) == nodes[n].user > 0

\* The reference of a holder, if there is one.
Ref(holds) == IF holds THEN 1 ELSE 0

Wasted == Cardinality({e \in Edges : plugs[e].waste > 0}) +
          Cardinality({n \in Nodes : sockets[n].waste > 0})

NoEdges ==
  /\ plugs = [e \in Edges |-> [slot |-> FALSE, node |-> FALSE, remote |-> NoNode,
                               refs |-> 0, held |-> 0, waste |-> 0]]
  /\ sockets = [n \in Nodes |-> [slot |-> FALSE, node |-> FALSE, listed |-> FALSE,
                                 plugs |-> <<>>, refs |-> 0, waste |-> 0]]
  /\ nodes = [n \in Nodes |-> [refs |-> 1, user |-> 1]]
  /\ broken = FALSE

-----------------------------------------------------------------------------
(* The functions below change a graph, a record of the three variables.       *)

Graph == [plugs |-> plugs, sockets |-> sockets, nodes |-> nodes]

Becomes(g) ==
  plugs' = g.plugs /\ sockets' = g.sockets /\ nodes' = g.nodes /\ UNCHANGED broken

GoesWrong == broken' = TRUE /\ UNCHANGED edges

\* oyFilterPlug_Release() keeps a plug that has more references than the two it
\* may be part of itself; otherwise the plug is destroyed (no reference left).
PlugLess(p) ==
  IF p.refs > 1 /\ p.refs - 1 >= Ref(p.node) + Ref(p.remote # NoNode)
  THEN [p EXCEPT !.refs = @ - 1] ELSE [p EXCEPT !.refs = 0]

\* oyFilterSocket_Release() compares with the node and the list of plugs.
SocketLess(s) ==
  IF s.refs - 1 >= Ref(s.node) + Ref(s.listed)
  THEN [s EXCEPT !.refs = @ - 1] ELSE [s EXCEPT !.refs = 0]

\* oyFilterNode_GetSocket() makes the socket when it is asked for first.
WithSocket(g, n) ==
  IF g.sockets[n].slot THEN g
  ELSE [g EXCEPT !.sockets[n].slot = TRUE, !.sockets[n].node = TRUE,
                 !.sockets[n].refs = 1, !.nodes[n].refs = @ + 1]

\* oyFilterNode_GetPlug() does so for a plug.
WithPlug(g, e) ==
  IF g.plugs[e].slot THEN g
  ELSE [g EXCEPT !.plugs[e].slot = TRUE, !.plugs[e].node = TRUE,
                 !.plugs[e].refs = 1, !.nodes[NodeOf(e)].refs = @ + 1]

\* A socket or a plug that is asked for, used and given back in one call.
Referenced(object) == [object EXCEPT !.refs = @ + 1]

UsedSocket(g, n) == [WithSocket(g, n) EXCEPT !.sockets[n] = SocketLess(Referenced(@))]

UsedPlug(g, e) == [g EXCEPT !.plugs[e] = PlugLess(Referenced(@))]

\* A list of plugs without the first entry of a plug.
Without(list, e) ==
  RemoveAt(list, CHOOSE i \in DOMAIN list : list[i] = e /\ \A j \in 1 .. (i - 1) : list[j] # e)

\* A socket after a plug has left it.
Left(s, e) == SocketLess([s EXCEPT !.node = FALSE, !.plugs = Without(@, e)])

\* The plug's reference to the socket is not given back.
MutSocketCallback(g, e) ==
  LET n == g.plugs[e].remote
  IN  IF n = NoNode \/ e \notin ToSet(g.sockets[n].plugs) THEN g
      ELSE [g EXCEPT !.nodes[n].refs = IF g.sockets[n].node THEN @ - 1 ELSE @,
                     !.sockets[n].node = FALSE,
                     !.sockets[n].plugs = Without(@, e),
                     !.plugs[e].remote = NoNode]

\* The remote socket of a plug hears of its release.  It forgets its own node,
\* whichever other plugs it has.  The reference by which the plug was found in
\* the list is not given back and replaces the one of the list.
SocketCallback(g, e) ==
  LET n == g.plugs[e].remote
  IN  IF n = NoNode \/ e \notin ToSet(g.sockets[n].plugs) THEN g
      ELSE [g EXCEPT !.nodes[n].refs = IF g.sockets[n].node THEN @ - 1 ELSE @,
                     !.sockets[n] = Left(@, e),
                     !.plugs[e].remote = NoNode]

\* A plug hears of its release.
PlugCallback(g, e) ==
  LET p == g.plugs[e]
      q == IF p.node THEN PlugLess([p EXCEPT !.node = FALSE]) ELSE p
  IN  [g EXCEPT !.nodes[NodeOf(e)].refs = IF p.node THEN @ - 1 ELSE @,
                !.plugs[e] = [(IF q.remote # NoNode THEN PlugLess(q) ELSE q)
                                EXCEPT !.remote = NoNode]]

Disconnected(g, e) == PlugCallback(SocketCallback(g, e), e)

\* Without the message to the socket that the plug leaves.
MutConnectedInto(g, e, n) ==
  [g EXCEPT !.plugs[e].remote = n, !.plugs[e].refs = @ + 1,
            !.sockets[n].refs = @ + 1, !.sockets[n].listed = TRUE,
            !.sockets[n].plugs = Append(@, e)]

\* oyFilterPlug_ConnectIntoSocket(): a plug that is connected leaves its socket,
\* which does not give back the reference it found the plug by.
ConnectedInto(g, e, n) ==
  LET h == SocketCallback(g, e)
  IN  [h EXCEPT !.plugs[e].remote = n,
                !.plugs[e].refs = @ + 1,
                !.plugs[e].waste = IF g.plugs[e].remote # NoNode THEN @ + 1 ELSE @,
                !.sockets[n].refs = @ + 1,
                !.sockets[n].listed = TRUE,
                !.sockets[n].plugs = Append(@, e)]

\* Without a reference for the socket's node.
MutBothNodes(g, e, n) ==
  LET o == NodeOf(e)
  IN  [g EXCEPT !.nodes[o].refs = IF g.plugs[e].node THEN @ ELSE @ + 1,
                !.plugs[e].node = TRUE,
                !.sockets[n].node = TRUE]

\* oyFilterNode_Connect() then lets both ends refer to their nodes.
BothNodes(g, e, n) ==
  LET o == NodeOf(e)
      h == [g EXCEPT !.nodes[o].refs = IF g.plugs[e].node THEN @ ELSE @ + 1,
                     !.plugs[e].node = TRUE]
  IN  [h EXCEPT !.nodes[n].refs = IF g.sockets[n].node THEN @ ELSE @ + 1,
                !.sockets[n].node = TRUE]

-----------------------------------------------------------------------------
(* The calls of the application.                                              *)

\* Another reference to a node, as oyFilterNode_Copy() or a graph's list has.
Copy(n) ==
  /\ Alive(n) /\ nodes[n].user < MaxUsers
  /\ nodes' = [nodes EXCEPT ![n].refs = @ + 1, ![n].user = @ + 1]
  /\ UNCHANGED <<plugs, sockets, broken>>

\* The plugs that a socket's loop reaches: it counts them first, and each one it
\* disconnects makes the list shorter, so that every second is passed over.
Reached(s) == [i \in 1 .. ((Len(s.plugs) + 1) \div 2) |-> s.plugs[2 * i - 1]]

\* The node gives up its socket.
SocketReleased(g, n) ==
  LET s == g.sockets[n]
      t == [SocketLess(s) EXCEPT !.slot = FALSE]
  IN  IF ~ s.slot THEN g
      ELSE IF t.refs > 0 THEN [g EXCEPT !.sockets[n] = t]
      ELSE [g EXCEPT !.sockets[n] = [t EXCEPT !.node = FALSE],
                     !.nodes[n].refs = IF s.node THEN @ - 1 ELSE @]

\* The node disconnects a plug and gives it up.
PlugReleased(g, e) ==
  IF ~ g.plugs[e].slot THEN g
  ELSE [Disconnected(g, e) EXCEPT !.plugs[e] = [PlugLess(@) EXCEPT !.slot = FALSE]]

\* Some plugs are disconnected, one after the other.
CutOff(g, list) ==
  LET after[k \in 0 .. Len(list)] ==
        IF k = 0 THEN g ELSE Disconnected(after[k - 1], list[k])
  IN  after[Len(list)]

\* All plugs of a node are given up.
PlugsReleased(g, n) ==
  LET after[k \in 0 .. NPlugs[n]] ==
        IF k = 0 THEN g ELSE PlugReleased(after[k - 1], <<n, k>>)
  IN  after[NPlugs[n]]

\* oyFilterNode_Release__Members()
Destroyed(g, n) ==
  LET cut == CutOff(g, Reached(g.sockets[n]))
  IN  [PlugsReleased(SocketReleased(cut, n), n) EXCEPT !.nodes[n].refs = 0]

\* References of a node from its own members.
Inner(g, n) ==
  Ref(g.sockets[n].slot /\ g.sockets[n].node) +
  Cardinality({i \in 1 .. NPlugs[n] : g.plugs[<<n, i>>].slot /\ g.plugs[<<n, i>>].node})

\* A plug was asked for and has not been connected since.  To disconnect it gives
\* back a reference for its node that was never taken: the one of the node's slot.
Loose(p) == p.slot /\ p.node /\ p.remote = NoNode /\ p.waste = 0

LoosePlugs(n) == {i \in 1 .. NPlugs[n] : Loose(plugs[<<n, i>>])}

\* oyFilterNode_Release() by the application.
Release(n) ==
  LET g    == [Graph EXCEPT !.nodes[n].refs = @ - 1, !.nodes[n].user = @ - 1]
      last == g.nodes[n].refs <= Inner(g, n)
  IN  /\ Alive(n)
      /\ \/ ~ last /\ Becomes(g)
         \/ last /\ LoosePlugs(n) = {} /\ Becomes(Destroyed(g, n))
         \/ last /\ LoosePlugs(n) # {} /\ GoesWrong

\* oyFilterNode_GetPlug() by the application, which keeps the reference.
GetPlug(e) ==
  /\ Alive(NodeOf(e)) /\ plugs[e].held = 0
  /\ Cardinality({f \in Edges : plugs[f].held = 1}) < MaxHeld
  /\ LET g == WithPlug(Graph, e)
     IN  Becomes([g EXCEPT !.plugs[e].refs = @ + 1, !.plugs[e].held = 1])

\* oyFilterPlug_Release() of that reference.
ReleasePlug(e) ==
  /\ plugs[e].held = 1
  /\ plugs' = [plugs EXCEPT ![e] = [PlugLess(@) EXCEPT !.held = 0]]
  /\ UNCHANGED <<sockets, nodes, broken>>

\* oyFilterNode_Connect() finds the first free plug by its name, or takes the
\* first one of all when no name is given.
PlugFor(out, named) ==
  IF ~ named THEN {<<out, 1>>} \cap Edges
  ELSE {<<out, i>> : i \in {j \in 1 .. NPlugs[out] :
          /\ ~ Connected(<<out, j>>)
          /\ \A k \in 1 .. (j - 1) : Connected(<<out, k>>)}}

Connect(in, out, named) ==
  /\ Alive(in) /\ Alive(out)
  /\ <<in, out>> \in Matches
  /\ \E e \in PlugFor(out, named) :
       LET g == UsedSocket(WithPlug(UsedSocket(Graph, in), e), out)
           h == BothNodes(ConnectedInto(g, e, in), e, in)
       IN  /\ Connected(e) => Wasted < MaxWaste
           /\ Becomes(UsedSocket(UsedPlug(h, e), in))

\* A socket or a plug with a reference that nobody gives back.
Lost(object) == [object EXCEPT !.refs = @ + 1, !.waste = @ + 1]

\* Without a free plug the reference to the input's socket is lost.
ConnectFull(in, out) ==
  /\ Alive(in) /\ Alive(out)
  /\ PlugFor(out, TRUE) = {}
  /\ Wasted < MaxWaste
  /\ LET g == WithSocket(Graph, in)
     IN  Becomes([g EXCEPT !.sockets[in] = Lost(@)])

\* When the connectors do not match, that to the plug as well.
ConnectMismatch(in, out, named) ==
  /\ Alive(in) /\ Alive(out)
  /\ <<in, out>> \notin Matches
  /\ Wasted < MaxWaste
  /\ \E e \in PlugFor(out, named) :
       LET g == WithPlug(UsedSocket(Graph, in), e)
       IN  Becomes([g EXCEPT !.sockets[in] = Lost(@), !.plugs[e] = Lost(@)])

\* oyFilterNode_Disconnect()
Disconnect(e) ==
  /\ Alive(NodeOf(e)) /\ plugs[e].slot
  /\ \/ ~ Loose(plugs[e]) /\ Becomes(Disconnected(Graph, e))
     \/ Loose(plugs[e]) /\ GoesWrong

Calls ==
  \/ \E n \in Nodes : Copy(n) \/ Release(n)
  \/ \E e \in Edges : GetPlug(e) \/ ReleasePlug(e) \/ Disconnect(e)
  \/ \E in, out \in Nodes : ConnectFull(in, out)
  \/ \E in, out \in Nodes, named \in BOOLEAN :
       Connect(in, out, named) \/ ConnectMismatch(in, out, named)

-----------------------------------------------------------------------------
(* A connection has two ends in two objects (FilterPlug_s.remote_socket_ and  *)
(* FilterSocket_s.requesting_plugs_), which connecting, connecting anew and   *)
(* the destruction of either node have to change together: a plug is in the   *)
(* list of the socket it points to, once, and in no other.                    *)
EdgesHaveTwoEnds ==
  \A e \in Edges, n \in Nodes :
    Cardinality({i \in DOMAIN sockets[n].plugs : sockets[n].plugs[i] = e}) =
      Ref(plugs[e].remote = n)

(* Nobody refers to a destroyed object: the references that a node's slot,    *)
(* the lists of plugs, the plugs' remote_socket_ and the application hold are *)
(* all in the counts, in spite of destructors that subtract some of them, and *)
(* a node is destroyed exactly with the last reference from outside.          *)
OwnersCounted ==
  /\ \A e \in Edges :
       plugs[e].refs >= Ref(plugs[e].slot) + Ref(Connected(e)) + plugs[e].held
  /\ \A n \in Nodes : /\ sockets[n].refs >= Ref(sockets[n].slot) + Len(sockets[n].plugs)
                      /\ nodes[n].refs = nodes[n].user + Inner(Graph, n)
                      /\ sockets[n].node /\ sockets[n].plugs # <<>> => Alive(n)
  /\ \A e \in Edges : plugs[e].node => Alive(NodeOf(e))

(* Cycles of references do not keep anything: after its node, a plug is gone  *)
(* with the last reference of the application, and a socket with its last     *)
(* plug, unless an earlier call has lost a reference.                         *)
GoneWithNode ==
  \A n \in Nodes : ~ Alive(n) =>
    /\ \A i \in 1 .. NPlugs[n] : plugs[<<n, i>>].waste = 0 =>
         /\ plugs[<<n, i>>].refs = plugs[<<n, i>>].held
         /\ ~ Connected(<<n, i>>)
    /\ sockets[n].waste = 0 => sockets[n].refs = Len(sockets[n].plugs)

(* A plug that is connected leads to the node of the other side: FilterNode's *)
(* documentation lets a socket have any number of plugs, and disconnecting    *)
(* one of them does not concern the others.                                   *)
RemoteNodeKnown ==
  \A e \in Edges : Connected(e) /\ Alive(plugs[e].remote) =>
    sockets[plugs[e].remote].node
=============================================================================
