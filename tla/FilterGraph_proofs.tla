--------------------------- MODULE FilterGraph_proofs ---------------------------
(***************************************************************************)
(* The connections of module FilterEdges and the searches of FilterGraph,  *)
(* for any number of nodes, plugs, references and losses.  What an action  *)
(* does is a composition of functions of a graph; each of them keeps a     *)
(* graph good.  A search in a good graph finds what its ways lead to.      *)
(***************************************************************************)
EXTENDS FilterGraph, Integers, WellFoundedInduction, SequenceTheorems, FiniteSetTheorems, TLAPS

-----------------------------------------------------------------------------
(* Loops of the code over lists are functions of the number of rounds, defined *)
(* by recursion.  The library's theorems on induction and recursion have       *)
(* operators as parameters; here they have sets and functions in their place.  *)

LEMMA NatIsWellFounded == IsWellFoundedOn({p \in Nat \X Nat : p[1] < p[2]}, Nat)
BY NatLessThanWellFounded DEF OpToRel

\* A set with 0 and the successor of each member has all natural numbers.
LEMMA SetInduction ==
  ASSUME NEW S \in SUBSET Nat, 0 \in S, \A n \in S : n + 1 \in S
  PROVE  S = Nat
<1> DEFINE R == {p \in Nat \X Nat : p[1] < p[2]}
<1>1. SUFFICES ASSUME Nat \ S # {} PROVE FALSE
  OBVIOUS
<1>2. IsWellFoundedOn(R, Nat)
  BY NatIsWellFounded
<1> HIDE DEF R
<1>3. PICK n \in Nat \ S : \A m \in Nat \ S : ~ (<<m, n>> \in R)
  BY <1>1, <1>2, WFMin
<1>4. n # 0 /\ n - 1 \in Nat
  OBVIOUS
<1>5. <<n - 1, n>> \in R
  BY <1>4 DEF R
<1>6. n - 1 \in S
  BY <1>3, <1>4, <1>5
<1> QED BY <1>4, <1>6

\* The same up to a bound.
LEMMA BoundedInduction ==
  ASSUME NEW n \in Nat, NEW S, 0 \in S, \A k \in S : k \in 0 .. n - 1 => k + 1 \in S
  PROVE  0 .. n \subseteq S
<1> DEFINE T == {k \in Nat : k <= n => k \in S}
<1>1. 0 \in T
  OBVIOUS
<1>2. \A k \in T : k + 1 \in T
  OBVIOUS
<1>3. T = Nat
  <2> HIDE DEF T
  <2>1. T \in SUBSET Nat
    BY DEF T
  <2> QED BY <1>1, <1>2, <2>1, SetInduction
<1> QED BY <1>3

\* The values g of n rounds that begin with base, where round k makes Step[<<k, x>>]
\* of x.
AreRounds(g, n, base, Step) ==
  g = [k \in 0 .. n |-> IF k = 0 THEN base ELSE Step[<<k, g[k - 1]>>]]

\* There are such values, in the set that the rounds do not leave.
LEMMA RoundsExist ==
  ASSUME NEW X, NEW base \in X, NEW n \in Nat, NEW Step \in [(1 .. n) \X X -> X]
  PROVE  \E g \in [0 .. n -> X] : AreRounds(g, n, base, Step)
<1> DEFINE Solves(g, m) == /\ g \in [0 .. m -> X]
                           /\ g[0] = base
                           /\ \A k \in 1 .. m : g[k] = Step[<<k, g[k - 1]>>]
           S == {m \in Nat : m <= n => \E g : Solves(g, m)}
<1>1. 0 \in S
  <2>1. Solves([k \in 0 .. 0 |-> base], 0)
    OBVIOUS
  <2> QED BY <2>1
<1>2. ASSUME NEW m \in S, m + 1 <= n PROVE m + 1 \in S
  <2>1. PICK g : Solves(g, m)
    BY <1>2
  <2> DEFINE h == [k \in 0 .. (m + 1) |-> IF k <= m THEN g[k] ELSE Step[<<m + 1, g[m]>>]]
  <2>2. m \in Nat /\ m + 1 \in 1 .. n /\ g[m] \in X
    BY <1>2, <2>1
  <2>3. Step[<<m + 1, g[m]>>] \in X
    BY <2>2
  <2>4. h \in [0 .. (m + 1) -> X] /\ h[0] = base
    BY <2>1, <2>2, <2>3
  <2>5. ASSUME NEW k \in 1 .. (m + 1) PROVE h[k] = Step[<<k, h[k - 1]>>]
    <3>1. k - 1 \in 0 .. m /\ h[k - 1] = g[k - 1]
      BY <2>2
    <3>2. CASE k <= m
      <4>1. h[k] = g[k] /\ k \in 1 .. m
        BY <2>2, <3>2
      <4> QED BY <2>1, <3>1, <4>1
    <3>3. CASE k = m + 1
      <4>1. h[k] = Step[<<m + 1, g[m]>>] /\ k - 1 = m
        BY <2>2, <3>3
      <4> QED BY <3>1, <3>3, <4>1
    <3> QED BY <2>2, <3>2, <3>3
  <2>6. Solves(h, m + 1)
    BY <2>4, <2>5
  <2> HIDE DEF Solves
  <2> QED BY <2>2, <2>6
<1>3. S = Nat
  <2>1. \A m \in S : m + 1 \in S
    <3>1. ASSUME NEW m \in S, ~ (m + 1 <= n) PROVE m + 1 \in S
      BY <3>1
    <3> HIDE DEF S
    <3> QED BY <1>2, <3>1
  <2>2. S \in SUBSET Nat
    OBVIOUS
  <2> HIDE DEF S
  <2> QED BY <1>1, <2>1, <2>2, SetInduction
<1>4. PICK g : Solves(g, n)
  <2>1. n \in S
    BY <1>3
  <2> QED BY <2>1
<1>5. \A k \in 0 .. n : g[k] = IF k = 0 THEN base ELSE Step[<<k, g[k - 1]>>]
  BY <1>4
<1>6. g = [k \in 0 .. n |-> IF k = 0 THEN base ELSE Step[<<k, g[k - 1]>>]]
  <2>1. g = [k \in 0 .. n |-> g[k]]
    BY <1>4
  <2> QED BY <1>5, <2>1
<1> QED BY <1>4, <1>6 DEF AreRounds

-----------------------------------------------------------------------------

PlugRecords == [slot : BOOLEAN, node : BOOLEAN, remote : Nodes \cup {NoNode},
                refs : Nat, held : {0, 1}, waste : Nat]

SocketRecords == [slot : BOOLEAN, node : BOOLEAN, listed : BOOLEAN,
                  plugs : Seq(Edges), refs : Nat, waste : Nat]

NodeRecords == [refs : Int, user : Nat]

Graphs == [plugs : [Edges -> PlugRecords], sockets : [Nodes -> SocketRecords],
           nodes : [Nodes -> NodeRecords]]

\* A node that has users, or the one that is being destroyed, if there is one.
Lives(g, d, n) == g.nodes[n].user > 0 \/ n = d

\* A plug belongs to a node that lives, as long as that has a slot for it.
GoodPlug(p, lives) ==
  /\ p.remote # NoNode => p.slot
  /\ p.node => p.slot
  /\ p.slot => lives

\* All references to a socket are counted, apart from those that are lost; it knows
\* its node only if the node lives or nobody can ask for it; one that refers to a
\* node and has a list of plugs is not taken for its last references.
GoodSocket(s, lives, user) ==
  /\ s.refs >= Ref(s.slot) + Len(s.plugs)
  /\ s.refs <= Ref(s.slot) + Len(s.plugs) + s.waste
  /\ s.plugs # <<>> => s.listed
  /\ s.slot /\ s.node /\ s.listed => s.refs >= 2
  /\ s.slot => lives
  /\ s.node /\ s.plugs # <<>> => lives
  /\ user > 0 /\ ~ s.slot => ~ s.node /\ ~ s.listed /\ s.plugs = <<>>

OneEach(list) == \A i, j \in 1 .. Len(list) : list[i] = list[j] => i = j

\* The ends of all connections.
TwoEnds(g) ==
  \A n \in Nodes :
    /\ OneEach(g.sockets[n].plugs)
    /\ \A e \in Edges : e \in ToSet(g.sockets[n].plugs) <=> g.plugs[e].remote = n

\* Nodes know how often they are referred to.
Counted(g, d) == \A n \in Nodes \ {d} : g.nodes[n].refs = g.nodes[n].user + Inner(g, n)

\* The inductive invariant of a graph while the node d is being destroyed.
Good(g, d) ==
  /\ g \in Graphs
  /\ \A e \in Edges : GoodPlug(g.plugs[e], Lives(g, d, NodeOf(e)))
  /\ \A n \in Nodes : GoodSocket(g.sockets[n], Lives(g, d, n), g.nodes[n].user)
  /\ TwoEnds(g)
  /\ Counted(g, d)

\* All references to a plug are counted, apart from those that are lost.  A plug that
\* refers to its node without a connection is loose, or has a reference that was lost,
\* which its disconnection will take.
CountedPlug(p) ==
  /\ p.refs >= Ref(p.slot) + Ref(p.remote # NoNode) + p.held
  /\ p.refs <= Ref(p.slot) + Ref(p.remote # NoNode) + p.held + p.waste
  /\ p.remote # NoNode => p.node
  /\ p.node /\ p.remote = NoNode /\ p.waste > 0 => p.refs > 1 + p.held

CountedPlugs(g) ==
  \A e \in Edges :
    /\ CountedPlug(g.plugs[e])
    /\ g.nodes[NodeOf(e)].user > 0 /\ ~ g.plugs[e].slot =>
         g.plugs[e].held = 0 /\ g.plugs[e].waste = 0

\* A plug that is connected refers to its node.
JoinedPlug(p) == p.remote # NoNode => p.node

JoinedPlugs(g) == \A e \in Edges : JoinedPlug(g.plugs[e])

GraphInv == Good(Graph, NoNode) /\ JoinedPlugs(Graph)

PlugsInv == CountedPlugs(Graph)

-----------------------------------------------------------------------------
(* Lists of plugs.                                                            *)

\* An edge is a node and the number of one of its plugs.
LEMMA EdgeForm ==
  ASSUME NEW e \in Edges
  PROVE  /\ NodeOf(e) \in Nodes /\ e[2] \in 1 .. NPlugs[NodeOf(e)]
         /\ e = <<NodeOf(e), e[2]>>
BY DEF Edges, NodeOf

LEMMA EdgeIs ==
  ASSUME NEW n \in Nodes, NEW i \in 1 .. NPlugs[n]
  PROVE  <<n, i>> \in Edges /\ NodeOf(<<n, i>>) = n
BY DEF Edges, NodeOf

\* A list of plugs without the entry at a position.
LEMMA RemovedAt ==
  ASSUME NEW S, NEW s \in Seq(S), NEW i \in 1 .. Len(s)
  PROVE  /\ RemoveAt(s, i) \in Seq(S)
         /\ Len(RemoveAt(s, i)) = Len(s) - 1
         /\ \A k \in 1 .. Len(s) - 1 :
              RemoveAt(s, i)[k] = IF k < i THEN s[k] ELSE s[k + 1]
<1> DEFINE head == SubSeq(s, 1, i - 1)
           tail == SubSeq(s, i + 1, Len(s))
<1>1. Len(s) \in Nat /\ \A k \in 1 .. Len(s) : s[k] \in S
  BY ElementOfSeq
<1>2. /\ head \in Seq(S) /\ Len(head) = i - 1
      /\ \A k \in 1 .. i - 1 : head[k] = s[k]
  <2>1. i - 1 \in Int /\ \A k \in 1 .. i - 1 : s[k] \in S
    BY <1>1
  <2> QED BY <1>1, <2>1, SubSeqProperties
<1>3. /\ tail \in Seq(S) /\ Len(tail) = Len(s) - i
      /\ \A k \in 1 .. Len(s) - i : tail[k] = s[i + k]
  <2>1. i + 1 \in Int /\ \A k \in i + 1 .. Len(s) : s[k] \in S
    BY <1>1
  <2>2. /\ tail \in Seq(S)
        /\ Len(tail) = IF i + 1 <= Len(s) THEN Len(s) - (i + 1) + 1 ELSE 0
        /\ \A k \in 1 .. Len(s) - (i + 1) + 1 : tail[k] = s[(i + 1) + k - 1]
    BY <1>1, <2>1, SubSeqProperties
  <2> HIDE DEF tail
  <2>3. Len(tail) = Len(s) - i
    BY <1>1, <2>2
  <2>4. ASSUME NEW k \in 1 .. Len(s) - i PROVE tail[k] = s[i + k]
    <3>1. k \in 1 .. Len(s) - (i + 1) + 1 /\ (i + 1) + k - 1 = i + k
      BY <1>1
    <3> QED BY <2>2, <3>1
  <2> QED BY <2>2, <2>3, <2>4
<1> HIDE DEF head, tail
<1> DEFINE t == head \o tail
<1>4. /\ t \in Seq(S) /\ Len(t) = Len(s) - 1
      /\ \A k \in 1 .. Len(s) - 1 : t[k] = IF k <= i - 1 THEN head[k] ELSE tail[k - (i - 1)]
  BY <1>1, <1>2, <1>3, ConcatProperties
<1>5. RemoveAt(s, i) = t
  BY DEF RemoveAt, head, tail
<1> HIDE DEF t
<1>6. ASSUME NEW k \in 1 .. Len(s) - 1
      PROVE  t[k] = IF k < i THEN s[k] ELSE s[k + 1]
  <2>1. k \in Nat /\ i \in Nat
    BY <1>1
  <2>2. CASE k < i
    BY <1>2, <1>4, <2>1, <2>2
  <2>3. CASE k >= i
    <3>1. k - (i - 1) \in 1 .. Len(s) - i /\ i + (k - (i - 1)) = k + 1
      BY <1>1, <2>1, <2>3
    <3>2. tail[k - (i - 1)] = s[k + 1]
      BY <1>3, <3>1
    <3>3. t[k] = s[k + 1]
      BY <1>4, <2>1, <2>3, <3>2
    <3> QED BY <2>1, <2>3, <3>3
  <2> QED BY <2>1, <2>2, <2>3
<1> QED BY <1>4, <1>5, <1>6

LEMMA NothingListed ==
  ASSUME NEW s \in Seq(Edges)
  PROVE  s = << >> <=> ToSet(s) = {}
<1>1. Len(s) \in Nat /\ DOMAIN s = 1 .. Len(s)
  OBVIOUS
<1>2. s = << >> <=> Len(s) = 0
  BY EmptySeq
<1>3. Len(s) = 0 => ToSet(s) = {}
  BY <1>1 DEF ToSet
<1>4. Len(s) # 0 => s[1] \in ToSet(s)
  <2>1. Len(s) # 0 => 1 \in DOMAIN s
    BY <1>1
  <2> QED BY <2>1 DEF ToSet
<1> QED BY <1>2, <1>3, <1>4

\* A plug that is listed once is not listed any more, and the others are.
LEMMA WithoutProperties ==
  ASSUME NEW s \in Seq(Edges), OneEach(s), NEW e \in ToSet(s)
  PROVE  /\ Without(s, e) \in Seq(Edges)
         /\ Len(s) \in Nat /\ Len(s) > 0
         /\ Len(Without(s, e)) = Len(s) - 1
         /\ OneEach(Without(s, e))
         /\ ToSet(Without(s, e)) = ToSet(s) \ {e}
<1>1. Len(s) \in Nat /\ DOMAIN s = 1 .. Len(s)
  OBVIOUS
<1> DEFINE First(i) == s[i] = e /\ \A j \in 1 .. (i - 1) : s[j] # e
           i == CHOOSE k \in DOMAIN s : First(k)
           t == RemoveAt(s, i)
<1>2. i \in 1 .. Len(s) /\ s[i] = e
  <2>1. PICK k \in 1 .. Len(s) : s[k] = e
    BY <1>1 DEF ToSet
  <2>2. First(k)
    BY <1>1, <2>1 DEF OneEach
  <2> HIDE DEF First
  <2>3. i \in DOMAIN s /\ First(i)
    BY <1>1, <2>2
  <2> HIDE DEF i
  <2> QED BY <1>1, <2>3 DEF First
<1>3. Without(s, e) = t
  BY DEF Without
<1> HIDE DEF i
<1>4. /\ t \in Seq(Edges) /\ Len(t) = Len(s) - 1
      /\ \A k \in 1 .. Len(s) - 1 : t[k] = IF k < i THEN s[k] ELSE s[k + 1]
  BY <1>2, RemovedAt
<1> HIDE DEF t
<1> DEFINE From(k) == IF k < i THEN k ELSE k + 1
<1>5. /\ DOMAIN t = 1 .. Len(s) - 1
      /\ \A k \in 1 .. Len(s) - 1 : From(k) \in 1 .. Len(s) /\ From(k) # i /\ t[k] = s[From(k)]
  BY <1>1, <1>2, <1>4
<1>6. OneEach(t)
  <2> SUFFICES ASSUME NEW j \in 1 .. Len(s) - 1, NEW k \in 1 .. Len(s) - 1, t[j] = t[k]
               PROVE  j = k
    BY <1>4 DEF OneEach
  <2>1. From(j) = From(k)
    <3> HIDE DEF From
    <3> QED BY <1>5 DEF OneEach
  <2> QED BY <1>1, <1>2, <2>1
<1>7. \A k \in 1 .. Len(s) : k # i => \E j \in 1 .. Len(s) - 1 : From(j) = k
  <2> SUFFICES ASSUME NEW k \in 1 .. Len(s), k # i PROVE \E j \in 1 .. Len(s) - 1 : From(j) = k
    OBVIOUS
  <2>1. CASE k < i
    <3>1. k \in 1 .. Len(s) - 1 /\ From(k) = k
      BY <1>1, <1>2, <2>1
    <3> HIDE DEF From
    <3> QED BY <3>1
  <2>2. CASE k > i
    <3>1. k - 1 \in 1 .. Len(s) - 1 /\ From(k - 1) = k
      BY <1>1, <1>2, <2>2
    <3> HIDE DEF From
    <3> QED BY <3>1
  <2> QED BY <1>1, <1>2, <2>1, <2>2
<1>8. ToSet(t) = ToSet(s) \ {e}
  <2> HIDE DEF From
  <2>1. ASSUME NEW x \in ToSet(t) PROVE x \in ToSet(s) /\ x # e
    <3>1. PICK k \in 1 .. Len(s) - 1 : x = t[k]
      BY <1>5 DEF ToSet
    <3> QED BY <1>1, <1>2, <1>5, <3>1 DEF ToSet, OneEach
  <2>2. ASSUME NEW x \in ToSet(s), x # e PROVE x \in ToSet(t)
    <3>1. PICK k \in 1 .. Len(s) : x = s[k]
      BY <1>1 DEF ToSet
    <3>2. PICK j \in 1 .. Len(s) - 1 : From(j) = k
      BY <1>2, <1>7, <2>2, <3>1
    <3> QED BY <1>5, <3>1, <3>2 DEF ToSet
  <2> QED BY <2>1, <2>2
<1> QED BY <1>1, <1>2, <1>3, <1>4, <1>6, <1>8

\* A plug that was not listed is so once.
LEMMA AppendProperty ==
  ASSUME NEW s \in Seq(Edges), OneEach(s), NEW e \in Edges, e \notin ToSet(s)
  PROVE  /\ Append(s, e) \in Seq(Edges)
         /\ Len(s) \in Nat
         /\ Len(Append(s, e)) = Len(s) + 1
         /\ OneEach(Append(s, e))
         /\ ToSet(Append(s, e)) = ToSet(s) \cup {e}
<1> DEFINE r == Append(s, e)
<1>1. /\ r \in Seq(Edges) /\ Len(r) = Len(s) + 1 /\ Len(s) \in Nat
      /\ \A i \in 1 .. Len(s) : r[i] = s[i]
      /\ r[Len(s) + 1] = e
  BY AppendProperties
<1>2. DOMAIN r = 1 .. Len(r) /\ DOMAIN s = 1 .. Len(s)
  BY <1>1
<1> HIDE DEF r
<1>3. \A i \in 1 .. Len(r) : i \in 1 .. Len(s) \/ i = Len(s) + 1
  BY <1>1
<1>4. \A i \in 1 .. Len(s) : i \in 1 .. Len(r) /\ s[i] = r[i]
  BY <1>1
<1>5. Len(s) + 1 \in 1 .. Len(r)
  BY <1>1
<1>6. ToSet(r) = ToSet(s) \cup {e}
  BY <1>1, <1>2, <1>3, <1>4, <1>5 DEF ToSet
<1>7. OneEach(r)
  <2> SUFFICES ASSUME NEW i \in 1 .. Len(r), NEW j \in 1 .. Len(r), r[i] = r[j]
               PROVE  i = j
    BY DEF OneEach
  <2>1. \A k \in 1 .. Len(s) : s[k] # e
    BY <1>2 DEF ToSet
  <2> QED BY <1>1, <1>3, <1>4, <2>1 DEF OneEach
<1> QED BY <1>1, <1>6, <1>7 DEF r

-----------------------------------------------------------------------------
(* References of plugs to their node.                                         *)

Refers(p) == p.slot /\ p.node

PlugsOf(g, n) == {i \in 1 .. NPlugs[n] : g.plugs[<<n, i>>].slot /\ g.plugs[<<n, i>>].node}

PlugPart(g, n) == Cardinality(PlugsOf(g, n))

LEMMA PlugPartIsNat ==
  ASSUME NEW g, NEW n \in Nodes
  PROVE  IsFiniteSet(PlugsOf(g, n)) /\ PlugPart(g, n) \in Nat
<1>1. NPlugs[n] \in Nat
  BY FilterAssumption
<1>2. IsFiniteSet(1 .. NPlugs[n])
  BY <1>1, FS_Interval
<1>3. PlugsOf(g, n) \subseteq 1 .. NPlugs[n]
  BY DEF PlugsOf
<1> QED BY <1>2, <1>3, FS_Subset, FS_CardinalityType DEF PlugPart

LEMMA InnerIs ==
  ASSUME NEW g, NEW n
  PROVE  Inner(g, n) = Ref(g.sockets[n].slot /\ g.sockets[n].node) + PlugPart(g, n)
BY DEF Inner, PlugPart, PlugsOf

\* One plug changes, and with it the count of its node.
LEMMA PlugPartChange ==
  ASSUME NEW g, NEW h, NEW e \in Edges,
         Refers(g.plugs[e]) \in BOOLEAN, Refers(h.plugs[e]) \in BOOLEAN,
         \A f \in Edges \ {e} : h.plugs[f] = g.plugs[f]
  PROVE  \A n \in Nodes :
           PlugPart(h, n) = PlugPart(g, n) +
             (IF n = NodeOf(e) THEN Ref(Refers(h.plugs[e])) - Ref(Refers(g.plugs[e])) ELSE 0)
<1> SUFFICES ASSUME NEW n \in Nodes
             PROVE  PlugPart(h, n) = PlugPart(g, n) +
               (IF n = NodeOf(e) THEN Ref(Refers(h.plugs[e])) - Ref(Refers(g.plugs[e])) ELSE 0)
  OBVIOUS
<1> DEFINE i == e[2]
           G == PlugsOf(g, n)
           H == PlugsOf(h, n)
<1>1. /\ IsFiniteSet(G) /\ PlugPart(g, n) = Cardinality(G) /\ PlugPart(g, n) \in Nat
      /\ IsFiniteSet(H) /\ PlugPart(h, n) = Cardinality(H) /\ PlugPart(h, n) \in Nat
  BY PlugPartIsNat DEF PlugPart
<1>2. /\ G = {k \in 1 .. NPlugs[n] : Refers(g.plugs[<<n, k>>])}
      /\ H = {k \in 1 .. NPlugs[n] : Refers(h.plugs[<<n, k>>])}
  BY DEF PlugsOf, Refers
<1>3. \A k \in 1 .. NPlugs[n] : <<n, k>> \in Edges /\ NodeOf(<<n, k>>) = n
  BY EdgeIs
<1> HIDE DEF G, H
<1>4. CASE n # NodeOf(e)
  <2>1. \A k \in 1 .. NPlugs[n] : h.plugs[<<n, k>>] = g.plugs[<<n, k>>]
    BY <1>3, <1>4
  <2>2. G = H
    BY <1>2, <2>1
  <2> QED BY <1>1, <1>4, <2>2
<1>5. CASE n = NodeOf(e)
  <2>1. e = <<n, i>> /\ i \in 1 .. NPlugs[n]
    BY <1>5, EdgeForm
  <2> HIDE DEF i
  <2>2. \A k \in 1 .. NPlugs[n] : k # i => h.plugs[<<n, k>>] = g.plugs[<<n, k>>]
    BY <1>3, <2>1
  <2>3. G \ {i} = H \ {i}
    BY <1>2, <2>2
  <2>4. /\ i \in G <=> Refers(g.plugs[e])
        /\ i \in H <=> Refers(h.plugs[e])
    BY <1>2, <2>1
  <2>5. CASE Refers(g.plugs[e]) /\ Refers(h.plugs[e])
    <3>1. G = H
      BY <2>3, <2>4, <2>5
    <3> QED BY <1>1, <2>5, <3>1 DEF Ref
  <2>6. CASE ~ Refers(g.plugs[e]) /\ ~ Refers(h.plugs[e])
    <3>1. G = H
      BY <2>3, <2>4, <2>6
    <3> QED BY <1>1, <2>6, <3>1 DEF Ref
  <2>7. CASE Refers(g.plugs[e]) /\ ~ Refers(h.plugs[e])
    <3>1. H = G \ {i} /\ i \in G
      BY <2>3, <2>4, <2>7
    <3>2. Cardinality(H) = Cardinality(G) - 1
      BY <1>1, <3>1, FS_RemoveElement
    <3> QED BY <1>1, <1>5, <2>7, <3>2 DEF Ref
  <2>8. CASE ~ Refers(g.plugs[e]) /\ Refers(h.plugs[e])
    <3>1. H = G \cup {i} /\ i \notin G
      BY <2>3, <2>4, <2>8
    <3>2. Cardinality(H) = Cardinality(G) + 1
      BY <1>1, <3>1, FS_AddElement
    <3> QED BY <1>1, <1>5, <2>8, <3>2 DEF Ref
  <2> QED BY <2>5, <2>6, <2>7, <2>8
<1> QED BY <1>4, <1>5

-----------------------------------------------------------------------------
(* Releases of sockets and plugs.                                             *)

LEMMA RefIs == \A b \in BOOLEAN : Ref(b) \in {0, 1} /\ (b => Ref(b) = 1) /\ (~ b => Ref(b) = 0)
BY DEF Ref

LEMMA SocketLessIs ==
  ASSUME NEW s \in SocketRecords, s.refs > 0
  PROVE  LET t == SocketLess(s)
         IN  /\ t \in SocketRecords
             /\ t.slot = s.slot /\ t.node = s.node /\ t.listed = s.listed
             /\ t.plugs = s.plugs /\ t.waste = s.waste
             /\ t.refs = IF s.refs - 1 >= Ref(s.node) + Ref(s.listed) THEN s.refs - 1 ELSE 0
BY DEF SocketLess, SocketRecords, Ref

LEMMA PlugLessIs ==
  ASSUME NEW p \in PlugRecords
  PROVE  LET q == PlugLess(p)
         IN  /\ q \in PlugRecords
             /\ q.slot = p.slot /\ q.node = p.node /\ q.remote = p.remote
             /\ q.held = p.held /\ q.waste = p.waste
             /\ q.refs = IF p.refs > 1 /\ p.refs - 1 >= Ref(p.node) + Ref(p.remote # NoNode)
                         THEN p.refs - 1 ELSE 0
BY DEF PlugLess, PlugRecords, Ref

-----------------------------------------------------------------------------
(* The callback of a socket.                                                  *)

LEMMA GraphTypes ==
  ASSUME NEW g \in Graphs
  PROVE  /\ g.plugs \in [Edges -> PlugRecords]
         /\ g.sockets \in [Nodes -> SocketRecords]
         /\ g.nodes \in [Nodes -> NodeRecords]
         /\ g = [plugs |-> g.plugs, sockets |-> g.sockets, nodes |-> g.nodes]
         /\ \A e \in Edges : g.plugs[e] \in PlugRecords
         /\ \A n \in Nodes : /\ g.sockets[n] \in SocketRecords
                             /\ g.sockets[n].plugs \in Seq(Edges)
                             /\ g.nodes[n] \in NodeRecords
BY DEF Graphs, SocketRecords

\* What a plug is connected to lists it.
LEMMA ListedAt ==
  ASSUME NEW g, NEW d, Good(g, d), NEW e \in Edges, g.plugs[e].remote # NoNode
  PROVE  /\ g.plugs[e].remote \in Nodes
         /\ e \in ToSet(g.sockets[g.plugs[e].remote].plugs)
         /\ OneEach(g.sockets[g.plugs[e].remote].plugs)
<1>1. g \in Graphs /\ TwoEnds(g)
  BY DEF Good
<1>2. g.plugs[e] \in PlugRecords
  BY <1>1, GraphTypes
<1>3. g.plugs[e].remote \in Nodes
  BY <1>2 DEF PlugRecords
<1> QED BY <1>1, <1>3 DEF TwoEnds

\* A plug without a socket has nobody to tell.
LEMMA NobodyToTell ==
  ASSUME NEW g, NEW e, g.plugs[e].remote = NoNode
  PROVE  SocketCallback(g, e) = g
BY DEF SocketCallback

\* A socket s that a plug e leaves has one reference less.
LEMMA LeftIs ==
  ASSUME NEW s \in SocketRecords, NEW e \in ToSet(s.plugs), OneEach(s.plugs),
         s.refs >= Ref(s.slot) + Len(s.plugs), s.listed
  PROVE  LET t == Left(s, e)
         IN  /\ t \in SocketRecords
             /\ t.slot = s.slot /\ ~ t.node /\ t.listed /\ t.waste = s.waste
             /\ t.refs = s.refs - 1
             /\ Len(s.plugs) \in Nat /\ Len(s.plugs) > 0 /\ Len(t.plugs) = Len(s.plugs) - 1
             /\ OneEach(t.plugs) /\ ToSet(t.plugs) = ToSet(s.plugs) \ {e}
<1> DEFINE list == Without(s.plugs, e)
           u == [s EXCEPT !.node = FALSE, !.plugs = list]
<1>1. s.plugs \in Seq(Edges) /\ s.refs \in Nat /\ s.slot \in BOOLEAN
  BY DEF SocketRecords
<1>2. /\ list \in Seq(Edges)
      /\ Len(s.plugs) \in Nat /\ Len(s.plugs) > 0 /\ Len(list) = Len(s.plugs) - 1
      /\ OneEach(list) /\ ToSet(list) = ToSet(s.plugs) \ {e}
  BY <1>1, WithoutProperties
<1> HIDE DEF list
<1>3. /\ u \in SocketRecords
      /\ u.slot = s.slot /\ u.node = FALSE /\ u.listed /\ u.waste = s.waste
      /\ u.plugs = list /\ u.refs = s.refs
  BY <1>2 DEF SocketRecords
<1>4. Left(s, e) = SocketLess(u)
  BY DEF Left, list
<1> HIDE DEF u
<1>5. s.refs >= 1
  <2>1. Ref(s.slot) \in {0, 1} /\ s.refs >= Ref(s.slot) + Len(s.plugs)
    BY <1>1, RefIs
  <2> QED BY <1>1, <1>2, <2>1
<1>6. /\ SocketLess(u) \in SocketRecords
      /\ SocketLess(u).slot = s.slot /\ ~ SocketLess(u).node /\ SocketLess(u).listed
      /\ SocketLess(u).plugs = list /\ SocketLess(u).waste = s.waste
      /\ SocketLess(u).refs = IF s.refs - 1 >= 1 THEN s.refs - 1 ELSE 0
  <2>1. Ref(u.node) + Ref(u.listed) = 1
    BY <1>3 DEF Ref
  <2>2. u.refs > 0
    BY <1>1, <1>3, <1>5
  <2>3. LET t == SocketLess(u)
        IN  /\ t \in SocketRecords
            /\ t.slot = u.slot /\ t.node = u.node /\ t.listed = u.listed
            /\ t.plugs = u.plugs /\ t.waste = u.waste
            /\ t.refs = IF u.refs - 1 >= Ref(u.node) + Ref(u.listed) THEN u.refs - 1 ELSE 0
    BY <1>3, <2>2, SocketLessIs
  <2> QED BY <1>3, <2>1, <2>3
<1>7. SocketLess(u).refs = s.refs - 1
  BY <1>1, <1>5, <1>6
<1> QED BY <1>2, <1>4, <1>6, <1>7

LEMMA SocketCallbackIs ==
  ASSUME NEW g, NEW d, Good(g, d), NEW e \in Edges, NEW n \in Nodes, g.plugs[e].remote = n
  PROVE  LET h == SocketCallback(g, e)
             s == g.sockets[n]
         IN  /\ h.plugs = [g.plugs EXCEPT ![e].remote = NoNode]
             /\ h.sockets = [g.sockets EXCEPT ![n] = Left(s, e)]
             /\ h.nodes = [g.nodes EXCEPT ![n].refs = IF s.node THEN g.nodes[n].refs - 1
                                                               ELSE g.nodes[n].refs]
             /\ h = [plugs |-> h.plugs, sockets |-> h.sockets, nodes |-> h.nodes]
<1>1. g \in Graphs /\ n # NoNode /\ e \in ToSet(g.sockets[n].plugs)
  BY FilterAssumption, ListedAt DEF Good
<1>2. g = [plugs |-> g.plugs, sockets |-> g.sockets, nodes |-> g.nodes]
  BY <1>1, GraphTypes
<1> QED BY <1>1, <1>2 DEF SocketCallback

\* What a call leaves as it was, or takes away.
Keeps(g, h) ==
  /\ \A n \in Nodes : /\ h.nodes[n].user = g.nodes[n].user
                      /\ h.sockets[n].slot = g.sockets[n].slot
                      /\ h.sockets[n].node => g.sockets[n].node
                      /\ ToSet(h.sockets[n].plugs) \subseteq ToSet(g.sockets[n].plugs)
  /\ \A e \in Edges : h.plugs[e].slot = g.plugs[e].slot

LEMMA KeepsSame == \A g : Keeps(g, g)
BY DEF Keeps

LEMMA KeepsBoth ==
  ASSUME NEW g, NEW h, NEW k, Keeps(g, h), Keeps(h, k)
  PROVE  Keeps(g, k)
<1>1. ASSUME NEW n \in Nodes
      PROVE  /\ k.nodes[n].user = g.nodes[n].user
             /\ k.sockets[n].slot = g.sockets[n].slot
             /\ k.sockets[n].node => g.sockets[n].node
             /\ ToSet(k.sockets[n].plugs) \subseteq ToSet(g.sockets[n].plugs)
  BY DEF Keeps
<1>2. ASSUME NEW e \in Edges PROVE k.plugs[e].slot = g.plugs[e].slot
  BY DEF Keeps
<1> QED BY <1>1, <1>2 DEF Keeps

LEMMA SocketCallbackGood ==
  ASSUME NEW g, NEW d, Good(g, d), NEW e \in Edges
  PROVE  LET h == SocketCallback(g, e)
         IN  /\ Good(h, d) /\ Keeps(g, h)
             /\ h.plugs = [g.plugs EXCEPT ![e].remote = NoNode]
             /\ g.plugs[e].remote # NoNode => ~ h.sockets[g.plugs[e].remote].node
<1> DEFINE n == g.plugs[e].remote
           h == SocketCallback(g, e)
           s == g.sockets[n]
           t == Left(s, e)
           p == g.plugs[e]
           q == [p EXCEPT !.remote = NoNode]
<1>0. g \in Graphs /\ TwoEnds(g) /\ Counted(g, d)
  BY DEF Good
<1>t. /\ g.plugs \in [Edges -> PlugRecords] /\ g.sockets \in [Nodes -> SocketRecords]
      /\ g.nodes \in [Nodes -> NodeRecords]
      /\ p \in PlugRecords
      /\ g = [plugs |-> g.plugs, sockets |-> g.sockets, nodes |-> g.nodes]
  BY <1>0, GraphTypes
<1>q. /\ q \in PlugRecords /\ q.remote = NoNode
      /\ q.slot = p.slot /\ q.node = p.node /\ q.held = p.held /\ q.waste = p.waste
      /\ q.refs = p.refs
  BY <1>t DEF PlugRecords
<1>1. CASE n = NoNode
  <2>1. h = g
    BY <1>1, NobodyToTell
  <2>2. q = p
    BY <1>t, <1>1 DEF PlugRecords
  <2>3. g.plugs = [g.plugs EXCEPT ![e] = q]
    BY <1>t, <2>2
  <2> QED BY <1>1, <2>1, <2>3, KeepsSame
<1>2. CASE n # NoNode
  <2>1. n \in Nodes /\ e \in ToSet(s.plugs) /\ OneEach(s.plugs)
    BY <1>2, ListedAt
  <2>2. s \in SocketRecords /\ GoodSocket(s, Lives(g, d, n), g.nodes[n].user)
    BY <1>t, <2>1 DEF Good
  <2>3. s.plugs # <<>>
    <3>1. s.plugs \in Seq(Edges)
      BY <2>2 DEF SocketRecords
    <3> QED BY <2>1, <3>1, NothingListed
  <2>4. /\ t \in SocketRecords
        /\ t.slot = s.slot /\ ~ t.node /\ t.listed /\ t.waste = s.waste
        /\ t.refs = s.refs - 1
        /\ Len(s.plugs) \in Nat /\ Len(s.plugs) > 0 /\ Len(t.plugs) = Len(s.plugs) - 1
        /\ OneEach(t.plugs) /\ ToSet(t.plugs) = ToSet(s.plugs) \ {e}
    BY <2>1, <2>2, <2>3, LeftIs DEF GoodSocket
  <2>5. /\ h.plugs = [g.plugs EXCEPT ![e] = q]
        /\ h.sockets = [g.sockets EXCEPT ![n] = t]
        /\ h.nodes = [g.nodes EXCEPT ![n].refs = IF s.node THEN g.nodes[n].refs - 1
                                                        ELSE g.nodes[n].refs]
        /\ h = [plugs |-> h.plugs, sockets |-> h.sockets, nodes |-> h.nodes]
    BY <2>1, SocketCallbackIs
  <2> HIDE DEF h, t, q, s
  <2>6. /\ \A f \in Edges : h.plugs[f] = IF f = e THEN q ELSE g.plugs[f]
        /\ \A m \in Nodes : h.sockets[m] = IF m = n THEN t ELSE g.sockets[m]
    BY <1>t, <2>1, <2>5
  <2>7. /\ h.nodes \in [Nodes -> NodeRecords]
        /\ \A m \in Nodes : /\ h.nodes[m].user = g.nodes[m].user
                            /\ h.nodes[m].refs = IF m = n /\ s.node THEN g.nodes[m].refs - 1
                                                                   ELSE g.nodes[m].refs
    <3> DEFINE c == IF s.node THEN g.nodes[n].refs - 1 ELSE g.nodes[n].refs
    <3>1. g.nodes[n].refs \in Int /\ c \in Int
      BY <1>t, <2>1 DEF NodeRecords
    <3>2. h.nodes = [g.nodes EXCEPT ![n].refs = c]
      BY <2>5
    <3>3. h.nodes \in [Nodes -> NodeRecords]
      <4> HIDE DEF c
      <4>1. g.nodes \in [Nodes -> NodeRecords]
        BY <1>t
      <4>2. \A m \in Nodes : [g.nodes[m] EXCEPT !.refs = c] \in NodeRecords
        <5>1. SUFFICES ASSUME NEW m \in Nodes PROVE [g.nodes[m] EXCEPT !.refs = c] \in NodeRecords
          OBVIOUS
        <5>2. g.nodes[m] \in NodeRecords
          BY <4>1
        <5> QED BY <3>1, <5>2 DEF NodeRecords
      <4>3. h.nodes = [m \in Nodes |-> IF m = n THEN [g.nodes[n] EXCEPT !.refs = c] ELSE g.nodes[m]]
        BY <3>2, <4>1
      <4>4. \A m \in Nodes : (IF m = n THEN [g.nodes[n] EXCEPT !.refs = c] ELSE g.nodes[m]) \in NodeRecords
        <5>1. ASSUME NEW m \in Nodes, m = n PROVE [g.nodes[n] EXCEPT !.refs = c] \in NodeRecords
          BY <4>2, <5>1
        <5>2. ASSUME NEW m \in Nodes PROVE g.nodes[m] \in NodeRecords
          BY <4>1
        <5> QED BY <5>1, <5>2
      <4> HIDE DEF n
      <4> QED BY <4>3, <4>4
    <3>4. ASSUME NEW m \in Nodes
          PROVE  /\ h.nodes[m].user = g.nodes[m].user
                 /\ h.nodes[m].refs = IF m = n THEN c ELSE g.nodes[m].refs
      <4> HIDE DEF c
      <4> QED BY <1>t, <3>2 DEF NodeRecords
    <3> QED BY <3>3, <3>4
  <2>8. h \in Graphs
    <3>1. h.plugs \in [Edges -> PlugRecords]
      BY <1>t, <1>q, <2>5
    <3>2. h.sockets \in [Nodes -> SocketRecords]
      BY <1>t, <2>1, <2>4, <2>5
    <3> QED BY <2>5, <2>7, <3>1, <3>2 DEF Graphs
  <2>9. \A m \in Nodes : Lives(h, d, m) <=> Lives(g, d, m)
    BY <2>7 DEF Lives
  <2>10. \A f \in Edges : GoodPlug(h.plugs[f], Lives(h, d, NodeOf(f)))
    <3> SUFFICES ASSUME NEW f \in Edges PROVE GoodPlug(h.plugs[f], Lives(h, d, NodeOf(f)))
      OBVIOUS
    <3>1. GoodPlug(g.plugs[f], Lives(g, d, NodeOf(f))) /\ NodeOf(f) \in Nodes
      BY EdgeForm DEF Good
    <3> QED BY <1>q, <2>6, <2>9, <3>1 DEF GoodPlug
  <2>11. \A m \in Nodes : GoodSocket(h.sockets[m], Lives(h, d, m), h.nodes[m].user)
    <3> SUFFICES ASSUME NEW m \in Nodes PROVE GoodSocket(h.sockets[m], Lives(h, d, m), h.nodes[m].user)
      OBVIOUS
    <3>1. CASE m # n
      BY <2>6, <2>7, <2>9, <3>1 DEF Good, GoodSocket
    <3>2. CASE m = n
      <4>1. s.slot \in BOOLEAN /\ s.refs \in Nat /\ s.waste \in Nat /\ Ref(s.slot) \in {0, 1}
        BY <2>2, RefIs DEF SocketRecords
      <4>2. GoodSocket(t, Lives(g, d, n), g.nodes[n].user)
        <5>1. /\ t.refs >= Ref(t.slot) + Len(t.plugs)
              /\ t.refs <= Ref(t.slot) + Len(t.plugs) + t.waste
          BY <2>2, <2>4, <4>1 DEF GoodSocket
        <5>2. t.slot => Lives(g, d, n)
          BY <2>2, <2>4 DEF GoodSocket
        <5>3. g.nodes[n].user > 0 /\ ~ t.slot => FALSE
          BY <2>2, <2>3, <2>4 DEF GoodSocket
        <5> QED BY <2>4, <5>1, <5>2, <5>3 DEF GoodSocket
      <4>3. h.sockets[m] = t /\ h.nodes[m].user = g.nodes[n].user
        BY <2>1, <2>6, <2>7, <3>2
      <4>4. Lives(h, d, m) <=> Lives(g, d, n)
        BY <2>9, <3>2
      <4> QED BY <4>2, <4>3, <4>4 DEF GoodSocket
    <3> QED BY <3>1, <3>2
  <2>12. TwoEnds(h)
    <3> SUFFICES ASSUME NEW m \in Nodes
                 PROVE  /\ OneEach(h.sockets[m].plugs)
                        /\ \A f \in Edges : f \in ToSet(h.sockets[m].plugs) <=> h.plugs[f].remote = m
      BY DEF TwoEnds
    <3>1. /\ OneEach(g.sockets[m].plugs)
          /\ \A f \in Edges : f \in ToSet(g.sockets[m].plugs) <=> g.plugs[f].remote = m
      BY <1>0 DEF TwoEnds
    <3>2. m # NoNode
      BY FilterAssumption
    <3>3. \A f \in Edges : f # e => h.plugs[f].remote = g.plugs[f].remote
      BY <2>6
    <3>4. h.plugs[e].remote # m
      BY <1>q, <2>6, <3>2
    <3>5. CASE m = n
      <4>1. h.sockets[m] = t /\ g.sockets[m] = s
        BY <2>6, <3>5 DEF s
      <4>2. OneEach(h.sockets[m].plugs)
        BY <2>4, <4>1
      <4>3. ToSet(h.sockets[m].plugs) = ToSet(g.sockets[m].plugs) \ {e}
        BY <2>4, <4>1
      <4> QED BY <3>1, <3>3, <3>4, <4>2, <4>3
    <3>6. CASE m # n
      <4>1. h.sockets[m] = g.sockets[m]
        BY <2>6, <3>6
      <4>2. e \notin ToSet(g.sockets[m].plugs)
        BY <3>1, <3>6
      <4> QED BY <3>1, <3>3, <3>4, <4>1, <4>2
    <3> QED BY <3>5, <3>6
  <2>13. Counted(h, d)
    <3> SUFFICES ASSUME NEW m \in Nodes \ {d}
                 PROVE  h.nodes[m].refs = h.nodes[m].user + Inner(h, m)
      BY DEF Counted
    <3>1. g.nodes[m].refs = g.nodes[m].user + Inner(g, m)
      BY <1>0 DEF Counted
    <3>2. PlugPart(h, m) = PlugPart(g, m) /\ PlugPart(g, m) \in Nat
      <4>1. \A i \in 1 .. NPlugs[m] :
              /\ h.plugs[<<m, i>>].slot = g.plugs[<<m, i>>].slot
              /\ h.plugs[<<m, i>>].node = g.plugs[<<m, i>>].node
        BY <1>q, <2>6, EdgeIs
      <4>2. PlugsOf(h, m) = PlugsOf(g, m)
        BY <4>1 DEF PlugsOf
      <4> QED BY <4>2, PlugPartIsNat DEF PlugPart
    <3>3. g.nodes[m] \in NodeRecords /\ g.nodes[m].refs \in Int /\ g.nodes[m].user \in Nat
      BY <1>t DEF NodeRecords
    <3>4. CASE m # n
      <4>1. h.sockets[m] = g.sockets[m] /\ h.nodes[m].refs = g.nodes[m].refs
        BY <2>6, <2>7, <3>4
      <4>2. Inner(h, m) = Inner(g, m)
        BY <3>2, <4>1, InnerIs
      <4> QED BY <2>7, <3>1, <4>1, <4>2
    <3>5. CASE m = n
      <4>1. s.slot \in BOOLEAN /\ s.node \in BOOLEAN
        BY <2>2 DEF SocketRecords
      <4>2. s.node => s.slot
        <5>1. s.node => g.nodes[n].user > 0
          BY <2>2, <2>3, <3>5 DEF GoodSocket, Lives
        <5> QED BY <2>2, <5>1 DEF GoodSocket
      <4>3. Inner(g, n) = Ref(s.node) + PlugPart(g, n)
        BY <4>1, <4>2, InnerIs DEF Ref, s
      <4>4. Inner(h, n) = PlugPart(h, n)
        BY <2>1, <2>4, <2>6, <3>2, <3>5, InnerIs DEF Ref
      <4> QED BY <2>7, <3>1, <3>2, <3>3, <3>5, <4>1, <4>3, <4>4 DEF Ref
    <3> QED BY <3>4, <3>5
  <2>14. Good(h, d)
    BY <2>8, <2>10, <2>11, <2>12, <2>13 DEF Good
  <2>15. Keeps(g, h)
    BY <1>q, <2>4, <2>6, <2>7 DEF Keeps, s
  <2> QED BY <2>1, <2>4, <2>5, <2>6, <2>14, <2>15 DEF h, q
<1> QED BY <1>1, <1>2

-----------------------------------------------------------------------------
(* One plug or one socket changes.                                            *)

\* The count of a node follows a reference that comes or goes.
Follows(g, h, d, n, diff) ==
  /\ \A m \in Nodes : h.nodes[m].user = g.nodes[m].user
  /\ \A m \in Nodes \ {d} :
       h.nodes[m].refs = IF m = n THEN g.nodes[m].refs + diff ELSE g.nodes[m].refs

LEMMA PlugChange ==
  ASSUME NEW g, NEW d, Good(g, d), NEW e \in Edges, NEW q \in PlugRecords,
         q.remote = g.plugs[e].remote,
         GoodPlug(q, Lives(g, d, NodeOf(e))),
         NEW h \in Graphs, h.plugs = [g.plugs EXCEPT ![e] = q], h.sockets = g.sockets,
         Follows(g, h, d, NodeOf(e), Ref(Refers(q)) - Ref(Refers(g.plugs[e])))
  PROVE  Good(h, d)
<1> DEFINE p == g.plugs[e]
<1>1. /\ g \in Graphs /\ TwoEnds(g) /\ Counted(g, d)
      /\ g.plugs \in [Edges -> PlugRecords] /\ p \in PlugRecords
      /\ \A m \in Nodes : g.nodes[m] \in NodeRecords
  BY GraphTypes DEF Good
<1>2. \A f \in Edges : h.plugs[f] = IF f = e THEN q ELSE g.plugs[f]
  BY <1>1
<1>3. \A m \in Nodes : Lives(h, d, m) <=> Lives(g, d, m)
  BY DEF Lives, Follows
<1>4. \A f \in Edges : GoodPlug(h.plugs[f], Lives(h, d, NodeOf(f)))
  <2> SUFFICES ASSUME NEW f \in Edges PROVE GoodPlug(h.plugs[f], Lives(h, d, NodeOf(f)))
    OBVIOUS
  <2>1. GoodPlug(g.plugs[f], Lives(g, d, NodeOf(f))) /\ NodeOf(f) \in Nodes
    BY EdgeForm DEF Good
  <2>2. GoodPlug(h.plugs[f], Lives(g, d, NodeOf(f)))
    BY <1>2, <2>1
  <2> QED BY <1>3, <2>1, <2>2 DEF GoodPlug
<1>5. \A m \in Nodes : GoodSocket(h.sockets[m], Lives(h, d, m), h.nodes[m].user)
  BY <1>3 DEF Good, GoodSocket, Follows
<1>6. TwoEnds(h)
  BY <1>1, <1>2 DEF TwoEnds
<1>7. Counted(h, d)
  <2> SUFFICES ASSUME NEW m \in Nodes \ {d}
               PROVE  h.nodes[m].refs = h.nodes[m].user + Inner(h, m)
    BY DEF Counted
  <2>1. g.nodes[m].refs = g.nodes[m].user + Inner(g, m)
    BY <1>1 DEF Counted
  <2>2. Refers(p) \in BOOLEAN /\ Refers(q) \in BOOLEAN
    BY <1>1 DEF Refers, PlugRecords
  <2> DEFINE diff == Ref(Refers(q)) - Ref(Refers(p))
  <2>3. diff \in Int
    BY <2>2 DEF Ref
  <2>4. PlugPart(h, m) = PlugPart(g, m) + (IF m = NodeOf(e) THEN diff ELSE 0)
    <3>1. h.plugs[e] = q /\ \A f \in Edges \ {e} : h.plugs[f] = g.plugs[f]
      BY <1>2
    <3>2. \A k \in Nodes :
            PlugPart(h, k) = PlugPart(g, k) +
              (IF k = NodeOf(e) THEN Ref(Refers(h.plugs[e])) - Ref(Refers(g.plugs[e])) ELSE 0)
      BY <2>2, <3>1, PlugPartChange
    <3> QED BY <3>1, <3>2
  <2>5. h.nodes[m].refs = IF m = NodeOf(e) THEN g.nodes[m].refs + diff ELSE g.nodes[m].refs
    BY DEF Follows
  <2> DEFINE own == Ref(g.sockets[m].slot /\ g.sockets[m].node)
  <2>6. /\ PlugPart(g, m) \in Nat /\ own \in Int
        /\ g.nodes[m].refs \in Int /\ g.nodes[m].user \in Int
    BY <1>1, PlugPartIsNat DEF Ref, NodeRecords
  <2>7. Inner(g, m) = own + PlugPart(g, m) /\ Inner(h, m) = own + PlugPart(h, m)
    BY InnerIs
  <2>8. h.nodes[m].user = g.nodes[m].user
    BY DEF Follows
  <2> HIDE DEF diff, own
  <2> QED BY <2>1, <2>3, <2>4, <2>5, <2>6, <2>7, <2>8
<1> QED BY <1>4, <1>5, <1>6, <1>7 DEF Good

LEMMA SocketChange ==
  ASSUME NEW g, NEW d, Good(g, d), NEW n \in Nodes, NEW t \in SocketRecords,
         t.plugs = g.sockets[n].plugs,
         GoodSocket(t, Lives(g, d, n), g.nodes[n].user),
         NEW h \in Graphs, h.sockets = [g.sockets EXCEPT ![n] = t], h.plugs = g.plugs,
         Follows(g, h, d, n, Ref(t.slot /\ t.node) -
                             Ref(g.sockets[n].slot /\ g.sockets[n].node))
  PROVE  Good(h, d)
<1> DEFINE s == g.sockets[n]
<1>1. /\ g \in Graphs /\ TwoEnds(g) /\ Counted(g, d)
      /\ g.sockets \in [Nodes -> SocketRecords] /\ s \in SocketRecords
      /\ \A m \in Nodes : g.nodes[m] \in NodeRecords
  BY GraphTypes DEF Good
<1>2. \A m \in Nodes : h.sockets[m] = IF m = n THEN t ELSE g.sockets[m]
  BY <1>1
<1>3. \A m \in Nodes : (Lives(h, d, m) <=> Lives(g, d, m)) /\ h.nodes[m].user = g.nodes[m].user
  BY DEF Lives, Follows
<1>4. \A f \in Edges : GoodPlug(h.plugs[f], Lives(h, d, NodeOf(f)))
  <2> SUFFICES ASSUME NEW f \in Edges PROVE GoodPlug(h.plugs[f], Lives(h, d, NodeOf(f)))
    OBVIOUS
  <2>1. GoodPlug(g.plugs[f], Lives(g, d, NodeOf(f))) /\ NodeOf(f) \in Nodes
    BY EdgeForm DEF Good
  <2> QED BY <1>3, <2>1 DEF GoodPlug
<1>5. \A m \in Nodes : GoodSocket(h.sockets[m], Lives(h, d, m), h.nodes[m].user)
  <2> SUFFICES ASSUME NEW m \in Nodes
               PROVE  GoodSocket(h.sockets[m], Lives(h, d, m), h.nodes[m].user)
    OBVIOUS
  <2>1. GoodSocket(h.sockets[m], Lives(g, d, m), g.nodes[m].user)
    BY <1>2 DEF Good
  <2> QED BY <1>3, <2>1 DEF GoodSocket
<1>6. TwoEnds(h)
  BY <1>1, <1>2 DEF TwoEnds
<1>7. Counted(h, d)
  <2> SUFFICES ASSUME NEW m \in Nodes \ {d}
               PROVE  h.nodes[m].refs = h.nodes[m].user + Inner(h, m)
    BY DEF Counted
  <2>1. g.nodes[m].refs = g.nodes[m].user + Inner(g, m)
    BY <1>1 DEF Counted
  <2> DEFINE before == Ref(g.sockets[m].slot /\ g.sockets[m].node)
             after == Ref(h.sockets[m].slot /\ h.sockets[m].node)
  <2>2. /\ PlugPart(g, m) \in Nat /\ before \in Int /\ after \in Int
        /\ g.nodes[m].refs \in Int /\ g.nodes[m].user \in Int
    BY <1>1, PlugPartIsNat DEF Ref, NodeRecords
  <2>3. PlugPart(h, m) = PlugPart(g, m)
    BY DEF PlugPart, PlugsOf
  <2>4. Inner(g, m) = before + PlugPart(g, m) /\ Inner(h, m) = after + PlugPart(g, m)
    BY <2>3, InnerIs
  <2>5. h.nodes[m].refs = g.nodes[m].refs + (after - before)
    BY <1>2, <2>2 DEF Follows
  <2> HIDE DEF before, after
  <2> QED BY <1>3, <2>1, <2>2, <2>4, <2>5
<1> QED BY <1>4, <1>5, <1>6, <1>7 DEF Good

\* A graph with another plug.
LEMMA PlugReplaced ==
  ASSUME NEW g \in Graphs, NEW e \in Edges, NEW q \in PlugRecords
  PROVE  LET h == [g EXCEPT !.plugs[e] = q]
         IN  /\ h \in Graphs
             /\ h.plugs = [g.plugs EXCEPT ![e] = q]
             /\ h.sockets = g.sockets /\ h.nodes = g.nodes
BY DEF Graphs

\* A graph with another socket.
LEMMA SocketReplaced ==
  ASSUME NEW g \in Graphs, NEW n \in Nodes, NEW t \in SocketRecords
  PROVE  LET h == [g EXCEPT !.sockets[n] = t]
         IN  /\ h \in Graphs
             /\ h.sockets = [g.sockets EXCEPT ![n] = t]
             /\ h.plugs = g.plugs /\ h.nodes = g.nodes
BY DEF Graphs

IsGraph(h) == DOMAIN h = {"plugs", "sockets", "nodes"} /\ h = [x \in DOMAIN h |-> h[x]]

LEMMA GraphOfParts ==
  ASSUME NEW h, IsGraph(h), h.plugs \in [Edges -> PlugRecords],
         h.sockets \in [Nodes -> SocketRecords], h.nodes \in [Nodes -> NodeRecords]
  PROVE  h \in Graphs
<1>1. h = [plugs |-> h.plugs, sockets |-> h.sockets, nodes |-> h.nodes]
  BY DEF IsGraph
<1> QED BY <1>1 DEF Graphs

-----------------------------------------------------------------------------
(* A plug is disconnected.                                                    *)

\* What is left of a plug that has no socket any more after its callback.
LEMMA PlugCallbackIs ==
  ASSUME NEW g \in Graphs, NEW e \in Edges, g.plugs[e].remote = NoNode
  PROVE  LET h == PlugCallback(g, e)
             p == g.plugs[e]
         IN  \E u \in PlugRecords :
               /\ u.slot = p.slot /\ ~ u.node /\ u.remote = NoNode
               /\ u.held = p.held /\ u.waste = p.waste
               /\ u.refs = IF ~ p.node THEN p.refs ELSE IF p.refs > 1 THEN p.refs - 1 ELSE 0
               /\ h \in Graphs
               /\ h.plugs = [g.plugs EXCEPT ![e] = u] /\ h.sockets = g.sockets
               /\ \A m \in Nodes :
                    /\ h.nodes[m].user = g.nodes[m].user
                    /\ h.nodes[m].refs = IF m = NodeOf(e) THEN g.nodes[m].refs - Ref(p.node)
                                                          ELSE g.nodes[m].refs
<1> DEFINE p == g.plugs[e]
           v == [p EXCEPT !.node = FALSE]
           q == IF p.node THEN PlugLess(v) ELSE p
           w == IF q.remote # NoNode THEN PlugLess(q) ELSE q
           u == [w EXCEPT !.remote = NoNode]
           r == IF p.node THEN g.nodes[NodeOf(e)].refs - 1 ELSE g.nodes[NodeOf(e)].refs
           h == PlugCallback(g, e)
<1>0. /\ g.plugs \in [Edges -> PlugRecords] /\ g.sockets \in [Nodes -> SocketRecords]
      /\ g = [plugs |-> g.plugs, sockets |-> g.sockets, nodes |-> g.nodes]
  BY GraphTypes
<1>1. /\ p \in PlugRecords /\ p.refs \in Nat /\ p.node \in BOOLEAN
      /\ g.nodes[NodeOf(e)] \in NodeRecords /\ g.nodes[NodeOf(e)].refs \in Int
  BY GraphTypes, EdgeForm DEF PlugRecords, NodeRecords
<1>2. h = [g EXCEPT !.nodes[NodeOf(e)].refs = r, !.plugs[e] = u]
  BY DEF PlugCallback
<1>3. /\ v \in PlugRecords /\ v.slot = p.slot /\ v.node = FALSE /\ v.remote = NoNode
      /\ v.held = p.held /\ v.waste = p.waste /\ v.refs = p.refs
  BY <1>1 DEF PlugRecords
<1> HIDE DEF h, p, v
<1>4. LET x == PlugLess(v)
      IN  /\ x \in PlugRecords
          /\ x.slot = v.slot /\ x.node = v.node /\ x.remote = v.remote
          /\ x.held = v.held /\ x.waste = v.waste
          /\ x.refs = IF v.refs > 1 /\ v.refs - 1 >= Ref(v.node) + Ref(v.remote # NoNode)
                      THEN v.refs - 1 ELSE 0
  BY <1>3, PlugLessIs
<1>5. Ref(v.node) + Ref(v.remote # NoNode) = 0
  BY <1>3 DEF Ref
<1>6. /\ q \in PlugRecords /\ q.slot = p.slot /\ ~ q.node /\ q.remote = NoNode
      /\ q.held = p.held /\ q.waste = p.waste
      /\ q.refs = IF ~ p.node THEN p.refs ELSE IF p.refs > 1 THEN p.refs - 1 ELSE 0
  BY <1>1, <1>3, <1>4, <1>5 DEF p
<1> HIDE DEF q
<1>7. /\ u \in PlugRecords /\ u.slot = p.slot /\ ~ u.node /\ u.remote = NoNode
      /\ u.held = p.held /\ u.waste = p.waste
      /\ u.refs = IF ~ p.node THEN p.refs ELSE IF p.refs > 1 THEN p.refs - 1 ELSE 0
  BY <1>6 DEF PlugRecords
<1>8. r \in Int /\ r = g.nodes[NodeOf(e)].refs - Ref(p.node)
  BY <1>1 DEF Ref
<1> HIDE DEF u, r
<1>9. /\ h \in Graphs
      /\ h.plugs = [g.plugs EXCEPT ![e] = u] /\ h.sockets = g.sockets
      /\ \A m \in Nodes : /\ h.nodes[m].user = g.nodes[m].user
                          /\ h.nodes[m].refs = IF m = NodeOf(e) THEN r ELSE g.nodes[m].refs
  <2>1. h.plugs = [g.plugs EXCEPT ![e] = u] /\ h.sockets = g.sockets
    BY <1>0, <1>2
  <2>2. h.nodes = [g.nodes EXCEPT ![NodeOf(e)].refs = r] /\ IsGraph(h)
    BY <1>0, <1>2 DEF IsGraph
  <2>3. h.plugs \in [Edges -> PlugRecords] /\ h.sockets \in [Nodes -> SocketRecords]
    BY <1>0, <1>7, <2>1
  <2>4. /\ h.nodes \in [Nodes -> NodeRecords]
        /\ \A m \in Nodes : /\ h.nodes[m].user = g.nodes[m].user
                            /\ h.nodes[m].refs = IF m = NodeOf(e) THEN r ELSE g.nodes[m].refs
    <3>1. g.nodes \in [Nodes -> NodeRecords] /\ NodeOf(e) \in Nodes
      BY GraphTypes, EdgeForm
    <3> QED BY <1>8, <2>2, <3>1 DEF NodeRecords
  <2> QED BY <2>1, <2>2, <2>3, <2>4, GraphOfParts
<1>10. \A m \in Nodes : h.nodes[m].refs = IF m = NodeOf(e) THEN g.nodes[m].refs - Ref(p.node)
                                                           ELSE g.nodes[m].refs
  BY <1>8, <1>9
<1> QED BY <1>7, <1>9, <1>10 DEF h, p

\* A plug gives back the reference by which its node and its socket kept it.
LEMMA UnpluggedCounts ==
  ASSUME NEW p \in PlugRecords, NEW u \in PlugRecords, CountedPlug(p), ~ Loose(p),
         p.remote # NoNode => p.slot, p.node => p.slot,
         u.slot = p.slot, ~ u.node, u.remote = NoNode, u.held = p.held, u.waste = p.waste,
         u.refs = IF ~ p.node THEN p.refs ELSE IF p.refs > 1 THEN p.refs - 1 ELSE 0
  PROVE  CountedPlug(u)
BY DEF CountedPlug, PlugRecords, Ref, Loose

LEMMA DisconnectedGood ==
  ASSUME NEW g, NEW d, Good(g, d), NEW e \in Edges
  PROVE  LET h == Disconnected(g, e)
             p == g.plugs[e]
             u == h.plugs[e]
         IN  /\ Good(h, d) /\ Keeps(g, h)
             /\ u \in PlugRecords /\ h.plugs = [g.plugs EXCEPT ![e] = u]
             /\ u.slot = p.slot /\ ~ u.node /\ u.remote = NoNode
             /\ u.held = p.held /\ u.waste = p.waste
             /\ CountedPlug(p) /\ ~ Loose(p) => CountedPlug(u)
             /\ p.remote # NoNode => ~ h.sockets[p.remote].node
<1> DEFINE k == SocketCallback(g, e)
           h == Disconnected(g, e)
           p == g.plugs[e]
           q == [p EXCEPT !.remote = NoNode]
<1>1. /\ Good(k, d) /\ Keeps(g, k)
      /\ k.plugs = [g.plugs EXCEPT ![e] = q]
      /\ p.remote # NoNode => ~ k.sockets[p.remote].node
  BY SocketCallbackGood
<1>2. h = PlugCallback(k, e)
  BY DEF Disconnected
<1>3. /\ g \in Graphs /\ k \in Graphs /\ p \in PlugRecords
      /\ g.plugs \in [Edges -> PlugRecords] /\ k.plugs \in [Edges -> PlugRecords]
  BY <1>1, GraphTypes DEF Good
<1> HIDE DEF k, h
<1>4. /\ q \in PlugRecords /\ q.remote = NoNode
      /\ q.slot = p.slot /\ q.node = p.node /\ q.held = p.held /\ q.waste = p.waste
      /\ q.refs = p.refs
  BY <1>3 DEF PlugRecords
<1> HIDE DEF p, q
<1>5. k.plugs[e] = q
  BY <1>1, <1>3
<1>6. PICK u \in PlugRecords :
        /\ u.slot = q.slot /\ ~ u.node /\ u.remote = NoNode
        /\ u.held = q.held /\ u.waste = q.waste
        /\ u.refs = IF ~ q.node THEN q.refs ELSE IF q.refs > 1 THEN q.refs - 1 ELSE 0
        /\ h \in Graphs
        /\ h.plugs = [k.plugs EXCEPT ![e] = u] /\ h.sockets = k.sockets
        /\ \A m \in Nodes :
             /\ h.nodes[m].user = k.nodes[m].user
             /\ h.nodes[m].refs = IF m = NodeOf(e) THEN k.nodes[m].refs - Ref(q.node)
                                                   ELSE k.nodes[m].refs
  <2>1. k.plugs[e].remote = NoNode
    BY <1>4, <1>5
  <2>2. \E u \in PlugRecords :
          /\ u.slot = k.plugs[e].slot /\ ~ u.node /\ u.remote = NoNode
          /\ u.held = k.plugs[e].held /\ u.waste = k.plugs[e].waste
          /\ u.refs = IF ~ k.plugs[e].node THEN k.plugs[e].refs
                      ELSE IF k.plugs[e].refs > 1 THEN k.plugs[e].refs - 1 ELSE 0
          /\ PlugCallback(k, e) \in Graphs
          /\ PlugCallback(k, e).plugs = [k.plugs EXCEPT ![e] = u]
          /\ PlugCallback(k, e).sockets = k.sockets
          /\ \A m \in Nodes :
               /\ PlugCallback(k, e).nodes[m].user = k.nodes[m].user
               /\ PlugCallback(k, e).nodes[m].refs =
                    IF m = NodeOf(e) THEN k.nodes[m].refs - Ref(k.plugs[e].node)
                                     ELSE k.nodes[m].refs
    BY <1>3, <2>1, PlugCallbackIs, Zenon
  <2> QED BY <1>2, <1>5, <2>2
<1>7. h.plugs = [g.plugs EXCEPT ![e] = u] /\ h.plugs[e] = u
  BY <1>1, <1>3, <1>6
<1>8. GoodPlug(q, Lives(k, d, NodeOf(e))) /\ q.slot \in BOOLEAN /\ q.node \in BOOLEAN
  BY <1>1, <1>4, <1>5 DEF Good, PlugRecords
<1>9. GoodPlug(u, Lives(k, d, NodeOf(e)))
  BY <1>6, <1>8 DEF GoodPlug
<1>10. Ref(Refers(u)) - Ref(Refers(q)) = - Ref(q.node)
  BY <1>6, <1>8 DEF Refers, Ref, GoodPlug
<1>11. Follows(k, h, d, NodeOf(e), Ref(Refers(u)) - Ref(Refers(k.plugs[e])))
  <2>1. \A m \in Nodes : k.nodes[m].refs \in Int
    BY <1>3, GraphTypes DEF NodeRecords
  <2>2. Ref(q.node) \in Int
    BY <1>8 DEF Ref
  <2>3. Ref(Refers(u)) - Ref(Refers(k.plugs[e])) = - Ref(q.node)
    BY <1>5, <1>10
  <2> QED BY <1>6, <2>1, <2>2, <2>3 DEF Follows
<1>12. Good(h, d)
  <2>1. u.remote = k.plugs[e].remote
    BY <1>4, <1>5, <1>6
  <2> QED BY <1>1, <1>6, <1>9, <1>11, <2>1, PlugChange, ZenonT(60)
<1>13. Keeps(k, h)
  <2>1. \A f \in Edges : h.plugs[f].slot = k.plugs[f].slot
    BY <1>3, <1>5, <1>6
  <2> QED BY <1>6, <2>1 DEF Keeps
<1>14. Keeps(g, h)
  BY <1>1, <1>13, KeepsBoth
<1>15. CountedPlug(p) /\ ~ Loose(p) => CountedPlug(u)
  <2>1. (p.remote # NoNode => p.slot) /\ (p.node => p.slot)
    BY DEF Good, GoodPlug, p
  <2> QED BY <1>3, <1>4, <1>6, <2>1, UnpluggedCounts
<1> QED BY <1>1, <1>4, <1>6, <1>7, <1>12, <1>14, <1>15 DEF h, p

-----------------------------------------------------------------------------
(* Sockets and plugs that are asked for.                                      *)

\* What a call that only makes objects and connections leaves as it was.
Grows(g, h) ==
  /\ \A n \in Nodes : /\ h.nodes[n].user = g.nodes[n].user
                      /\ g.sockets[n].slot => h.sockets[n].slot
  /\ \A e \in Edges : g.plugs[e].slot => h.plugs[e].slot

LEMMA GrowsSame == \A g : Grows(g, g)
BY DEF Grows

LEMMA GrowsBoth ==
  ASSUME NEW g, NEW h, NEW k, Grows(g, h), Grows(h, k)
  PROVE  Grows(g, k)
<1>1. ASSUME NEW n \in Nodes
      PROVE  k.nodes[n].user = g.nodes[n].user /\ (g.sockets[n].slot => k.sockets[n].slot)
  BY DEF Grows
<1>2. ASSUME NEW e \in Edges PROVE g.plugs[e].slot => k.plugs[e].slot
  BY DEF Grows
<1> QED BY <1>1, <1>2 DEF Grows

LEMMA WithSocketGood ==
  ASSUME NEW g, NEW d, Good(g, d), NEW n \in Nodes, g.nodes[n].user > 0
  PROVE  LET h == WithSocket(g, n)
         IN  /\ Good(h, d) /\ Grows(g, h) /\ h.sockets[n].slot
             /\ h.plugs = g.plugs
<1> DEFINE h == WithSocket(g, n)
           s == g.sockets[n]
           t == [s EXCEPT !.slot = TRUE, !.node = TRUE, !.refs = 1]
<1>0. /\ g \in Graphs
      /\ g.plugs \in [Edges -> PlugRecords] /\ g.sockets \in [Nodes -> SocketRecords]
      /\ g.nodes \in [Nodes -> NodeRecords]
      /\ g = [plugs |-> g.plugs, sockets |-> g.sockets, nodes |-> g.nodes]
  BY GraphTypes DEF Good
<1>1. CASE s.slot
  <2>1. h = g
    BY <1>1 DEF WithSocket
  <2> QED BY <1>1, <2>1, GrowsSame
<1>2. CASE ~ s.slot
  <2>1. s \in SocketRecords /\ GoodSocket(s, Lives(g, d, n), g.nodes[n].user)
    BY <1>0 DEF Good
  <2>2. ~ s.node /\ ~ s.listed /\ s.plugs = << >> /\ s.waste \in Nat
    BY <1>2, <2>1 DEF GoodSocket, SocketRecords
  <2>3. /\ t \in SocketRecords
        /\ t.slot = TRUE /\ t.node = TRUE /\ t.refs = 1
        /\ t.listed = s.listed /\ t.plugs = s.plugs /\ t.waste = s.waste
    BY <2>1 DEF SocketRecords
  <2> DEFINE r == g.nodes[n].refs + 1
  <2>4. r \in Int
    BY <1>0 DEF NodeRecords
  <2>5. h.plugs = g.plugs
    BY <1>0, <1>2 DEF WithSocket
  <2>6. h.sockets = [g.sockets EXCEPT ![n] = t]
    BY <1>0, <1>2 DEF WithSocket
  <2>7. h.nodes = [g.nodes EXCEPT ![n].refs = r]
    BY <1>0, <1>2 DEF WithSocket
  <2>8. IsGraph(h)
    BY <1>0, <1>2 DEF WithSocket, IsGraph
  <2> HIDE DEF h, t, r, s
  <2>9. /\ h.nodes \in [Nodes -> NodeRecords]
        /\ \A m \in Nodes : /\ h.nodes[m].user = g.nodes[m].user
                            /\ h.nodes[m].refs = IF m = n THEN r ELSE g.nodes[m].refs
    BY <1>0, <2>4, <2>7 DEF NodeRecords
  <2>10. h \in Graphs
    <3>1. h.sockets \in [Nodes -> SocketRecords]
      BY <1>0, <2>3, <2>6
    <3> QED BY <1>0, <2>5, <2>8, <2>9, <3>1, GraphOfParts
  <2>11. GoodSocket(t, Lives(g, d, n), g.nodes[n].user)
    <3>1. Len(t.plugs) = 0
      BY <2>2, <2>3
    <3> QED BY <2>2, <2>3, <3>1 DEF GoodSocket, Ref, Lives
  <2>12. Follows(g, h, d, n, Ref(t.slot /\ t.node) -
                             Ref(g.sockets[n].slot /\ g.sockets[n].node))
    <3>1. Ref(t.slot /\ t.node) - Ref(g.sockets[n].slot /\ g.sockets[n].node) = 1
      BY <1>2, <2>3 DEF Ref, s
    <3> QED BY <2>9, <3>1 DEF Follows, r
  <2>13. Good(h, d)
    <3>1. t.plugs = g.sockets[n].plugs
      BY <2>3 DEF s
    <3> QED BY <2>3, <2>5, <2>6, <2>10, <2>11, <2>12, <3>1, SocketChange, Zenon
  <2>14. \A m \in Nodes : h.sockets[m] = IF m = n THEN t ELSE g.sockets[m]
    BY <1>0, <2>6
  <2>15. Grows(g, h)
    BY <2>3, <2>5, <2>9, <2>14 DEF Grows
  <2> QED BY <2>3, <2>5, <2>13, <2>14, <2>15 DEF h
<1> QED BY <1>1, <1>2

LEMMA SameSocket ==
  ASSUME NEW s \in SocketRecords, NEW t \in SocketRecords,
         s.slot = t.slot, s.node = t.node, s.listed = t.listed,
         s.plugs = t.plugs, s.refs = t.refs, s.waste = t.waste
  PROVE  s = t
<1>1. /\ s = [slot |-> s.slot, node |-> s.node, listed |-> s.listed,
              plugs |-> s.plugs, refs |-> s.refs, waste |-> s.waste]
      /\ t = [slot |-> t.slot, node |-> t.node, listed |-> t.listed,
              plugs |-> t.plugs, refs |-> t.refs, waste |-> t.waste]
  BY DEF SocketRecords
<1> QED BY <1>1

LEMMA ReferencedIs ==
  ASSUME NEW s \in SocketRecords
  PROVE  LET u == Referenced(s)
         IN  /\ u \in SocketRecords
             /\ u.slot = s.slot /\ u.node = s.node /\ u.listed = s.listed
             /\ u.plugs = s.plugs /\ u.waste = s.waste /\ u.refs = s.refs + 1
BY DEF Referenced, SocketRecords

\* A socket that is used for a moment is as before.
LEMMA UsedSocketIs ==
  ASSUME NEW g, NEW d, Good(g, d), NEW n \in Nodes, g.nodes[n].user > 0
  PROVE  UsedSocket(g, n) = WithSocket(g, n)
<1> DEFINE h == WithSocket(g, n)
           s == h.sockets[n]
           u == Referenced(s)
<1>1. Good(h, d) /\ s.slot
  BY WithSocketGood
<1> HIDE DEF h
<1>2. /\ h \in Graphs /\ h.sockets \in [Nodes -> SocketRecords] /\ s \in SocketRecords
      /\ h = [plugs |-> h.plugs, sockets |-> h.sockets, nodes |-> h.nodes]
      /\ GoodSocket(s, Lives(h, d, n), h.nodes[n].user)
  BY <1>1, GraphTypes DEF Good
<1>3. s.refs \in Nat /\ s.node \in BOOLEAN /\ s.listed \in BOOLEAN /\ Len(s.plugs) \in Nat
  BY <1>2 DEF SocketRecords
<1>4. s.refs >= Ref(s.node) + Ref(s.listed)
  <2>1. s.refs >= 1
    <3>1. s.refs >= 1 + Len(s.plugs)
      BY <1>1, <1>2 DEF GoodSocket, Ref
    <3> QED BY <1>3, <3>1
  <2>2. s.node /\ s.listed => s.refs >= 2
    BY <1>1, <1>2 DEF GoodSocket
  <2> QED BY <1>3, <2>1, <2>2 DEF Ref
<1>5. SocketLess(u) = s
  <2> HIDE DEF s
  <2>1. /\ u \in SocketRecords
        /\ u.slot = s.slot /\ u.node = s.node /\ u.listed = s.listed
        /\ u.plugs = s.plugs /\ u.waste = s.waste /\ u.refs = s.refs + 1
    BY <1>2, ReferencedIs
  <2>2. u.refs - 1 >= Ref(u.node) + Ref(u.listed) /\ u.refs - 1 = s.refs
    BY <1>3, <1>4, <2>1
  <2>3. SocketLess(u) = [u EXCEPT !.refs = s.refs]
    <3> HIDE DEF u
    <3> QED BY <2>2 DEF SocketLess
  <2> DEFINE v == [u EXCEPT !.refs = s.refs]
  <2> HIDE DEF u
  <2>4. /\ v \in SocketRecords
        /\ v.slot = u.slot /\ v.node = u.node /\ v.listed = u.listed
        /\ v.plugs = u.plugs /\ v.waste = u.waste /\ v.refs = s.refs
    BY <1>3, <2>1 DEF SocketRecords
  <2> HIDE DEF v
  <2>5. v = s
    BY <1>2, <2>1, <2>4, SameSocket
  <2> QED BY <2>3, <2>5 DEF v
<1>6. UsedSocket(g, n) = [h EXCEPT !.sockets[n] = SocketLess(u)]
  BY DEF UsedSocket, h
<1>7. [h EXCEPT !.sockets[n] = s] = h
  BY <1>2
<1> QED BY <1>5, <1>6, <1>7 DEF h

\* A plug that is made has the reference of its node.
FreshPlug(p) ==
  /\ p.slot /\ p.node /\ p.remote = NoNode /\ p.refs = 1

LEMMA WithPlugGood ==
  ASSUME NEW g, NEW d, Good(g, d), NEW e \in Edges, g.nodes[NodeOf(e)].user > 0
  PROVE  LET h == WithPlug(g, e)
             q == h.plugs[e]
         IN  /\ Good(h, d) /\ Grows(g, h) /\ h.sockets = g.sockets
             /\ q \in PlugRecords /\ h.plugs = [g.plugs EXCEPT ![e] = q]
             /\ q.remote = g.plugs[e].remote
             /\ q.held = g.plugs[e].held /\ q.waste = g.plugs[e].waste
             /\ IF g.plugs[e].slot THEN q = g.plugs[e] ELSE FreshPlug(q)
             /\ q.slot
<1> DEFINE h == WithPlug(g, e)
           p == g.plugs[e]
           n == NodeOf(e)
           q == [p EXCEPT !.slot = TRUE, !.node = TRUE, !.refs = 1]
<1>0. /\ g \in Graphs
      /\ g.plugs \in [Edges -> PlugRecords] /\ g.sockets \in [Nodes -> SocketRecords]
      /\ g.nodes \in [Nodes -> NodeRecords]
      /\ g = [plugs |-> g.plugs, sockets |-> g.sockets, nodes |-> g.nodes]
      /\ p \in PlugRecords /\ n \in Nodes
  BY GraphTypes, EdgeForm DEF Good
<1>1. CASE p.slot
  <2>1. h = g
    BY <1>1 DEF WithPlug
  <2>2. h.plugs = [g.plugs EXCEPT ![e] = p]
    BY <1>0, <2>1
  <2> QED BY <1>0, <1>1, <2>1, <2>2, GrowsSame
<1>2. CASE ~ p.slot
  <2>1. ~ p.node /\ p.remote = NoNode
    BY <1>2 DEF Good, GoodPlug
  <2>2. /\ q \in PlugRecords
        /\ q.slot = TRUE /\ q.node = TRUE /\ q.refs = 1
        /\ q.remote = p.remote /\ q.held = p.held /\ q.waste = p.waste
    BY <1>0 DEF PlugRecords
  <2> DEFINE r == g.nodes[n].refs + 1
  <2>4. r \in Int
    BY <1>0 DEF NodeRecords
  <2>5. h.sockets = g.sockets
    BY <1>0, <1>2 DEF WithPlug
  <2>6. h.plugs = [g.plugs EXCEPT ![e] = q]
    BY <1>0, <1>2 DEF WithPlug
  <2>7. h.nodes = [g.nodes EXCEPT ![n].refs = r]
    BY <1>0, <1>2 DEF WithPlug
  <2>8. IsGraph(h)
    BY <1>0, <1>2 DEF WithPlug, IsGraph
  <2> HIDE DEF h, q, r, p, n
  <2>9. /\ h.nodes \in [Nodes -> NodeRecords]
        /\ \A m \in Nodes : /\ h.nodes[m].user = g.nodes[m].user
                            /\ h.nodes[m].refs = IF m = n THEN r ELSE g.nodes[m].refs
    BY <1>0, <2>4, <2>7 DEF NodeRecords
  <2>10. h \in Graphs
    <3>1. h.plugs \in [Edges -> PlugRecords]
      BY <1>0, <2>2, <2>6
    <3> QED BY <1>0, <2>5, <2>8, <2>9, <3>1, GraphOfParts
  <2>11. GoodPlug(q, Lives(g, d, NodeOf(e)))
    BY <2>1, <2>2 DEF GoodPlug, Lives
  <2>12. Follows(g, h, d, NodeOf(e), Ref(Refers(q)) - Ref(Refers(g.plugs[e])))
    <3>1. Ref(Refers(q)) - Ref(Refers(g.plugs[e])) = 1
      BY <1>2, <2>2 DEF Ref, Refers, p
    <3> QED BY <2>9, <3>1 DEF Follows, r, n
  <2>13. Good(h, d)
    <3>1. q.remote = g.plugs[e].remote
      BY <2>2 DEF p
    <3> QED BY <2>2, <2>5, <2>6, <2>10, <2>11, <2>12, <3>1, PlugChange, Zenon
  <2>14. \A f \in Edges : h.plugs[f] = IF f = e THEN q ELSE g.plugs[f]
    BY <1>0, <2>6
  <2>15. Grows(g, h)
    BY <2>2, <2>5, <2>9, <2>14 DEF Grows
  <2>16. FreshPlug(q)
    BY <2>1, <2>2 DEF FreshPlug
  <2> QED BY <1>2, <2>2, <2>5, <2>6, <2>13, <2>14, <2>15, <2>16 DEF h, p
<1> QED BY <1>1, <1>2

-----------------------------------------------------------------------------
(* A plug is connected.                                                       *)

\* A plug that is connected to n has another reference, and has lost the one that
\* an earlier socket found it by.
ConnectedPlug(p, q, n) ==
  /\ q \in PlugRecords
  /\ q.slot = p.slot /\ q.node = p.node /\ q.remote = n /\ q.held = p.held
  /\ q.refs = p.refs + 1
  /\ q.waste = IF p.remote # NoNode THEN p.waste + 1 ELSE p.waste

LEMMA ConnectedIntoGood ==
  ASSUME NEW g, NEW d, Good(g, d), NEW e \in Edges, NEW n \in Nodes,
         g.plugs[e].slot, g.sockets[n].slot
  PROVE  LET h == ConnectedInto(g, e, n)
             q == h.plugs[e]
         IN  /\ Good(h, d) /\ Grows(g, h)
             /\ h.plugs = [g.plugs EXCEPT ![e] = q]
             /\ ConnectedPlug(g.plugs[e], q, n)
             /\ h.sockets[n].plugs # << >>
<1> DEFINE k == SocketCallback(g, e)
           h == ConnectedInto(g, e, n)
           p == g.plugs[e]
           o == [p EXCEPT !.remote = NoNode]
           w == IF p.remote # NoNode THEN p.waste + 1 ELSE p.waste
           q == [p EXCEPT !.remote = n, !.refs = p.refs + 1, !.waste = w]
           s == k.sockets[n]
           list == Append(s.plugs, e)
           t == [s EXCEPT !.refs = s.refs + 1, !.listed = TRUE, !.plugs = list]
<1>1. /\ Good(k, d) /\ Keeps(g, k)
      /\ k.plugs = [g.plugs EXCEPT ![e] = o]
  BY SocketCallbackGood
<1>2. h = [k EXCEPT !.plugs[e].remote = n,
                    !.plugs[e].refs = @ + 1,
                    !.plugs[e].waste = IF g.plugs[e].remote # NoNode THEN @ + 1 ELSE @,
                    !.sockets[n].refs = @ + 1,
                    !.sockets[n].listed = TRUE,
                    !.sockets[n].plugs = Append(@, e)]
  BY DEF ConnectedInto
<1> HIDE DEF k, h
<1>3. /\ g \in Graphs /\ g.plugs \in [Edges -> PlugRecords] /\ p \in PlugRecords
      /\ k \in Graphs /\ k.plugs \in [Edges -> PlugRecords]
      /\ k.sockets \in [Nodes -> SocketRecords] /\ s \in SocketRecords
      /\ k = [plugs |-> k.plugs, sockets |-> k.sockets, nodes |-> k.nodes]
      /\ k.nodes \in [Nodes -> NodeRecords]
      /\ TwoEnds(k) /\ Counted(k, d)
  BY <1>1, GraphTypes DEF Good
<1>4. n # NoNode
  BY FilterAssumption
<1>5. k.plugs[e] = o
  BY <1>1, <1>3
<1>6. h.nodes = k.nodes /\ IsGraph(h)
  <2>1. h.nodes = k.nodes
    BY <1>2, <1>3
  <2>2. IsGraph(h)
    BY <1>2, <1>3, ZenonT(60) DEF IsGraph
  <2> QED BY <2>1, <2>2
<1>7. h.plugs = [k.plugs EXCEPT ![e] = q]
  <2>1. h.plugs = [k.plugs EXCEPT ![e].remote = n, ![e].refs = @ + 1,
                                  ![e].waste = IF p.remote # NoNode THEN @ + 1 ELSE @]
    BY <1>2, <1>3
  <2>2. h.plugs = [k.plugs EXCEPT ![e] = [o EXCEPT !.remote = n, !.refs = @ + 1,
                                    !.waste = IF p.remote # NoNode THEN @ + 1 ELSE @]]
    BY <1>3, <1>5, <2>1
  <2>3. [o EXCEPT !.remote = n, !.refs = @ + 1,
                  !.waste = IF p.remote # NoNode THEN @ + 1 ELSE @] = q
    BY <1>3 DEF PlugRecords
  <2> QED BY <2>2, <2>3
<1>8. h.sockets = [k.sockets EXCEPT ![n] = t]
  BY <1>2, <1>3
<1>9. ConnectedPlug(p, q, n)
  <2> DEFINE r == p.refs + 1
  <2>1. w \in Nat /\ w = (IF p.remote # NoNode THEN p.waste + 1 ELSE p.waste) /\ r \in Nat
    BY <1>3 DEF PlugRecords
  <2>2. q = [p EXCEPT !.remote = n, !.refs = r, !.waste = w]
    OBVIOUS
  <2> HIDE DEF w, p, r, q
  <2>3. LET x == [p EXCEPT !.remote = n, !.refs = r, !.waste = w]
        IN  /\ x \in PlugRecords /\ x.slot = p.slot /\ x.node = p.node /\ x.remote = n
            /\ x.held = p.held /\ x.refs = r /\ x.waste = w
    <3>1. p \in PlugRecords /\ r \in Nat /\ w \in Nat
      BY <1>3, <2>1
    <3> QED BY <3>1 DEF PlugRecords
  <2> QED BY <2>1, <2>2, <2>3 DEF ConnectedPlug, r
<1> HIDE DEF q, p
<1>10. s.slot /\ GoodSocket(s, Lives(k, d, n), k.nodes[n].user)
  BY <1>1 DEF Keeps, Good
<1> HIDE DEF s
<1>11. e \notin ToSet(s.plugs) /\ OneEach(s.plugs) /\ s.plugs \in Seq(Edges)
  <2>1. o.remote = NoNode
    BY <1>3 DEF PlugRecords, p
  <2>2. OneEach(s.plugs) /\ (e \in ToSet(s.plugs) <=> k.plugs[e].remote = n)
    BY <1>3 DEF TwoEnds, s
  <2> QED BY <1>3, <1>4, <1>5, <2>1, <2>2 DEF SocketRecords
<1> HIDE DEF o
<1>12. /\ list \in Seq(Edges) /\ Len(s.plugs) \in Nat /\ Len(list) = Len(s.plugs) + 1
       /\ OneEach(list) /\ ToSet(list) = ToSet(s.plugs) \cup {e}
  BY <1>11, AppendProperty
<1> HIDE DEF list
<1>13. /\ t \in SocketRecords /\ t.slot = s.slot /\ t.node = s.node /\ t.listed = TRUE
       /\ t.plugs = list /\ t.refs = s.refs + 1 /\ t.waste = s.waste
  <2> DEFINE r == s.refs + 1
  <2>1. r \in Nat
    BY <1>3 DEF SocketRecords
  <2>2. t = [s EXCEPT !.refs = r, !.listed = TRUE, !.plugs = list]
    OBVIOUS
  <2> HIDE DEF r, t
  <2>3. LET x == [s EXCEPT !.refs = r, !.listed = TRUE, !.plugs = list]
        IN  /\ x \in SocketRecords /\ x.slot = s.slot /\ x.node = s.node /\ x.listed = TRUE
            /\ x.plugs = list /\ x.refs = r /\ x.waste = s.waste
    <3>1. s \in SocketRecords /\ r \in Nat /\ list \in Seq(Edges)
      BY <1>3, <1>12, <2>1
    <3> QED BY <3>1 DEF SocketRecords
  <2> QED BY <2>2, <2>3 DEF r
<1> HIDE DEF t
<1>14. /\ \A f \in Edges : h.plugs[f] = IF f = e THEN q ELSE k.plugs[f]
       /\ \A m \in Nodes : h.sockets[m] = IF m = n THEN t ELSE k.sockets[m]
  BY <1>3, <1>7, <1>8
<1>15. h \in Graphs
  <2>1. h.plugs \in [Edges -> PlugRecords]
    BY <1>3, <1>7, <1>9 DEF ConnectedPlug
  <2>2. h.sockets \in [Nodes -> SocketRecords]
    BY <1>3, <1>8, <1>13
  <2> QED BY <1>3, <1>6, <2>1, <2>2, GraphOfParts
<1>16. /\ q.slot = k.plugs[e].slot /\ q.node = k.plugs[e].node
       /\ q.slot = p.slot /\ q.slot
  <2>1. o.slot = p.slot /\ o.node = p.node
    BY <1>3 DEF PlugRecords, o
  <2> QED BY <1>5, <1>9, <2>1 DEF ConnectedPlug, p
<1>17. \A m \in Nodes : Lives(h, d, m) <=> Lives(k, d, m)
  BY <1>6 DEF Lives
<1>18. \A f \in Edges : GoodPlug(h.plugs[f], Lives(h, d, NodeOf(f)))
  <2> SUFFICES ASSUME NEW f \in Edges PROVE GoodPlug(h.plugs[f], Lives(h, d, NodeOf(f)))
    OBVIOUS
  <2>1. GoodPlug(k.plugs[f], Lives(k, d, NodeOf(f))) /\ NodeOf(f) \in Nodes
    BY <1>1, EdgeForm DEF Good
  <2>2. GoodPlug(h.plugs[f], Lives(k, d, NodeOf(f)))
    BY <1>14, <1>16, <2>1 DEF GoodPlug
  <2> QED BY <1>17, <2>1, <2>2 DEF GoodPlug
<1>19. \A m \in Nodes : GoodSocket(h.sockets[m], Lives(h, d, m), h.nodes[m].user)
  <2> SUFFICES ASSUME NEW m \in Nodes PROVE GoodSocket(h.sockets[m], Lives(h, d, m), h.nodes[m].user)
    OBVIOUS
  <2>1. GoodSocket(k.sockets[m], Lives(k, d, m), k.nodes[m].user)
    BY <1>1 DEF Good
  <2>2. GoodSocket(h.sockets[m], Lives(k, d, m), k.nodes[m].user)
    <3>1. CASE m # n
      BY <1>14, <2>1, <3>1
    <3>2. CASE m = n
      <4>1. s.refs \in Nat /\ s.waste \in Nat /\ Ref(s.slot) = 1
        BY <1>3, <1>10 DEF SocketRecords, Ref
      <4>2. s.refs >= 1 + Len(s.plugs) /\ s.refs <= 1 + Len(s.plugs) + s.waste
        BY <1>10, <4>1 DEF GoodSocket
      <4>3. Ref(t.slot) = 1 /\ Len(t.plugs) = Len(s.plugs) + 1
        BY <1>12, <1>13, <4>1
      <4>4. /\ t.refs >= Ref(t.slot) + Len(t.plugs)
            /\ t.refs <= Ref(t.slot) + Len(t.plugs) + t.waste
            /\ t.refs >= 2
        BY <1>12, <1>13, <4>1, <4>2, <4>3
      <4>5. GoodSocket(t, Lives(k, d, n), k.nodes[n].user)
        <5>1. t.slot /\ Lives(k, d, n) /\ t.listed
          BY <1>10, <1>13 DEF GoodSocket
        <5> QED BY <4>4, <5>1 DEF GoodSocket
      <4> QED BY <1>14, <3>2, <4>5
    <3> QED BY <3>1, <3>2
  <2> QED BY <1>6, <1>17, <2>2 DEF GoodSocket
<1>20. TwoEnds(h)
  <2> SUFFICES ASSUME NEW m \in Nodes
               PROVE  /\ OneEach(h.sockets[m].plugs)
                      /\ \A f \in Edges : f \in ToSet(h.sockets[m].plugs) <=> h.plugs[f].remote = m
    BY DEF TwoEnds
  <2>1. /\ OneEach(k.sockets[m].plugs)
        /\ \A f \in Edges : f \in ToSet(k.sockets[m].plugs) <=> k.plugs[f].remote = m
    BY <1>3 DEF TwoEnds
  <2>2. k.plugs[e].remote = NoNode /\ m # NoNode
    BY <1>3, <1>5, FilterAssumption DEF PlugRecords, o
  <2>3. q.remote = n
    BY <1>9 DEF ConnectedPlug
  <2> QED BY <1>12, <1>13, <1>14, <2>1, <2>2, <2>3 DEF s
<1>21. Counted(h, d)
  <2> SUFFICES ASSUME NEW m \in Nodes \ {d}
               PROVE  h.nodes[m].refs = h.nodes[m].user + Inner(h, m)
    BY DEF Counted
  <2>1. k.nodes[m].refs = k.nodes[m].user + Inner(k, m)
    BY <1>3 DEF Counted
  <2>2. h.sockets[m].slot = k.sockets[m].slot /\ h.sockets[m].node = k.sockets[m].node
    BY <1>13, <1>14 DEF s
  <2>3. \A i \in 1 .. NPlugs[m] :
          /\ h.plugs[<<m, i>>].slot = k.plugs[<<m, i>>].slot
          /\ h.plugs[<<m, i>>].node = k.plugs[<<m, i>>].node
    BY <1>14, <1>16, EdgeIs
  <2>4. PlugsOf(h, m) = PlugsOf(k, m)
    BY <2>3 DEF PlugsOf
  <2>5. Inner(h, m) = Inner(k, m)
    BY <2>2, <2>4, InnerIs DEF PlugPart
  <2> QED BY <1>6, <2>1, <2>5
<1>22. Good(h, d)
  BY <1>15, <1>18, <1>19, <1>20, <1>21 DEF Good
<1>23. Grows(g, h)
  <2>1. ASSUME NEW m \in Nodes
        PROVE  h.nodes[m].user = g.nodes[m].user /\ (g.sockets[m].slot => h.sockets[m].slot)
    <3>1. k.nodes[m].user = g.nodes[m].user /\ k.sockets[m].slot = g.sockets[m].slot
      BY <1>1 DEF Keeps
    <3> QED BY <1>6, <1>13, <1>14, <3>1 DEF s
  <2>2. ASSUME NEW f \in Edges PROVE g.plugs[f].slot => h.plugs[f].slot
    <3>1. k.plugs[f].slot = g.plugs[f].slot
      BY <1>1 DEF Keeps
    <3> QED BY <1>14, <1>16, <3>1
  <2> QED BY <2>1, <2>2 DEF Grows
<1>24. h.plugs = [g.plugs EXCEPT ![e] = q] /\ h.plugs[e] = q
  BY <1>1, <1>3, <1>7
<1>25. h.sockets[n].plugs # << >>
  BY <1>12, <1>13, <1>14
<1> QED BY <1>9, <1>22, <1>23, <1>24, <1>25 DEF h, p

\* Both ends know their nodes.
LEMMA BothNodesGood ==
  ASSUME NEW g, NEW d, Good(g, d), NEW e \in Edges, NEW n \in Nodes,
         g.plugs[e].slot, g.sockets[n].slot, g.sockets[n].plugs # << >>
  PROVE  LET h == BothNodes(g, e, n)
             p == g.plugs[e]
             q == h.plugs[e]
         IN  /\ Good(h, d) /\ Grows(g, h)
             /\ q \in PlugRecords /\ h.plugs = [g.plugs EXCEPT ![e] = q]
             /\ q.slot /\ q.node /\ q.remote = p.remote
             /\ q.held = p.held /\ q.waste = p.waste /\ q.refs = p.refs
<1> DEFINE o == NodeOf(e)
           p == g.plugs[e]
           s == g.sockets[n]
           r == IF p.node THEN g.nodes[o].refs ELSE g.nodes[o].refs + 1
           q == [p EXCEPT !.node = TRUE]
           k == [g EXCEPT !.nodes[o].refs = IF g.plugs[e].node THEN @ ELSE @ + 1,
                          !.plugs[e].node = TRUE]
           c == IF s.node THEN k.nodes[n].refs ELSE k.nodes[n].refs + 1
           t == [s EXCEPT !.node = TRUE]
           h == BothNodes(g, e, n)
<1>1. /\ g \in Graphs
      /\ g.plugs \in [Edges -> PlugRecords] /\ g.sockets \in [Nodes -> SocketRecords]
      /\ g.nodes \in [Nodes -> NodeRecords]
      /\ g = [plugs |-> g.plugs, sockets |-> g.sockets, nodes |-> g.nodes]
      /\ p \in PlugRecords /\ s \in SocketRecords /\ o \in Nodes
  BY GraphTypes, EdgeForm DEF Good
<1>2. /\ q \in PlugRecords /\ q.slot /\ q.node /\ q.remote = p.remote
      /\ q.held = p.held /\ q.waste = p.waste /\ q.refs = p.refs
  BY <1>1 DEF PlugRecords
<1>3. r \in Int
  BY <1>1 DEF NodeRecords
<1>4. k.plugs = [g.plugs EXCEPT ![e] = q]
  BY <1>1
<1>5. k.sockets = g.sockets
  BY <1>1
<1>6. k.nodes = [g.nodes EXCEPT ![o].refs = r]
  BY <1>1
<1>7. IsGraph(k)
  BY <1>1 DEF IsGraph
<1>8. h = [k EXCEPT !.nodes[n].refs = IF g.sockets[n].node THEN @ ELSE @ + 1,
                    !.sockets[n].node = TRUE]
  BY DEF BothNodes
<1> HIDE DEF k, r, q, o, p
<1>9. /\ k.nodes \in [Nodes -> NodeRecords]
      /\ \A m \in Nodes : /\ k.nodes[m].user = g.nodes[m].user
                          /\ k.nodes[m].refs = IF m = o THEN r ELSE g.nodes[m].refs
  BY <1>1, <1>3, <1>6 DEF NodeRecords
<1>10. k \in Graphs
  <2>1. k.plugs \in [Edges -> PlugRecords] /\ k.sockets \in [Nodes -> SocketRecords]
    BY <1>1, <1>2, <1>4, <1>5
  <2> QED BY <1>7, <1>9, <2>1, GraphOfParts
<1>11. Follows(g, k, d, NodeOf(e), Ref(Refers(q)) - Ref(Refers(g.plugs[e])))
  <2>1. Ref(Refers(q)) - Ref(Refers(g.plugs[e])) = (IF p.node THEN 0 ELSE 1)
    BY <1>1, <1>2 DEF Ref, Refers, p, PlugRecords
  <2>2. r = g.nodes[o].refs + (IF p.node THEN 0 ELSE 1)
    BY <1>1 DEF r, NodeRecords
  <2> QED BY <1>9, <2>1, <2>2 DEF Follows, o
<1>12. Good(k, d)
  <2>1. GoodPlug(g.plugs[e], Lives(g, d, NodeOf(e)))
    BY DEF Good
  <2>2. GoodPlug(q, Lives(g, d, NodeOf(e)))
    BY <1>2, <2>1 DEF GoodPlug
  <2>3. q.remote = g.plugs[e].remote
    BY <1>2 DEF p
  <2> QED BY <1>2, <1>4, <1>5, <1>10, <1>11, <2>2, <2>3, PlugChange, Zenon
<1>13. k = [plugs |-> k.plugs, sockets |-> k.sockets, nodes |-> k.nodes]
  BY <1>10, GraphTypes
<1>14. h.plugs = k.plugs
  BY <1>8, <1>13
<1>15. h.sockets = [k.sockets EXCEPT ![n] = t]
  BY <1>5, <1>8, <1>13
<1>16. h.nodes = [k.nodes EXCEPT ![n].refs = c]
  BY <1>8, <1>13
<1>17. IsGraph(h)
  BY <1>8, <1>13 DEF IsGraph
<1> HIDE DEF h
<1>18. c \in Int
  BY <1>9 DEF NodeRecords
<1>19. /\ t \in SocketRecords /\ t.slot = s.slot /\ t.node = TRUE /\ t.listed = s.listed
       /\ t.plugs = s.plugs /\ t.refs = s.refs /\ t.waste = s.waste
  BY <1>1 DEF SocketRecords
<1> HIDE DEF t, c
<1>20. /\ h.nodes \in [Nodes -> NodeRecords]
       /\ \A m \in Nodes : /\ h.nodes[m].user = k.nodes[m].user
                           /\ h.nodes[m].refs = IF m = n THEN c ELSE k.nodes[m].refs
  BY <1>9, <1>16, <1>18 DEF NodeRecords
<1>21. h \in Graphs
  <2>1. h.plugs \in [Edges -> PlugRecords]
    BY <1>10, <1>14, GraphTypes
  <2>2. h.sockets \in [Nodes -> SocketRecords]
    BY <1>1, <1>5, <1>15, <1>19
  <2> QED BY <1>17, <1>20, <2>1, <2>2, GraphOfParts
<1>22. GoodSocket(s, Lives(k, d, n), k.nodes[n].user)
  BY <1>5, <1>12 DEF Good
<1>23. GoodSocket(t, Lives(k, d, n), k.nodes[n].user)
  <2>1. s.refs \in Nat /\ Len(s.plugs) \in Nat /\ Len(s.plugs) > 0 /\ Ref(s.slot) = 1
    <3>1. s.plugs \in Seq(Edges) /\ s.refs \in Nat
      BY <1>1 DEF SocketRecords
    <3> QED BY <3>1 DEF Ref
  <2>2. s.refs >= 2
    <3>1. s.refs >= Ref(s.slot) + Len(s.plugs)
      BY <1>22 DEF GoodSocket
    <3> HIDE DEF s
    <3> QED BY <2>1, <3>1
  <2>3. t.slot /\ Lives(k, d, n)
    BY <1>19, <1>22 DEF GoodSocket
  <2> HIDE DEF s
  <2> QED BY <1>19, <1>22, <2>2, <2>3 DEF GoodSocket
<1>24. Follows(k, h, d, n, Ref(t.slot /\ t.node) -
                           Ref(k.sockets[n].slot /\ k.sockets[n].node))
  <2>1. s.node \in BOOLEAN
    BY <1>1 DEF SocketRecords
  <2>2. Ref(t.slot /\ t.node) - Ref(k.sockets[n].slot /\ k.sockets[n].node) =
          (IF s.node THEN 0 ELSE 1)
    BY <1>5, <1>19, <2>1 DEF Ref
  <2>3. c = k.nodes[n].refs + (IF s.node THEN 0 ELSE 1)
    BY <1>9 DEF c, NodeRecords
  <2> QED BY <1>20, <2>2, <2>3 DEF Follows
<1>25. Good(h, d)
  <2>1. t.plugs = k.sockets[n].plugs
    BY <1>5, <1>19
  <2> QED BY <1>12, <1>14, <1>15, <1>19, <1>21, <1>23, <1>24, <2>1, SocketChange, Zenon
<1>26. h.plugs = [g.plugs EXCEPT ![e] = q] /\ h.plugs[e] = q
  BY <1>1, <1>4, <1>14
<1>27. Grows(g, h)
  <2>1. \A f \in Edges : g.plugs[f].slot => h.plugs[f].slot
    <3>1. \A f \in Edges : h.plugs[f] = IF f = e THEN q ELSE g.plugs[f]
      BY <1>1, <1>26
    <3> QED BY <1>2, <3>1
  <2>2. \A m \in Nodes : h.nodes[m].user = g.nodes[m].user
    BY <1>9, <1>20
  <2>3. \A m \in Nodes : g.sockets[m].slot => h.sockets[m].slot
    <3>1. \A m \in Nodes : h.sockets[m] = IF m = n THEN t ELSE g.sockets[m]
      BY <1>1, <1>5, <1>15
    <3> QED BY <1>19, <3>1
  <2> QED BY <2>1, <2>2, <2>3 DEF Grows
<1> QED BY <1>2, <1>25, <1>26, <1>27 DEF h, p

\* Only counts of a plug change.
LEMMA PlugCountChange ==
  ASSUME NEW g, NEW d, Good(g, d), NEW e \in Edges, NEW q \in PlugRecords,
         q.slot = g.plugs[e].slot, q.node = g.plugs[e].node, q.remote = g.plugs[e].remote,
         NEW h \in Graphs, h.plugs = [g.plugs EXCEPT ![e] = q],
         h.sockets = g.sockets, h.nodes = g.nodes
  PROVE  Good(h, d) /\ Grows(g, h)
<1>1. g \in Graphs /\ g.plugs \in [Edges -> PlugRecords] /\ g.plugs[e] \in PlugRecords
  BY GraphTypes DEF Good
<1>2. GoodPlug(g.plugs[e], Lives(g, d, NodeOf(e)))
  BY DEF Good
<1>3. GoodPlug(q, Lives(g, d, NodeOf(e)))
  BY <1>2 DEF GoodPlug
<1>4. Follows(g, h, d, NodeOf(e), Ref(Refers(q)) - Ref(Refers(g.plugs[e])))
  <2>1. Ref(Refers(q)) - Ref(Refers(g.plugs[e])) = 0
    BY <1>1 DEF Ref, Refers, PlugRecords
  <2>2. \A m \in Nodes : g.nodes[m].refs \in Int
    BY <1>1, GraphTypes DEF NodeRecords
  <2> QED BY <2>1, <2>2 DEF Follows
<1>5. Good(h, d)
  BY <1>3, <1>4, PlugChange, Zenon
<1>6. \A f \in Edges : h.plugs[f] = IF f = e THEN q ELSE g.plugs[f]
  BY <1>1
<1> QED BY <1>5, <1>6 DEF Grows

\* Only counts of a socket change.
LEMMA SocketCountChange ==
  ASSUME NEW g, NEW d, Good(g, d), NEW n \in Nodes, NEW t \in SocketRecords,
         t.slot = g.sockets[n].slot, t.node = g.sockets[n].node,
         t.listed = g.sockets[n].listed, t.plugs = g.sockets[n].plugs,
         t.refs = g.sockets[n].refs + 1, t.waste = g.sockets[n].waste + 1,
         NEW h \in Graphs, h.sockets = [g.sockets EXCEPT ![n] = t],
         h.plugs = g.plugs, h.nodes = g.nodes
  PROVE  Good(h, d) /\ Grows(g, h)
<1> DEFINE s == g.sockets[n]
<1>1. g \in Graphs /\ g.sockets \in [Nodes -> SocketRecords] /\ s \in SocketRecords
  BY GraphTypes DEF Good
<1>2. GoodSocket(s, Lives(g, d, n), g.nodes[n].user)
  BY DEF Good
<1>3. /\ s.refs \in Nat /\ s.waste \in Nat /\ Len(s.plugs) \in Nat
      /\ s.slot \in BOOLEAN /\ s.node \in BOOLEAN
  BY <1>1 DEF SocketRecords
<1>4. GoodSocket(t, Lives(g, d, n), g.nodes[n].user)
  <2> DEFINE own == Ref(s.slot) + Len(s.plugs)
  <2>1. own \in Nat /\ own = Ref(t.slot) + Len(t.plugs)
    <3>1. Ref(s.slot) \in Nat
      BY <1>3 DEF Ref
    <3> QED BY <1>3, <3>1
  <2>2. s.refs >= own /\ s.refs <= own + s.waste
    BY <1>2 DEF GoodSocket
  <2> HIDE DEF own
  <2>3. t.refs >= own /\ t.refs <= own + t.waste
    BY <1>3, <2>1, <2>2
  <2>4. s.slot /\ s.node /\ s.listed => t.refs >= 2
    BY <1>2, <1>3 DEF GoodSocket
  <2> QED BY <1>2, <2>1, <2>3, <2>4 DEF GoodSocket
<1>5. Follows(g, h, d, n, Ref(t.slot /\ t.node) -
                          Ref(g.sockets[n].slot /\ g.sockets[n].node))
  <2>1. Ref(t.slot /\ t.node) - Ref(g.sockets[n].slot /\ g.sockets[n].node) = 0
    BY <1>3 DEF Ref
  <2>2. \A m \in Nodes : g.nodes[m].refs \in Int
    BY <1>1, GraphTypes DEF NodeRecords
  <2> QED BY <2>1, <2>2 DEF Follows
<1>6. Good(h, d)
  BY <1>4, <1>5, SocketChange, Zenon
<1>7. \A m \in Nodes : h.sockets[m] = IF m = n THEN t ELSE g.sockets[m]
  BY <1>1
<1> QED BY <1>6, <1>7 DEF Grows

\* A plug that is used for a moment, too.
LEMMA UsedPlugGood ==
  ASSUME NEW g, NEW d, Good(g, d), NEW e \in Edges
  PROVE  LET h == UsedPlug(g, e)
             p == g.plugs[e]
             q == h.plugs[e]
         IN  /\ Good(h, d) /\ Grows(g, h)
             /\ q \in PlugRecords /\ h.plugs = [g.plugs EXCEPT ![e] = q]
             /\ q.slot = p.slot /\ q.node = p.node /\ q.remote = p.remote
             /\ q.held = p.held /\ q.waste = p.waste
             /\ p.refs > 0 /\ p.refs >= Ref(p.node) + Ref(p.remote # NoNode) => q.refs = p.refs
<1> DEFINE p == g.plugs[e]
           u == Referenced(p)
           q == PlugLess(u)
           h == UsedPlug(g, e)
<1>1. g \in Graphs /\ p \in PlugRecords /\ g.plugs \in [Edges -> PlugRecords]
  BY GraphTypes DEF Good
<1>2. /\ u \in PlugRecords /\ u.slot = p.slot /\ u.node = p.node /\ u.remote = p.remote
      /\ u.held = p.held /\ u.waste = p.waste /\ u.refs = p.refs + 1
  <2> HIDE DEF p
  <2> QED BY <1>1 DEF Referenced, PlugRecords
<1> HIDE DEF u
<1>3. /\ q \in PlugRecords
      /\ q.slot = p.slot /\ q.node = p.node /\ q.remote = p.remote
      /\ q.held = p.held /\ q.waste = p.waste
      /\ p.refs > 0 /\ p.refs >= Ref(p.node) + Ref(p.remote # NoNode) => q.refs = p.refs
  <2>1. LET x == PlugLess(u)
        IN  /\ x \in PlugRecords
            /\ x.slot = u.slot /\ x.node = u.node /\ x.remote = u.remote
            /\ x.held = u.held /\ x.waste = u.waste
            /\ x.refs = IF u.refs > 1 /\ u.refs - 1 >= Ref(u.node) + Ref(u.remote # NoNode)
                        THEN u.refs - 1 ELSE 0
    BY <1>2, PlugLessIs
  <2>2. p.refs \in Nat
    BY <1>1 DEF PlugRecords
  <2> HIDE DEF p
  <2> QED BY <1>2, <2>1, <2>2
<1> HIDE DEF q
<1>4. h = [g EXCEPT !.plugs[e] = q]
  BY DEF UsedPlug, q, u
<1>5. /\ h \in Graphs /\ h.plugs = [g.plugs EXCEPT ![e] = q]
      /\ h.sockets = g.sockets /\ h.nodes = g.nodes
  BY <1>1, <1>3, <1>4 DEF Graphs
<1> HIDE DEF h
<1>6. Good(h, d) /\ Grows(g, h)
  BY <1>3, <1>5, PlugCountChange, Zenon
<1>7. h.plugs[e] = q
  BY <1>1, <1>5
<1> QED BY <1>3, <1>5, <1>6, <1>7 DEF h

-----------------------------------------------------------------------------
(* The destruction of a node.                                                 *)

\* A plug stays as it is, or changes from one that is not loose to another such.
Kept(p, q) == q = p \/ (~ Loose(p) /\ ~ Loose(q) /\ (CountedPlug(p) => CountedPlug(q)))

\* What is taken away in the course of it.
Shrinks(g, h) ==
  /\ \A n \in Nodes : /\ h.nodes[n].user = g.nodes[n].user
                      /\ h.sockets[n].slot => g.sockets[n].slot
                      /\ h.sockets[n].node => g.sockets[n].node
                      /\ ToSet(h.sockets[n].plugs) \subseteq ToSet(g.sockets[n].plugs)
  /\ \A e \in Edges : /\ h.plugs[e].slot => g.plugs[e].slot
                      /\ g.nodes[NodeOf(e)].user > 0 /\ g.plugs[e].slot => h.plugs[e].slot
                      /\ h.plugs[e].held = g.plugs[e].held
                      /\ h.plugs[e].waste = g.plugs[e].waste
                      /\ Kept(g.plugs[e], h.plugs[e])
                      /\ JoinedPlug(g.plugs[e]) => JoinedPlug(h.plugs[e])

LEMMA ShrinksSame == \A g : Shrinks(g, g)
BY DEF Shrinks, Kept

LEMMA ShrinksBoth ==
  ASSUME NEW g, NEW h, NEW k, Shrinks(g, h), Shrinks(h, k)
  PROVE  Shrinks(g, k)
<1>1. ASSUME NEW n \in Nodes
      PROVE  /\ k.nodes[n].user = g.nodes[n].user
             /\ k.sockets[n].slot => g.sockets[n].slot
             /\ k.sockets[n].node => g.sockets[n].node
             /\ ToSet(k.sockets[n].plugs) \subseteq ToSet(g.sockets[n].plugs)
  BY DEF Shrinks
<1>2. ASSUME NEW e \in Edges
      PROVE  /\ k.plugs[e].slot => g.plugs[e].slot
             /\ g.nodes[NodeOf(e)].user > 0 /\ g.plugs[e].slot => k.plugs[e].slot
             /\ k.plugs[e].held = g.plugs[e].held
             /\ k.plugs[e].waste = g.plugs[e].waste
             /\ Kept(g.plugs[e], k.plugs[e])
             /\ JoinedPlug(g.plugs[e]) => JoinedPlug(k.plugs[e])
  BY EdgeForm DEF Shrinks, Kept
<1> QED BY <1>1, <1>2 DEF Shrinks

LEMMA DisconnectedShrinks ==
  ASSUME NEW g, NEW d, Good(g, d), NEW e \in Edges, ~ Loose(g.plugs[e])
  PROVE  Shrinks(g, Disconnected(g, e))
<1> DEFINE h == Disconnected(g, e)
<1>1. /\ Keeps(g, h) /\ h.plugs = [g.plugs EXCEPT ![e] = h.plugs[e]]
      /\ h.plugs[e].slot = g.plugs[e].slot /\ h.plugs[e].held = g.plugs[e].held
      /\ h.plugs[e].waste = g.plugs[e].waste
      /\ CountedPlug(g.plugs[e]) => CountedPlug(h.plugs[e])
      /\ h.plugs[e].remote = NoNode /\ ~ h.plugs[e].node
  BY DisconnectedGood
<1>2. g.plugs \in [Edges -> PlugRecords]
  BY GraphTypes DEF Good
<1> HIDE DEF h
<1>3. ASSUME NEW f \in Edges
      PROVE  /\ h.plugs[f].slot <=> g.plugs[f].slot
             /\ h.plugs[f].held = g.plugs[f].held
             /\ h.plugs[f].waste = g.plugs[f].waste
             /\ Kept(g.plugs[f], h.plugs[f])
             /\ JoinedPlug(g.plugs[f]) => JoinedPlug(h.plugs[f])
  <2>1. CASE f = e
    BY <1>1, <2>1 DEF JoinedPlug, Kept, Loose
  <2>2. CASE f # e
    <3>1. h.plugs[f] = g.plugs[f]
      BY <1>1, <1>2, <2>2
    <3> QED BY <3>1 DEF Kept
  <2> QED BY <2>1, <2>2
<1>4. Shrinks(g, h)
  BY <1>1, <1>3 DEF Shrinks, Keeps
<1> QED BY <1>4 DEF h

LEMMA PlugReleasedGood ==
  ASSUME NEW g, NEW d, Good(g, d), NEW e \in Edges, g.nodes[NodeOf(e)].user = 0,
         ~ Loose(g.plugs[e])
  PROVE  LET h == PlugReleased(g, e)
         IN  Good(h, d) /\ Shrinks(g, h) /\ ~ h.plugs[e].slot
<1> DEFINE h == PlugReleased(g, e)
           k == Disconnected(g, e)
           u == k.plugs[e]
           q == [PlugLess(u) EXCEPT !.slot = FALSE]
<1>1. CASE ~ g.plugs[e].slot
  <2>1. h = g
    BY <1>1 DEF PlugReleased
  <2> QED BY <1>1, <2>1, ShrinksSame
<1>2. CASE g.plugs[e].slot
  <2>1. /\ Good(k, d) /\ Shrinks(g, k) /\ u \in PlugRecords
        /\ u.slot /\ ~ u.node /\ u.remote = NoNode
    <3>1. /\ Good(k, d) /\ u \in PlugRecords
          /\ u.slot = g.plugs[e].slot /\ ~ u.node /\ u.remote = NoNode
      BY DisconnectedGood, ZenonT(60)
    <3>2. Shrinks(g, k)
      BY DisconnectedShrinks
    <3> HIDE DEF k, u
    <3> QED BY <1>2, <3>1, <3>2
  <2>2. h = [k EXCEPT !.plugs[e] = q]
    BY <1>2 DEF PlugReleased
  <2> HIDE DEF h, k, u
  <2>3. /\ q \in PlugRecords /\ ~ q.slot /\ ~ q.node /\ q.remote = NoNode
        /\ q.held = u.held /\ q.waste = u.waste
        /\ q.refs = IF u.refs > 1 THEN u.refs - 1 ELSE 0
    <3> DEFINE x == PlugLess(u)
    <3>1. /\ x \in PlugRecords
          /\ x.slot = u.slot /\ x.node = u.node /\ x.remote = u.remote
          /\ x.held = u.held /\ x.waste = u.waste
          /\ x.refs = IF u.refs > 1 /\ u.refs - 1 >= Ref(u.node) + Ref(u.remote # NoNode)
                      THEN u.refs - 1 ELSE 0
      BY <2>1, PlugLessIs
    <3>2. u.refs \in Nat /\ Ref(u.node) + Ref(u.remote # NoNode) = 0
      BY <2>1 DEF PlugRecords, Ref
    <3> HIDE DEF x
    <3>3. x.refs = IF u.refs > 1 THEN u.refs - 1 ELSE 0
      BY <3>1, <3>2
    <3>4. /\ q \in PlugRecords /\ ~ q.slot /\ q.node = x.node /\ q.remote = x.remote
          /\ q.held = x.held /\ q.waste = x.waste /\ q.refs = x.refs
      <4>1. x \in PlugRecords /\ q = [x EXCEPT !.slot = FALSE]
        BY <3>1 DEF x
      <4> HIDE DEF q
      <4> QED BY <4>1 DEF PlugRecords
    <3> QED BY <2>1, <3>1, <3>3, <3>4
  <2> HIDE DEF q
  <2>4. k \in Graphs /\ k.plugs \in [Edges -> PlugRecords]
    BY <2>1, GraphTypes DEF Good
  <2>5. /\ h \in Graphs /\ h.plugs = [k.plugs EXCEPT ![e] = q]
        /\ h.sockets = k.sockets /\ h.nodes = k.nodes
    BY <2>2, <2>3, <2>4 DEF Graphs
  <2>6. Good(h, d)
    <3>1. GoodPlug(q, Lives(k, d, NodeOf(e))) /\ q.remote = k.plugs[e].remote
      BY <2>1, <2>3 DEF GoodPlug, u
    <3>2. Follows(k, h, d, NodeOf(e), Ref(Refers(q)) - Ref(Refers(k.plugs[e])))
      <4>1. Ref(Refers(q)) - Ref(Refers(k.plugs[e])) = 0
        BY <2>1, <2>3 DEF Ref, Refers, u
      <4>2. \A m \in Nodes : k.nodes[m].refs \in Int
        BY <2>4, GraphTypes DEF NodeRecords
      <4> QED BY <2>5, <4>1, <4>2 DEF Follows
    <3> QED BY <2>1, <2>3, <2>5, <3>1, <3>2, PlugChange, Zenon
  <2>7. CountedPlug(u) => CountedPlug(q)
    <3>1. u.refs \in Nat /\ u.held \in Nat /\ u.waste \in Nat
      BY <2>1 DEF PlugRecords
    <3> QED BY <2>1, <2>3, <3>1 DEF CountedPlug, Ref
  <2>8. \A f \in Edges : h.plugs[f] = IF f = e THEN q ELSE k.plugs[f]
    BY <2>4, <2>5
  <2>9. Shrinks(k, h)
    <3>1. ASSUME NEW f \in Edges
          PROVE  /\ h.plugs[f].slot => k.plugs[f].slot
                 /\ k.nodes[NodeOf(f)].user > 0 /\ k.plugs[f].slot => h.plugs[f].slot
                 /\ h.plugs[f].held = k.plugs[f].held
                 /\ h.plugs[f].waste = k.plugs[f].waste
                 /\ Kept(k.plugs[f], h.plugs[f])
                 /\ JoinedPlug(k.plugs[f]) => JoinedPlug(h.plugs[f])
      <4>1. k.nodes[NodeOf(e)].user = 0
        BY <2>1, EdgeForm DEF Shrinks
      <4>2. JoinedPlug(q)
        BY <2>3 DEF JoinedPlug
      <4>3. Kept(u, q)
        BY <2>1, <2>3, <2>7 DEF Kept, Loose
      <4> QED BY <2>3, <2>8, <4>1, <4>2, <4>3 DEF u, Kept
    <3> QED BY <2>5, <3>1 DEF Shrinks
  <2>10. Shrinks(g, h)
    BY <2>1, <2>9, ShrinksBoth
  <2> QED BY <2>3, <2>6, <2>8, <2>10 DEF h
<1> QED BY <1>1, <1>2

\* The node d gives up its socket: nothing that is left of it knows the node.
LEMMA SocketReleasedGood ==
  ASSUME NEW g, NEW d \in Nodes, Good(g, d), g.nodes[d].user = 0,
         g.sockets[d].node => g.sockets[d].plugs = << >>
  PROVE  LET h == SocketReleased(g, d)
         IN  /\ Good(h, d) /\ Shrinks(g, h) /\ ~ h.sockets[d].slot
             /\ h.sockets[d].node => h.sockets[d].plugs = << >>
<1> DEFINE h == SocketReleased(g, d)
           s == g.sockets[d]
           x == SocketLess(s)
           t == [x EXCEPT !.slot = FALSE]
           v == IF t.refs > 0 THEN t ELSE [t EXCEPT !.node = FALSE]
           c == IF t.refs > 0 \/ ~ s.node THEN g.nodes[d].refs ELSE g.nodes[d].refs - 1
<1>1. CASE ~ s.slot
  <2>1. h = g
    BY <1>1 DEF SocketReleased
  <2> QED BY <1>1, <2>1, ShrinksSame
<1>2. CASE s.slot
  <2>1. /\ g \in Graphs
        /\ g.plugs \in [Edges -> PlugRecords] /\ g.sockets \in [Nodes -> SocketRecords]
        /\ g.nodes \in [Nodes -> NodeRecords] /\ s \in SocketRecords
        /\ g = [plugs |-> g.plugs, sockets |-> g.sockets, nodes |-> g.nodes]
        /\ GoodSocket(s, Lives(g, d, d), g.nodes[d].user)
    BY GraphTypes DEF Good
  <2>2. h = IF t.refs > 0 THEN [g EXCEPT !.sockets[d] = t]
            ELSE [g EXCEPT !.sockets[d] = [t EXCEPT !.node = FALSE],
                           !.nodes[d].refs = IF s.node THEN @ - 1 ELSE @]
    BY <1>2 DEF SocketReleased
  <2>3. h.plugs = g.plugs
    BY <2>1, <2>2
  <2>4. h.sockets = [g.sockets EXCEPT ![d] = v]
    BY <2>1, <2>2
  <2>5. h.nodes = [g.nodes EXCEPT ![d].refs = c]
    <3>1. CASE t.refs > 0
      <4>1. h.nodes = g.nodes
        BY <2>1, <2>2, <3>1
      <4>2. [g.nodes EXCEPT ![d].refs = c] = g.nodes
        BY <2>1, <3>1 DEF NodeRecords
      <4> QED BY <4>1, <4>2
    <3>2. CASE ~ (t.refs > 0)
      BY <2>1, <2>2, <3>2
    <3> QED BY <3>1, <3>2
  <2>6. IsGraph(h)
    <3>1. CASE t.refs > 0
      BY <2>1, <2>2, <3>1 DEF IsGraph
    <3>2. CASE ~ (t.refs > 0)
      BY <2>1, <2>2, <3>2 DEF IsGraph
    <3> QED BY <3>1, <3>2
  <2> HIDE DEF h, s, x, c
  <2>7. /\ s.refs \in Nat /\ s.waste \in Nat /\ Len(s.plugs) \in Nat
        /\ s.node \in BOOLEAN /\ s.listed \in BOOLEAN
    BY <2>1 DEF SocketRecords
  <2>8. s.refs >= 1 + Len(s.plugs) /\ s.refs <= 1 + Len(s.plugs) + s.waste
    BY <1>2, <2>1 DEF GoodSocket, Ref
  <2>9. /\ x \in SocketRecords
        /\ x.slot = s.slot /\ x.node = s.node /\ x.listed = s.listed
        /\ x.plugs = s.plugs /\ x.waste = s.waste
        /\ x.refs = IF s.refs - 1 >= Ref(s.node) + Ref(s.listed) THEN s.refs - 1 ELSE 0
    <3>1. s.refs > 0
      BY <2>7, <2>8
    <3> QED BY <2>1, <3>1, SocketLessIs DEF x
  <2>10. /\ t \in SocketRecords /\ ~ t.slot /\ t.node = s.node /\ t.listed = s.listed
         /\ t.plugs = s.plugs /\ t.waste = s.waste /\ t.refs = x.refs
    BY <2>9 DEF SocketRecords
  <2> HIDE DEF t
  <2>11. /\ v \in SocketRecords /\ ~ v.slot /\ (v.node => s.node) /\ v.listed = s.listed
         /\ v.plugs = s.plugs /\ v.waste = s.waste /\ v.refs = x.refs
    BY <2>10 DEF SocketRecords
  <2> HIDE DEF v
  <2>12. x.refs >= Len(s.plugs) /\ x.refs <= Len(s.plugs) + s.waste
    <3>1. CASE s.plugs = << >>
      <4>1. Len(s.plugs) = 0
        BY <3>1
      <4> QED BY <2>7, <2>8, <2>9, <4>1
    <3>2. CASE s.plugs # << >>
      <4>1. ~ s.node /\ s.listed /\ Len(s.plugs) >= 1
        <5>1. s.plugs \in Seq(Edges)
          BY <2>1 DEF SocketRecords
        <5>2. Len(s.plugs) >= 1
          BY <3>2, <5>1
        <5> QED BY <2>1, <3>2, <5>2 DEF GoodSocket, s
      <4>2. Ref(s.node) + Ref(s.listed) = 1
        BY <4>1 DEF Ref
      <4>3. x.refs = IF s.refs - 1 >= 1 THEN s.refs - 1 ELSE 0
        BY <2>9, <4>2
      <4> QED BY <2>7, <2>8, <4>1, <4>3
    <3> QED BY <3>1, <3>2
  <2>13. GoodSocket(v, Lives(g, d, d), g.nodes[d].user)
    <3>1. Ref(v.slot) = 0 /\ Lives(g, d, d)
      BY <2>11 DEF Ref, Lives
    <3>2. x.refs \in Nat /\ Len(v.plugs) = Len(s.plugs) /\ v.waste = s.waste
      BY <2>9, <2>11 DEF SocketRecords
    <3>3. v.refs >= Ref(v.slot) + Len(v.plugs) /\ v.refs <= Ref(v.slot) + Len(v.plugs) + v.waste
      BY <2>7, <2>11, <2>12, <3>1, <3>2
    <3>4. v.plugs # << >> => v.listed
      BY <2>1, <2>11 DEF GoodSocket
    <3>5. ~ (g.nodes[d].user > 0)
      OBVIOUS
    <3> QED BY <2>11, <3>1, <3>3, <3>4, <3>5 DEF GoodSocket
  <2>14. c \in Int
    BY <2>1 DEF c, NodeRecords
  <2>15. /\ h.nodes \in [Nodes -> NodeRecords]
         /\ \A m \in Nodes : /\ h.nodes[m].user = g.nodes[m].user
                             /\ m # d => h.nodes[m].refs = g.nodes[m].refs
    BY <2>1, <2>5, <2>14 DEF NodeRecords
  <2>16. h \in Graphs
    <3>1. h.sockets \in [Nodes -> SocketRecords]
      BY <2>1, <2>4, <2>11
    <3> QED BY <2>1, <2>3, <2>6, <2>15, <3>1, GraphOfParts
  <2>17. Good(h, d)
    <3>1. Follows(g, h, d, d, Ref(v.slot /\ v.node) -
                              Ref(g.sockets[d].slot /\ g.sockets[d].node))
      BY <2>15 DEF Follows
    <3>2. v.plugs = g.sockets[d].plugs
      BY <2>11 DEF s
    <3> QED BY <2>3, <2>4, <2>11, <2>13, <2>16, <3>1, <3>2, SocketChange, Zenon
  <2>18. \A m \in Nodes : h.sockets[m] = IF m = d THEN v ELSE g.sockets[m]
    BY <2>1, <2>4
  <2>19. Shrinks(g, h)
    BY <2>3, <2>11, <2>15, <2>18 DEF Shrinks, Kept, s
  <2>20. h.sockets[d].node => h.sockets[d].plugs = << >>
    BY <2>11, <2>18 DEF s
  <2> QED BY <2>11, <2>17, <2>18, <2>19, <2>20 DEF h
<1> QED BY <1>1, <1>2

\* One round of the loops over plugs.
Cut(g, list, f, k) == IF k = 0 THEN g ELSE Disconnected(f[k - 1], list[k])

GivenUp(g, n, f, k) == IF k = 0 THEN g ELSE PlugReleased(f[k - 1], <<n, k>>)

LEMMA CutOffIs ==
  ASSUME NEW g, NEW d, Good(g, d), NEW list \in Seq(Edges)
  PROVE  \E f : /\ f = [k \in 0 .. Len(list) |-> Cut(g, list, f, k)]
                /\ \A k \in 0 .. Len(list) : Good(f[k], d)
                /\ CutOff(g, list) = f[Len(list)]
<1> DEFINE n == Len(list)
           X == {x \in Graphs : Good(x, d)}
           Step == [p \in (1 .. n) \X X |-> Disconnected(p[2], list[p[1]])]
<1>1. n \in Nat /\ g \in X /\ \A k \in 1 .. n : list[k] \in Edges
  BY ElementOfSeq DEF Good
<1>2. \A x \in X : Good(x, d)
  OBVIOUS
<1>3. Step \in [(1 .. n) \X X -> X]
  <2>1. ASSUME NEW p \in (1 .. n) \X X PROVE Disconnected(p[2], list[p[1]]) \in X
    <3>1. Good(p[2], d) /\ list[p[1]] \in Edges
      BY <1>1
    <3>2. Good(Disconnected(p[2], list[p[1]]), d)
      BY <3>1, DisconnectedGood
    <3> QED BY <3>2 DEF Good
  <2> HIDE DEF n, X
  <2> QED BY <2>1
<1>4. PICK h \in [0 .. n -> X] : AreRounds(h, n, g, Step)
  <2> HIDE DEF n, X, Step
  <2> QED BY <1>1, <1>3, RoundsExist
<1>5. h = [k \in 0 .. n |-> Cut(g, list, h, k)]
  <2>1. ASSUME NEW k \in 0 .. n
        PROVE  (IF k = 0 THEN g ELSE Step[<<k, h[k - 1]>>]) = Cut(g, list, h, k)
    <3>1. CASE k = 0
      BY <3>1 DEF Cut
    <3>2. CASE k # 0
      <4>1. k \in 1 .. n /\ k - 1 \in 0 .. n
        BY <1>1, <3>2
      <4> HIDE DEF X, n
      <4>2. h[k - 1] \in X
        BY <4>1
      <4>3. Step[<<k, h[k - 1]>>] = Disconnected(h[k - 1], list[k])
        BY <4>1, <4>2
      <4> QED BY <3>2, <4>3 DEF Cut
    <3> QED BY <3>1, <3>2
  <2> HIDE DEF n, X, Step
  <2> QED BY <1>4, <2>1 DEF AreRounds
<1> HIDE DEF X, Step
<1> DEFINE f == CHOOSE c : c = [k \in 0 .. n |-> Cut(g, list, c, k)]
<1>6. f = [k \in 0 .. n |-> Cut(g, list, f, k)]
  BY <1>5
<1>7. CutOff(g, list) = f[n]
  BY DEF CutOff, Cut
<1> HIDE DEF f
<1> DEFINE S == {k \in 0 .. n : Good(f[k], d)}
<1>8. 0 \in S
  BY <1>1, <1>2, <1>6 DEF Cut
<1>9. ASSUME NEW k \in S, k \in 0 .. n - 1 PROVE k + 1 \in S
  <2>1. k + 1 \in 1 .. n /\ k + 1 \in 0 .. n /\ (k + 1) - 1 = k /\ k + 1 # 0
    BY <1>1, <1>9
  <2>2. f[k + 1] = Disconnected(f[k], list[k + 1])
    <3>1. f[k + 1] = Cut(g, list, f, k + 1)
      BY <1>6, <2>1
    <3> QED BY <2>1, <3>1 DEF Cut
  <2>3. Good(f[k], d) /\ list[k + 1] \in Edges
    BY <1>1, <2>1
  <2>4. Good(f[k + 1], d)
    <3>1. Good(Disconnected(f[k], list[k + 1]), d)
      BY <2>3, DisconnectedGood
    <3> QED BY <2>2, <3>1
  <2> QED BY <2>1, <2>4
<1>10. 0 .. n \subseteq S
  <2> HIDE DEF S
  <2> QED BY <1>1, <1>8, <1>9, BoundedInduction
<1> QED BY <1>6, <1>7, <1>10

\* Plugs are disconnected in any order; if one of the node d is among them and comes
\* first, its socket does not know the node any more.
LEMMA CutOffGood ==
  ASSUME NEW g, NEW d \in Nodes, Good(g, d), NEW list \in Seq(Edges),
         \A i \in 1 .. Len(list) : ~ Loose(g.plugs[list[i]])
  PROVE  LET h == CutOff(g, list)
         IN  /\ Good(h, d) /\ Shrinks(g, h)
             /\ Len(list) > 0 /\ g.plugs[list[1]].remote = d => ~ h.sockets[d].node
<1> DEFINE n == Len(list)
<1>1. PICK f : /\ f = [k \in 0 .. n |-> Cut(g, list, f, k)]
               /\ \A k \in 0 .. n : Good(f[k], d)
               /\ CutOff(g, list) = f[n]
  BY CutOffIs
<1>2. /\ n \in Nat /\ \A k \in 1 .. n : list[k] \in Edges
      /\ \A k \in 1 .. n : ~ Loose(g.plugs[list[k]])
  BY ElementOfSeq
<1> HIDE DEF n
<1> DEFINE S == {k \in 0 .. n :
                   /\ Shrinks(g, f[k])
                   /\ k > 0 /\ g.plugs[list[1]].remote = d => ~ f[k].sockets[d].node}
<1>3. 0 \in S
  <2>1. f[0] = g
    BY <1>1, <1>2 DEF Cut
  <2> QED BY <1>2, <2>1, ShrinksSame
<1>4. ASSUME NEW k \in S, k \in 0 .. n - 1 PROVE k + 1 \in S
  <2>1. k + 1 \in 1 .. n /\ k + 1 \in 0 .. n /\ (k + 1) - 1 = k /\ k + 1 # 0
    BY <1>2, <1>4
  <2>2. f[k + 1] = Disconnected(f[k], list[k + 1])
    <3>1. f[k + 1] = Cut(g, list, f, k + 1)
      BY <1>1, <2>1
    <3> QED BY <2>1, <3>1 DEF Cut
  <2>3. Good(f[k], d) /\ list[k + 1] \in Edges /\ Shrinks(g, f[k])
    BY <1>1, <1>2, <2>1
  <2>4. Shrinks(f[k], f[k + 1])
    <3>1. ~ Loose(g.plugs[list[k + 1]]) /\ Kept(g.plugs[list[k + 1]], f[k].plugs[list[k + 1]])
      BY <1>2, <2>1, <2>3 DEF Shrinks
    <3>2. ~ Loose(f[k].plugs[list[k + 1]])
      BY <3>1 DEF Kept
    <3> QED BY <2>2, <2>3, <3>2, DisconnectedShrinks
  <2>5. Shrinks(g, f[k + 1])
    BY <2>3, <2>4, ShrinksBoth
  <2>6. ASSUME g.plugs[list[1]].remote = d PROVE ~ f[k + 1].sockets[d].node
    <3>1. CASE k = 0
      <4>1. f[0] = g
        BY <1>1, <1>2 DEF Cut
      <4>2. d # NoNode /\ f[k + 1] = Disconnected(g, list[1]) /\ list[1] \in Edges
        BY <2>2, <2>3, <3>1, <4>1, FilterAssumption
      <4>3. g.plugs[list[1]].remote # NoNode =>
              ~ Disconnected(g, list[1]).sockets[g.plugs[list[1]].remote].node
        BY <4>2, DisconnectedGood
      <4> QED BY <2>6, <4>2, <4>3
    <3>2. CASE k > 0
      BY <2>4, <2>6, <3>2 DEF Shrinks
    <3> QED BY <2>1, <3>1, <3>2
  <2> QED BY <2>1, <2>5, <2>6
<1>5. 0 .. n \subseteq S
  <2> HIDE DEF S
  <2> QED BY <1>2, <1>3, <1>4, BoundedInduction
<1>6. n \in S
  <2> HIDE DEF S
  <2> QED BY <1>2, <1>5
<1> QED BY <1>1, <1>2, <1>6 DEF n

LEMMA PlugsReleasedIs ==
  ASSUME NEW g, NEW d, Good(g, d), NEW m \in Nodes, g.nodes[m].user = 0,
         \A i \in 1 .. NPlugs[m] : ~ Loose(g.plugs[<<m, i>>])
  PROVE  \E f : /\ f = [k \in 0 .. NPlugs[m] |-> GivenUp(g, m, f, k)]
                /\ PlugsReleased(g, m) = f[NPlugs[m]]
<1> DEFINE n == NPlugs[m]
           X == {x \in Graphs : /\ Good(x, d) /\ x.nodes[m].user = 0
                                /\ \A i \in 1 .. n : ~ Loose(x.plugs[<<m, i>>])}
           Step == [p \in (1 .. n) \X X |-> PlugReleased(p[2], <<m, p[1]>>)]
<1>1. n \in Nat /\ g \in X /\ \A k \in 1 .. n : <<m, k>> \in Edges
  BY FilterAssumption, EdgeIs DEF Good
<1>3. Step \in [(1 .. n) \X X -> X]
  <2>1. ASSUME NEW p \in (1 .. n) \X X PROVE PlugReleased(p[2], <<m, p[1]>>) \in X
    <3>1. /\ Good(p[2], d) /\ p[2].nodes[m].user = 0 /\ p[1] \in 1 .. n
          /\ \A i \in 1 .. n : ~ Loose(p[2].plugs[<<m, i>>])
      OBVIOUS
    <3>2. <<m, p[1]>> \in Edges /\ NodeOf(<<m, p[1]>>) = m
      BY <3>1, EdgeIs
    <3> DEFINE x == PlugReleased(p[2], <<m, p[1]>>)
    <3>3. Good(x, d) /\ Shrinks(p[2], x)
      BY <3>1, <3>2, PlugReleasedGood
    <3>4. x.nodes[m].user = 0
      BY <3>1, <3>3 DEF Shrinks
    <3>5. \A i \in 1 .. n : ~ Loose(x.plugs[<<m, i>>])
      <4>1. ASSUME NEW i \in 1 .. n PROVE ~ Loose(x.plugs[<<m, i>>])
        <5>1. Kept(p[2].plugs[<<m, i>>], x.plugs[<<m, i>>])
          BY <1>1, <3>3 DEF Shrinks
        <5> HIDE DEF x
        <5> QED BY <3>1, <5>1 DEF Kept
      <4> QED BY <4>1
    <3> QED BY <3>3, <3>4, <3>5 DEF Good
  <2> HIDE DEF n, X
  <2> QED BY <2>1
<1>4. PICK h \in [0 .. n -> X] : AreRounds(h, n, g, Step)
  <2> HIDE DEF n, X, Step
  <2> QED BY <1>1, <1>3, RoundsExist
<1>5. h = [k \in 0 .. n |-> GivenUp(g, m, h, k)]
  <2>1. ASSUME NEW k \in 0 .. n
        PROVE  (IF k = 0 THEN g ELSE Step[<<k, h[k - 1]>>]) = GivenUp(g, m, h, k)
    <3>1. CASE k = 0
      BY <3>1 DEF GivenUp
    <3>2. CASE k # 0
      <4>1. k \in 1 .. n /\ k - 1 \in 0 .. n
        BY <1>1, <3>2
      <4> HIDE DEF X, n
      <4>2. h[k - 1] \in X
        BY <4>1
      <4>3. Step[<<k, h[k - 1]>>] = PlugReleased(h[k - 1], <<m, k>>)
        BY <4>1, <4>2
      <4> QED BY <3>2, <4>3 DEF GivenUp
    <3> QED BY <3>1, <3>2
  <2> HIDE DEF n, X, Step
  <2> QED BY <1>4, <2>1 DEF AreRounds
<1> HIDE DEF X, Step
<1> DEFINE f == CHOOSE c : c = [k \in 0 .. n |-> GivenUp(g, m, c, k)]
<1>6. f = [k \in 0 .. n |-> GivenUp(g, m, f, k)]
  BY <1>5
<1>7. PlugsReleased(g, m) = f[n]
  BY DEF PlugsReleased, GivenUp
<1> HIDE DEF f
<1> QED BY <1>6, <1>7

\* All plugs of a node are given up.
LEMMA PlugsReleasedGood ==
  ASSUME NEW g, NEW d, Good(g, d), NEW m \in Nodes, g.nodes[m].user = 0,
         \A i \in 1 .. NPlugs[m] : ~ Loose(g.plugs[<<m, i>>])
  PROVE  LET h == PlugsReleased(g, m)
         IN  /\ Good(h, d) /\ Shrinks(g, h)
             /\ \A i \in 1 .. NPlugs[m] : ~ h.plugs[<<m, i>>].slot
<1> DEFINE n == NPlugs[m]
<1>1. PICK f : /\ f = [k \in 0 .. n |-> GivenUp(g, m, f, k)]
               /\ PlugsReleased(g, m) = f[n]
  BY PlugsReleasedIs
<1>2. n \in Nat /\ \A k \in 1 .. n : <<m, k>> \in Edges
  BY FilterAssumption, EdgeIs
<1> HIDE DEF n
<1> DEFINE S == {k \in 0 .. n :
                   /\ Good(f[k], d) /\ Shrinks(g, f[k])
                   /\ \A i \in 1 .. k : ~ f[k].plugs[<<m, i>>].slot}
<1>3. 0 \in S
  <2>1. f[0] = g
    BY <1>1, <1>2 DEF GivenUp
  <2> QED BY <1>2, <2>1, ShrinksSame
<1>4. ASSUME NEW k \in S, k \in 0 .. n - 1 PROVE k + 1 \in S
  <2>1. k + 1 \in 1 .. n /\ k + 1 \in 0 .. n /\ (k + 1) - 1 = k /\ k + 1 # 0
    BY <1>2, <1>4
  <2>2. f[k + 1] = PlugReleased(f[k], <<m, k + 1>>)
    <3>1. f[k + 1] = GivenUp(g, m, f, k + 1)
      BY <1>1, <2>1
    <3> QED BY <2>1, <3>1 DEF GivenUp
  <2>3. /\ Good(f[k], d) /\ <<m, k + 1>> \in Edges /\ Shrinks(g, f[k])
        /\ \A i \in 1 .. k : ~ f[k].plugs[<<m, i>>].slot
    BY <1>2, <2>1
  <2>4. Good(f[k + 1], d) /\ Shrinks(f[k], f[k + 1]) /\ ~ f[k + 1].plugs[<<m, k + 1>>].slot
    <3>1. NodeOf(<<m, k + 1>>) = m /\ f[k].nodes[m].user = 0
      BY <2>3 DEF Shrinks, NodeOf
    <3>2. /\ ~ Loose(g.plugs[<<m, k + 1>>])
          /\ Kept(g.plugs[<<m, k + 1>>], f[k].plugs[<<m, k + 1>>])
      BY <2>1, <2>3 DEF Shrinks, n
    <3>3. ~ Loose(f[k].plugs[<<m, k + 1>>])
      BY <3>2 DEF Kept
    <3> QED BY <2>2, <2>3, <3>1, <3>3, PlugReleasedGood
  <2>5. Shrinks(g, f[k + 1])
    BY <2>3, <2>4, ShrinksBoth
  <2>6. ASSUME NEW i \in 1 .. k + 1 PROVE ~ f[k + 1].plugs[<<m, i>>].slot
    <3>1. CASE i = k + 1
      BY <2>4, <3>1
    <3>2. CASE i # k + 1
      <4>1. i \in 1 .. k /\ i \in 1 .. n
        BY <1>2, <2>1, <3>2
      <4>2. <<m, i>> \in Edges
        BY <1>2, <4>1
      <4> QED BY <2>3, <2>4, <4>1, <4>2 DEF Shrinks
    <3> QED BY <3>1, <3>2
  <2> QED BY <2>1, <2>4, <2>5, <2>6
<1>5. 0 .. n \subseteq S
  <2> HIDE DEF S
  <2> QED BY <1>2, <1>3, <1>4, BoundedInduction
<1>6. n \in S
  <2> HIDE DEF S
  <2> QED BY <1>2, <1>5
<1> QED BY <1>1, <1>6 DEF n

\* The plugs that the loop over a socket's list reaches begin with its first one.
LEMMA ReachedIs ==
  ASSUME NEW s \in SocketRecords
  PROVE  /\ Reached(s) \in Seq(Edges)
         /\ \A i \in 1 .. Len(Reached(s)) : Reached(s)[i] \in ToSet(s.plugs)
         /\ s.plugs # << >> => Len(Reached(s)) > 0 /\ Reached(s)[1] \in ToSet(s.plugs)
<1> DEFINE n == Len(s.plugs)
           m == (n + 1) \div 2
<1>1. s.plugs \in Seq(Edges) /\ n \in Nat /\ \A i \in 1 .. n : s.plugs[i] \in Edges
  <2>1. s.plugs \in Seq(Edges)
    BY DEF SocketRecords
  <2> QED BY <2>1, ElementOfSeq
<1>2. m \in Nat /\ 2 * m <= n + 1 /\ n + 1 < 2 * m + 2
  <2> HIDE DEF n
  <2> QED BY <1>1
<1>3. Reached(s) = [i \in 1 .. m |-> s.plugs[2 * i - 1]]
  BY DEF Reached
<1> HIDE DEF m
<1>4. \A i \in 1 .. m : 2 * i - 1 \in 1 .. n
  BY <1>1, <1>2
<1>5. Reached(s) \in Seq(Edges) /\ Len(Reached(s)) = m
  <2>1. \A i \in 1 .. m : s.plugs[2 * i - 1] \in Edges
    BY <1>1, <1>4
  <2> HIDE DEF n
  <2> QED BY <1>2, <1>3, <2>1, SeqDef, LenProperties
<1>6. ASSUME s.plugs # << >> PROVE m > 0 /\ Reached(s)[1] \in ToSet(s.plugs)
  <2>1. n > 0
    BY <1>1, <1>6
  <2>2. m > 0 /\ 1 \in 1 .. m /\ 1 \in 1 .. n
    BY <1>1, <1>2, <2>1
  <2>3. Reached(s)[1] = s.plugs[1]
    BY <1>3, <2>2
  <2> QED BY <1>1, <2>2, <2>3 DEF ToSet
<1>7. \A i \in 1 .. Len(Reached(s)) : Reached(s)[i] \in ToSet(s.plugs)
  <2>1. ASSUME NEW i \in 1 .. m PROVE Reached(s)[i] \in ToSet(s.plugs)
    <3>1. Reached(s)[i] = s.plugs[2 * i - 1] /\ 2 * i - 1 \in 1 .. n
      BY <1>3, <1>4
    <3> QED BY <1>1, <3>1 DEF ToSet
  <2> QED BY <1>5, <2>1
<1> QED BY <1>5, <1>6, <1>7

\* A node is destroyed with its last reference from outside.
LEMMA DestroyedGood ==
  ASSUME NEW g, NEW d \in Nodes, Good(g, d), g.nodes[d].user = 0,
         \A i \in 1 .. NPlugs[d] : ~ Loose(g.plugs[<<d, i>>])
  PROVE  LET h == Destroyed(g, d)
         IN  Good(h, NoNode) /\ Shrinks(g, h)
<1> DEFINE list == Reached(g.sockets[d])
           a == CutOff(g, list)
           b == SocketReleased(a, d)
           c == PlugsReleased(b, d)
           h == Destroyed(g, d)
<1>1. g \in Graphs /\ g.sockets[d] \in SocketRecords /\ TwoEnds(g)
  BY GraphTypes DEF Good
<1>2. /\ list \in Seq(Edges)
      /\ \A i \in 1 .. Len(list) : list[i] \in ToSet(g.sockets[d].plugs)
      /\ g.sockets[d].plugs # << >> => Len(list) > 0 /\ list[1] \in ToSet(g.sockets[d].plugs)
  BY <1>1, ReachedIs
<1> HIDE DEF list
<1>3. /\ \A i \in 1 .. Len(list) : g.plugs[list[i]].remote = d
      /\ g.sockets[d].plugs # << >> => Len(list) > 0 /\ g.plugs[list[1]].remote = d
  <2>1. ToSet(g.sockets[d].plugs) \subseteq Edges
    <3>1. g.sockets[d].plugs \in Seq(Edges)
      BY <1>1 DEF SocketRecords
    <3>2. \A i \in 1 .. Len(g.sockets[d].plugs) : g.sockets[d].plugs[i] \in Edges
      BY <3>1, ElementOfSeq
    <3>3. DOMAIN g.sockets[d].plugs = 1 .. Len(g.sockets[d].plugs)
      BY <3>1
    <3> QED BY <3>2, <3>3 DEF ToSet
  <2> QED BY <1>1, <1>2, <2>1 DEF TwoEnds
<1>4. /\ Good(a, d) /\ Shrinks(g, a)
      /\ g.sockets[d].plugs # << >> => ~ a.sockets[d].node
  <2>1. \A i \in 1 .. Len(list) : ~ Loose(g.plugs[list[i]])
    BY <1>3, FilterAssumption DEF Loose
  <2> QED BY <1>2, <1>3, <2>1, CutOffGood
<1> HIDE DEF a
<1>5. a.nodes[d].user = 0 /\ (a.sockets[d].node => a.sockets[d].plugs = << >>)
  <2>1. ASSUME g.sockets[d].plugs = << >> PROVE a.sockets[d].plugs = << >>
    <3>1. g.sockets[d].plugs \in Seq(Edges) /\ a.sockets[d].plugs \in Seq(Edges)
      BY <1>1, <1>4, GraphTypes DEF Good
    <3>2. ToSet(g.sockets[d].plugs) = {}
      BY <2>1, <3>1, NothingListed
    <3>3. ToSet(a.sockets[d].plugs) = {}
      BY <1>4, <3>2 DEF Shrinks
    <3> QED BY <3>1, <3>3, NothingListed
  <2>2. a.nodes[d].user = g.nodes[d].user
    BY <1>4 DEF Shrinks
  <2> QED BY <1>4, <2>1, <2>2
<1>6. /\ Good(b, d) /\ Shrinks(a, b) /\ ~ b.sockets[d].slot
      /\ b.sockets[d].node => b.sockets[d].plugs = << >>
  BY <1>4, <1>5, SocketReleasedGood
<1> HIDE DEF b
<1>7. /\ Good(c, d) /\ Shrinks(b, c)
      /\ \A i \in 1 .. NPlugs[d] : ~ c.plugs[<<d, i>>].slot
  <2>1. b.nodes[d].user = 0
    BY <1>5, <1>6 DEF Shrinks
  <2>2. \A i \in 1 .. NPlugs[d] : ~ Loose(b.plugs[<<d, i>>])
    <3> SUFFICES ASSUME NEW i \in 1 .. NPlugs[d] PROVE ~ Loose(b.plugs[<<d, i>>])
      OBVIOUS
    <3>1. <<d, i>> \in Edges
      BY EdgeIs
    <3>2. Kept(g.plugs[<<d, i>>], b.plugs[<<d, i>>])
      <4>1. Shrinks(g, b)
        BY <1>4, <1>6, ShrinksBoth
      <4> QED BY <3>1, <4>1 DEF Shrinks
    <3> QED BY <3>2 DEF Kept
  <2> QED BY <1>6, <2>1, <2>2, PlugsReleasedGood
<1>8. h = [c EXCEPT !.nodes[d].refs = 0]
  BY DEF Destroyed, a, b, list
<1> HIDE DEF c, h
<1>9. Shrinks(g, c)
  <2>1. Shrinks(g, b)
    BY <1>4, <1>6, ShrinksBoth
  <2> QED BY <1>7, <2>1, ShrinksBoth
<1>10. /\ c \in Graphs
       /\ c = [plugs |-> c.plugs, sockets |-> c.sockets, nodes |-> c.nodes]
       /\ c.plugs \in [Edges -> PlugRecords] /\ c.sockets \in [Nodes -> SocketRecords]
       /\ c.nodes \in [Nodes -> NodeRecords]
  BY <1>7, GraphTypes DEF Good
<1>11. h.plugs = c.plugs /\ h.sockets = c.sockets
  BY <1>8, <1>10
<1>12. h.nodes = [c.nodes EXCEPT ![d].refs = 0]
  BY <1>8, <1>10
<1>13. IsGraph(h)
  BY <1>8, <1>10 DEF IsGraph
<1>14. /\ h.nodes \in [Nodes -> NodeRecords]
       /\ \A m \in Nodes : /\ h.nodes[m].user = c.nodes[m].user
                           /\ h.nodes[m].refs = IF m = d THEN 0 ELSE c.nodes[m].refs
  BY <1>10, <1>12 DEF NodeRecords
<1>15. h \in Graphs
  BY <1>10, <1>11, <1>13, <1>14, GraphOfParts
<1>16. Shrinks(g, h)
  BY <1>9, <1>11, <1>14 DEF Shrinks
<1>17. h.nodes[d].user = 0
  BY <1>16 DEF Shrinks
<1>18. ~ h.sockets[d].slot /\ (h.sockets[d].node => h.sockets[d].plugs = << >>)
  <2>1. ~ c.sockets[d].slot /\ (c.sockets[d].node => b.sockets[d].node)
        /\ ToSet(c.sockets[d].plugs) \subseteq ToSet(b.sockets[d].plugs)
    BY <1>6, <1>7 DEF Shrinks
  <2>2. ASSUME b.sockets[d].plugs = << >> PROVE c.sockets[d].plugs = << >>
    <3>1. b.sockets[d].plugs \in Seq(Edges) /\ c.sockets[d].plugs \in Seq(Edges)
      BY <1>6, <1>10, GraphTypes DEF Good
    <3>2. ToSet(b.sockets[d].plugs) = {}
      BY <2>2, <3>1, NothingListed
    <3>3. ToSet(c.sockets[d].plugs) = {}
      BY <2>1, <3>2
    <3> QED BY <3>1, <3>3, NothingListed
  <2> QED BY <1>6, <1>11, <2>1, <2>2
<1>19. \A e \in Edges : NodeOf(e) = d => ~ h.plugs[e].slot
  BY <1>7, <1>11, EdgeForm
<1>20. \A m \in Nodes : m # d => (Lives(h, NoNode, m) <=> Lives(c, d, m))
  BY <1>14, FilterAssumption DEF Lives
<1>21. \A e \in Edges : GoodPlug(h.plugs[e], Lives(h, NoNode, NodeOf(e)))
  <2> SUFFICES ASSUME NEW e \in Edges PROVE GoodPlug(h.plugs[e], Lives(h, NoNode, NodeOf(e)))
    OBVIOUS
  <2>1. GoodPlug(h.plugs[e], Lives(c, d, NodeOf(e))) /\ NodeOf(e) \in Nodes
    BY <1>7, <1>11, EdgeForm DEF Good
  <2>2. CASE NodeOf(e) = d
    BY <1>19, <2>1, <2>2 DEF GoodPlug
  <2>3. CASE NodeOf(e) # d
    BY <1>20, <2>1, <2>3 DEF GoodPlug
  <2> QED BY <2>2, <2>3
<1>22. \A m \in Nodes : GoodSocket(h.sockets[m], Lives(h, NoNode, m), h.nodes[m].user)
  <2> SUFFICES ASSUME NEW m \in Nodes
               PROVE  GoodSocket(h.sockets[m], Lives(h, NoNode, m), h.nodes[m].user)
    OBVIOUS
  <2>1. GoodSocket(h.sockets[m], Lives(c, d, m), h.nodes[m].user)
    BY <1>7, <1>11, <1>14 DEF Good
  <2>2. CASE m = d
    BY <1>18, <2>1, <2>2 DEF GoodSocket
  <2>3. CASE m # d
    BY <1>20, <2>1, <2>3 DEF GoodSocket
  <2> QED BY <2>2, <2>3
<1>23. TwoEnds(h)
  BY <1>7, <1>11 DEF Good, TwoEnds
<1>24. Counted(h, NoNode)
  <2> SUFFICES ASSUME NEW m \in Nodes
               PROVE  h.nodes[m].refs = h.nodes[m].user + Inner(h, m)
    BY DEF Counted
  <2>1. Inner(h, m) = Inner(c, m)
    BY <1>11 DEF Inner
  <2>2. CASE m # d
    BY <1>7, <1>14, <2>1, <2>2 DEF Good, Counted
  <2>3. CASE m = d
    <3>1. PlugsOf(h, d) = {}
      BY <1>7, <1>11 DEF PlugsOf
    <3>2. Inner(h, d) = Ref(h.sockets[d].slot /\ h.sockets[d].node) + Cardinality({})
      BY <3>1, InnerIs DEF PlugPart
    <3>3. Inner(h, d) = 0
      BY <1>18, <3>2, FS_EmptySet DEF Ref
    <3> QED BY <1>14, <1>17, <2>3, <3>3
  <2> QED BY <2>2, <2>3
<1>25. Good(h, NoNode)
  BY <1>15, <1>21, <1>22, <1>23, <1>24 DEF Good
<1> QED BY <1>16, <1>25 DEF h

-----------------------------------------------------------------------------
(* The calls of the application keep the graph good.                          *)

LEMMA GraphIs ==
  /\ Graph.plugs = plugs /\ Graph.sockets = sockets /\ Graph.nodes = nodes
  /\ (Graph.plugs = plugs /\ Graph.sockets = sockets /\ Graph.nodes = nodes)'
BY DEF Graph

LEMMA InitGood ==
  ASSUME NoEdges
  PROVE  GraphInv /\ PlugsInv
<1> DEFINE p == [slot |-> FALSE, node |-> FALSE, remote |-> NoNode,
                 refs |-> 0, held |-> 0, waste |-> 0]
           s == [slot |-> FALSE, node |-> FALSE, listed |-> FALSE,
                 plugs |-> <<>>, refs |-> 0, waste |-> 0]
           c == [refs |-> 1, user |-> 1]
<1>1. plugs = [e \in Edges |-> p] /\ sockets = [n \in Nodes |-> s] /\ nodes = [n \in Nodes |-> c]
  BY DEF NoEdges
<1>2. p \in PlugRecords /\ s \in SocketRecords /\ c \in NodeRecords
  BY DEF PlugRecords, SocketRecords, NodeRecords
<1>3. /\ ~ p.slot /\ ~ p.node /\ p.remote = NoNode /\ p.refs = 0 /\ p.held = 0 /\ p.waste = 0
      /\ ~ s.slot /\ ~ s.node /\ ~ s.listed /\ s.plugs = << >> /\ s.refs = 0 /\ s.waste = 0
      /\ c.refs = 1 /\ c.user = 1
  OBVIOUS
<1> HIDE DEF p, s, c
<1>4. /\ \A e \in Edges : Graph.plugs[e] = p
      /\ \A n \in Nodes : Graph.sockets[n] = s /\ Graph.nodes[n] = c
  BY <1>1, GraphIs
<1>5. Graph \in Graphs
  BY <1>1, <1>2 DEF Graph, Graphs
<1>6. \A n \in Nodes : Lives(Graph, NoNode, n)
  BY <1>3, <1>4 DEF Lives
<1>7. \A e \in Edges : GoodPlug(Graph.plugs[e], Lives(Graph, NoNode, NodeOf(e)))
  BY <1>3, <1>4 DEF GoodPlug
<1>8. \A n \in Nodes : GoodSocket(Graph.sockets[n], Lives(Graph, NoNode, n), Graph.nodes[n].user)
  <2>1. Len(s.plugs) = 0 /\ Ref(s.slot) = 0
    BY <1>3 DEF Ref
  <2>2. \A lives, user : GoodSocket(s, lives, user)
    BY <1>3, <2>1 DEF GoodSocket
  <2> QED BY <1>4, <2>2
<1>9. TwoEnds(Graph)
  <2>1. OneEach(s.plugs) /\ ToSet(s.plugs) = {}
    BY <1>3 DEF OneEach, ToSet
  <2>2. \A n \in Nodes : n # NoNode
    BY FilterAssumption
  <2> QED BY <1>3, <1>4, <2>1, <2>2 DEF TwoEnds
<1>10. Counted(Graph, NoNode)
  <2> SUFFICES ASSUME NEW n \in Nodes
               PROVE  Graph.nodes[n].refs = Graph.nodes[n].user + Inner(Graph, n)
    BY DEF Counted
  <2>1. PlugsOf(Graph, n) = {}
    BY <1>3, <1>4, EdgeIs DEF PlugsOf
  <2>2. Inner(Graph, n) = Ref(Graph.sockets[n].slot /\ Graph.sockets[n].node) + Cardinality({})
    BY <2>1, InnerIs DEF PlugPart
  <2>3. Inner(Graph, n) = 0
    BY <1>3, <1>4, <2>2, FS_EmptySet DEF Ref
  <2> QED BY <1>3, <1>4, <2>3
<1>11. Good(Graph, NoNode)
  BY <1>5, <1>7, <1>8, <1>9, <1>10 DEF Good
<1>12. CountedPlugs(Graph) /\ JoinedPlugs(Graph)
  BY <1>3, <1>4 DEF CountedPlugs, CountedPlug, JoinedPlugs, JoinedPlug, Ref
<1> QED BY <1>11, <1>12 DEF GraphInv, PlugsInv

\* What follows from a good graph about the next state.
LEMMA NextGraph ==
  ASSUME NEW g \in Graphs, plugs' = g.plugs, sockets' = g.sockets, nodes' = g.nodes
  PROVE  Graph' = g
<1>1. g = [plugs |-> g.plugs, sockets |-> g.sockets, nodes |-> g.nodes]
  BY GraphTypes
<1> QED BY <1>1 DEF Graph

\* The number of users of a node changes, and with it the count of its references.
LEMMA UsersChange ==
  ASSUME NEW g, Good(g, NoNode), NEW n \in Nodes, g.nodes[n].user > 0,
         NEW h \in Graphs, h.plugs = g.plugs, h.sockets = g.sockets,
         \A m \in Nodes \ {n} : h.nodes[m] = g.nodes[m],
         h.nodes[n].refs - h.nodes[n].user = g.nodes[n].refs - g.nodes[n].user
  PROVE  /\ Good(h, n)
         /\ h.nodes[n].refs = h.nodes[n].user + Inner(h, n)
         /\ h.nodes[n].user > 0 => Good(h, NoNode)
         /\ CountedPlugs(g) => CountedPlugs(h)
<1>1. /\ g \in Graphs /\ g.plugs \in [Edges -> PlugRecords]
      /\ g.sockets \in [Nodes -> SocketRecords] /\ g.nodes \in [Nodes -> NodeRecords]
      /\ TwoEnds(g) /\ Counted(g, NoNode) /\ n # NoNode
  BY GraphTypes, FilterAssumption DEF Good
<1>2. \A m \in Nodes : /\ g.nodes[m].refs \in Int /\ g.nodes[m].user \in Int
                       /\ h.nodes[m].refs \in Int /\ h.nodes[m].user \in Int
  BY GraphTypes DEF NodeRecords, Good
<1>7. \A m \in Nodes : Inner(h, m) = Inner(g, m)
  BY DEF Inner
<1>8. \A m \in Nodes : h.nodes[m].refs = h.nodes[m].user + Inner(h, m)
  <2> SUFFICES ASSUME NEW m \in Nodes PROVE h.nodes[m].refs = h.nodes[m].user + Inner(h, m)
    OBVIOUS
  <2>1. g.nodes[m].refs = g.nodes[m].user + Inner(g, m)
    BY <1>1, FilterAssumption DEF Counted
  <2>2. Inner(g, m) \in Int
    <3>1. PlugPart(g, m) \in Nat
      BY PlugPartIsNat
    <3> QED BY <3>1, InnerIs DEF Ref
  <2>3. h.nodes[m].refs - h.nodes[m].user = g.nodes[m].refs - g.nodes[m].user
    BY <1>2
  <2> QED BY <1>2, <1>7, <2>1, <2>2, <2>3
<1>9. \A m \in Nodes : m # n => h.nodes[m] = g.nodes[m]
  OBVIOUS
<1>10. \A m \in Nodes : Lives(g, NoNode, m) => Lives(h, n, m)
  BY <1>9, FilterAssumption DEF Lives
<1>11. Good(h, n)
  <2>1. \A e \in Edges : GoodPlug(h.plugs[e], Lives(h, n, NodeOf(e)))
    <3> SUFFICES ASSUME NEW e \in Edges PROVE GoodPlug(h.plugs[e], Lives(h, n, NodeOf(e)))
      OBVIOUS
    <3>1. GoodPlug(g.plugs[e], Lives(g, NoNode, NodeOf(e))) /\ NodeOf(e) \in Nodes
      BY EdgeForm DEF Good
    <3> QED BY <1>10, <3>1 DEF GoodPlug
  <2>2. \A m \in Nodes : GoodSocket(h.sockets[m], Lives(h, n, m), h.nodes[m].user)
    <3> SUFFICES ASSUME NEW m \in Nodes
                 PROVE  GoodSocket(h.sockets[m], Lives(h, n, m), h.nodes[m].user)
      OBVIOUS
    <3>1. GoodSocket(g.sockets[m], Lives(g, NoNode, m), g.nodes[m].user)
      BY DEF Good
    <3>2. h.nodes[m].user > 0 => g.nodes[m].user > 0
      BY <1>9
    <3> QED BY <1>10, <3>1, <3>2 DEF GoodSocket
  <2>3. TwoEnds(h)
    BY <1>1 DEF TwoEnds
  <2>4. Counted(h, n)
    BY <1>8 DEF Counted
  <2> QED BY <2>1, <2>2, <2>3, <2>4 DEF Good
<1>12. h.nodes[n].user > 0 => Good(h, NoNode)
  <2> SUFFICES ASSUME h.nodes[n].user > 0 PROVE Good(h, NoNode)
    OBVIOUS
  <2>1. \A m \in Nodes : Lives(h, n, m) <=> Lives(h, NoNode, m)
    BY FilterAssumption DEF Lives
  <2>2. \A e \in Edges : GoodPlug(h.plugs[e], Lives(h, NoNode, NodeOf(e)))
    <3> SUFFICES ASSUME NEW e \in Edges PROVE GoodPlug(h.plugs[e], Lives(h, NoNode, NodeOf(e)))
      OBVIOUS
    <3>1. GoodPlug(h.plugs[e], Lives(h, n, NodeOf(e))) /\ NodeOf(e) \in Nodes
      BY <1>11, EdgeForm DEF Good
    <3> QED BY <2>1, <3>1 DEF GoodPlug
  <2>3. \A m \in Nodes : GoodSocket(h.sockets[m], Lives(h, NoNode, m), h.nodes[m].user)
    BY <1>11, <2>1 DEF Good, GoodSocket
  <2>4. Counted(h, NoNode)
    BY <1>8 DEF Counted
  <2> QED BY <1>11, <2>2, <2>3, <2>4 DEF Good
<1>13. CountedPlugs(g) => CountedPlugs(h)
  <2> SUFFICES ASSUME CountedPlugs(g), NEW e \in Edges
               PROVE  /\ CountedPlug(h.plugs[e])
                      /\ h.nodes[NodeOf(e)].user > 0 /\ ~ h.plugs[e].slot =>
                           h.plugs[e].held = 0 /\ h.plugs[e].waste = 0
    BY DEF CountedPlugs
  <2>1. NodeOf(e) \in Nodes
    BY EdgeForm
  <2>2. h.nodes[NodeOf(e)].user > 0 => g.nodes[NodeOf(e)].user > 0
    BY <1>9, <2>1
  <2> QED BY <2>2 DEF CountedPlugs
<1> QED BY <1>8, <1>11, <1>12, <1>13

\* Counts of plugs that only shrink.
LEMMA ShrinksCounted ==
  ASSUME NEW g, NEW h, Shrinks(g, h), CountedPlugs(g)
  PROVE  CountedPlugs(h)
<1> SUFFICES ASSUME NEW e \in Edges
             PROVE  /\ CountedPlug(h.plugs[e])
                    /\ h.nodes[NodeOf(e)].user > 0 /\ ~ h.plugs[e].slot =>
                         h.plugs[e].held = 0 /\ h.plugs[e].waste = 0
  BY DEF CountedPlugs
<1>1. NodeOf(e) \in Nodes
  BY EdgeForm
<1>2. /\ h.plugs[e].held = g.plugs[e].held /\ h.plugs[e].waste = g.plugs[e].waste
      /\ h.nodes[NodeOf(e)].user = g.nodes[NodeOf(e)].user
  BY <1>1 DEF Shrinks
<1>3. Kept(g.plugs[e], h.plugs[e]) /\ CountedPlug(g.plugs[e])
  BY DEF CountedPlugs, Shrinks
<1>4. CountedPlug(h.plugs[e])
  BY <1>3 DEF Kept
<1> QED BY <1>2, <1>4 DEF CountedPlugs, Shrinks

\* The next state is the graph g.
LEMMA NextInv ==
  ASSUME NEW g, Good(g, NoNode), JoinedPlugs(g),
         plugs' = g.plugs, sockets' = g.sockets, nodes' = g.nodes
  PROVE  /\ GraphInv'
         /\ CountedPlugs(g) => PlugsInv'
<1>1. Graph' = g
  BY NextGraph DEF Good
<1>2. /\ GraphInv' <=> Good(Graph', NoNode) /\ JoinedPlugs(Graph')
      /\ PlugsInv' <=> CountedPlugs(Graph')
  BY DEF GraphInv, PlugsInv
<1> QED BY <1>1, <1>2

\* Nothing changes in the graph.
LEMMA SameGraph ==
  ASSUME GraphInv, UNCHANGED edges
  PROVE  GraphInv' /\ (PlugsInv => PlugsInv')
<1>1. Graph' = Graph
  BY DEF edges, Graph
<1>2. /\ GraphInv' <=> Good(Graph', NoNode) /\ JoinedPlugs(Graph')
      /\ PlugsInv' <=> CountedPlugs(Graph')
  BY DEF GraphInv, PlugsInv
<1> QED BY <1>1, <1>2 DEF GraphInv, PlugsInv

\* Only the counts of a plug change, which stay right.
LEMMA CountedChange ==
  ASSUME NEW g \in Graphs, CountedPlugs(g), NEW e \in Edges, NEW q, CountedPlug(q),
         g.nodes[NodeOf(e)].user > 0 /\ ~ q.slot => q.held = 0 /\ q.waste = 0,
         NEW h, h.plugs = [g.plugs EXCEPT ![e] = q],
         \A n \in Nodes : h.nodes[n].user = g.nodes[n].user
  PROVE  CountedPlugs(h)
<1>1. \A f \in Edges : h.plugs[f] = IF f = e THEN q ELSE g.plugs[f]
  BY GraphTypes
<1> QED BY <1>1, EdgeForm DEF CountedPlugs

\* And its ends stay joined to their nodes.
LEMMA JoinedChange ==
  ASSUME NEW g \in Graphs, JoinedPlugs(g), NEW e \in Edges, NEW q, JoinedPlug(q),
         NEW h, h.plugs = [g.plugs EXCEPT ![e] = q]
  PROVE  JoinedPlugs(h)
<1>1. \A f \in Edges : h.plugs[f] = IF f = e THEN q ELSE g.plugs[f]
  BY GraphTypes
<1> QED BY <1>1 DEF JoinedPlugs

LEMMA CopyGood ==
  ASSUME GraphInv, NEW n \in Nodes, Copy(n)
  PROVE  GraphInv' /\ (PlugsInv => PlugsInv')
<1> DEFINE c == [refs |-> nodes[n].refs + 1, user |-> nodes[n].user + 1]
           N == [nodes EXCEPT ![n] = c]
           h == [plugs |-> plugs, sockets |-> sockets, nodes |-> N]
<1>1. /\ Good(Graph, NoNode) /\ JoinedPlugs(Graph)
      /\ PlugsInv <=> CountedPlugs(Graph)
  BY DEF GraphInv, PlugsInv
<1>2. /\ nodes \in [Nodes -> NodeRecords] /\ nodes[n].user \in Nat /\ nodes[n].refs \in Int
      /\ plugs \in [Edges -> PlugRecords] /\ sockets \in [Nodes -> SocketRecords]
  <2>1. /\ nodes \in [Nodes -> NodeRecords]
        /\ plugs \in [Edges -> PlugRecords] /\ sockets \in [Nodes -> SocketRecords]
    BY <1>1, GraphTypes, GraphIs DEF Good
  <2> QED BY <2>1 DEF NodeRecords
<1>3. nodes' = N
  BY <1>2 DEF Copy, NodeRecords
<1>4. c \in NodeRecords /\ c.refs = nodes[n].refs + 1 /\ c.user = nodes[n].user + 1
  BY <1>2 DEF NodeRecords
<1> HIDE DEF c
<1>5. /\ N \in [Nodes -> NodeRecords] /\ N[n] = c
      /\ \A m \in Nodes \ {n} : N[m] = nodes[m]
  BY <1>2, <1>4
<1> HIDE DEF N
<1>6. h.plugs = plugs /\ h.sockets = sockets /\ h.nodes = N /\ IsGraph(h)
  BY DEF IsGraph
<1> HIDE DEF h
<1>7. h \in Graphs
  BY <1>2, <1>5, <1>6, GraphOfParts
<1>8. /\ h.nodes[n].refs - h.nodes[n].user = nodes[n].refs - nodes[n].user
      /\ h.nodes[n].user > 0 /\ nodes[n].user > 0
  BY <1>2, <1>4, <1>5, <1>6 DEF Copy, Alive
<1>9. Good(h, NoNode) /\ (CountedPlugs(Graph) => CountedPlugs(h))
  BY <1>1, <1>5, <1>6, <1>7, <1>8, GraphIs, UsersChange
<1>10. nodes' = h.nodes /\ plugs' = h.plugs /\ sockets' = h.sockets
  BY <1>3, <1>6 DEF Copy
<1>11. JoinedPlugs(h)
  BY <1>1, <1>6, GraphIs DEF JoinedPlugs
<1> QED BY <1>1, <1>9, <1>10, <1>11, NextInv

LEMMA ReleaseGood ==
  ASSUME GraphInv, NEW n \in Nodes, Release(n)
  PROVE  GraphInv' /\ (PlugsInv => PlugsInv')
<1> DEFINE m == nodes[n]
           c == [m EXCEPT !.refs = m.refs - 1, !.user = m.user - 1]
           N == [nodes EXCEPT ![n] = c]
           g == [Graph EXCEPT !.nodes[n].refs = @ - 1, !.nodes[n].user = @ - 1]
<1>1. /\ Good(Graph, NoNode) /\ JoinedPlugs(Graph)
      /\ PlugsInv <=> CountedPlugs(Graph)
  BY DEF GraphInv, PlugsInv
<1>2. /\ nodes \in [Nodes -> NodeRecords] /\ m \in NodeRecords
      /\ plugs \in [Edges -> PlugRecords] /\ sockets \in [Nodes -> SocketRecords]
      /\ m.user > 0
  BY <1>1, GraphTypes, GraphIs DEF Good, Release, Alive
<1>3. g.plugs = plugs /\ g.sockets = sockets /\ IsGraph(g)
  BY DEF Graph, IsGraph
<1>4. g.nodes = N
  BY <1>2 DEF Graph
<1>5. \/ ~ (g.nodes[n].refs <= Inner(g, n)) /\ Becomes(g)
      \/ /\ g.nodes[n].refs <= Inner(g, n)
         /\ LoosePlugs(n) = {} /\ Becomes(Destroyed(g, n))
      \/ g.nodes[n].refs <= Inner(g, n) /\ GoesWrong
  BY DEF Release
<1> HIDE DEF g, m
<1>6. c \in NodeRecords /\ c.refs = m.refs - 1 /\ c.user = m.user - 1
  <2> DEFINE r == m.refs - 1
             u == m.user - 1
  <2>1. r \in Int /\ u \in Nat
    BY <1>2 DEF NodeRecords
  <2> HIDE DEF r, u
  <2>2. c \in NodeRecords /\ c.refs = r /\ c.user = u
    <3>1. c = [m EXCEPT !.refs = r, !.user = u]
      BY DEF r, u
    <3>2. LET x == [m EXCEPT !.refs = r, !.user = u]
          IN  x \in NodeRecords /\ x.refs = r /\ x.user = u
      BY <1>2, <2>1 DEF NodeRecords
    <3> HIDE DEF c
    <3> QED BY <3>1, <3>2
  <2> HIDE DEF c
  <2> QED BY <2>2 DEF r, u
<1> HIDE DEF c
<1>7. /\ N \in [Nodes -> NodeRecords] /\ N[n] = c
      /\ \A k \in Nodes \ {n} : N[k] = nodes[k]
  BY <1>2, <1>6
<1> HIDE DEF N
<1>8. g \in Graphs
  BY <1>2, <1>3, <1>4, <1>7, GraphOfParts
<1>9. /\ g.nodes[n].refs - g.nodes[n].user = m.refs - m.user
      /\ g.nodes[n].user \in Nat
  BY <1>2, <1>4, <1>6, <1>7 DEF NodeRecords
<1>10. /\ Good(g, n)
       /\ g.nodes[n].refs = g.nodes[n].user + Inner(g, n)
       /\ g.nodes[n].user > 0 => Good(g, NoNode)
       /\ CountedPlugs(Graph) => CountedPlugs(g)
  BY <1>1, <1>2, <1>3, <1>4, <1>7, <1>8, <1>9, GraphIs, UsersChange DEF m
<1>11. Inner(g, n) \in Int
  <2>1. PlugPart(g, n) \in Nat
    BY PlugPartIsNat
  <2> QED BY <2>1, InnerIs DEF Ref
<1>14. JoinedPlugs(g)
  BY <1>1, <1>3, GraphIs DEF JoinedPlugs
<1>12. CASE g.nodes[n].user > 0
  <2>1. ~ (g.nodes[n].refs <= Inner(g, n))
    BY <1>9, <1>10, <1>11, <1>12
  <2>2. plugs' = g.plugs /\ sockets' = g.sockets /\ nodes' = g.nodes
    BY <1>5, <2>1 DEF Becomes
  <2> QED BY <1>1, <1>10, <1>12, <1>14, <2>2, NextInv
<1>13. CASE g.nodes[n].user = 0 /\ ~ GoesWrong
  <2> DEFINE h == Destroyed(g, n)
  <2>1. LoosePlugs(n) = {} /\ plugs' = h.plugs /\ sockets' = h.sockets /\ nodes' = h.nodes
    <3>1. g.nodes[n].refs <= Inner(g, n)
      BY <1>10, <1>11, <1>13
    <3> QED BY <1>5, <1>13, <3>1 DEF Becomes
  <2>2. \A i \in 1 .. NPlugs[n] : ~ Loose(g.plugs[<<n, i>>])
    BY <1>3, <2>1 DEF LoosePlugs
  <2>3. Good(h, NoNode) /\ Shrinks(g, h)
    BY <1>10, <1>13, <2>2, DestroyedGood
  <2> HIDE DEF h
  <2>4. CountedPlugs(Graph) => CountedPlugs(h)
    BY <1>10, <2>3, ShrinksCounted
  <2>5. JoinedPlugs(h)
    BY <1>14, <2>3 DEF JoinedPlugs, Shrinks
  <2> QED BY <1>1, <2>1, <2>3, <2>4, <2>5, NextInv
<1>15. CASE GoesWrong
  BY <1>15, SameGraph DEF GoesWrong
<1> QED BY <1>9, <1>12, <1>13, <1>15

LEMMA DisconnectGood ==
  ASSUME GraphInv, NEW e \in Edges, Disconnect(e)
  PROVE  GraphInv' /\ (PlugsInv => PlugsInv')
<1> DEFINE h == Disconnected(Graph, e)
<1>1. /\ Good(Graph, NoNode) /\ JoinedPlugs(Graph)
      /\ PlugsInv <=> CountedPlugs(Graph)
  BY DEF GraphInv, PlugsInv
<1>2. CASE ~ Loose(plugs[e]) /\ Becomes(h)
  <2>1. plugs' = h.plugs /\ sockets' = h.sockets /\ nodes' = h.nodes
    BY <1>2 DEF Becomes
  <2>2. Good(h, NoNode)
    BY <1>1, DisconnectedGood
  <2>3. Shrinks(Graph, h)
    BY <1>1, <1>2, GraphIs, DisconnectedShrinks
  <2> HIDE DEF h
  <2>4. CountedPlugs(Graph) => CountedPlugs(h)
    BY <2>3, ShrinksCounted
  <2>5. JoinedPlugs(h)
    BY <1>1, <2>3 DEF JoinedPlugs, Shrinks
  <2> QED BY <1>1, <2>1, <2>2, <2>4, <2>5, NextInv
<1>3. CASE GoesWrong
  BY <1>3, SameGraph DEF GoesWrong
<1> QED BY <1>2, <1>3 DEF Disconnect

\* A plug is given to the application.
LEMMA GetPlugGood ==
  ASSUME GraphInv, NEW e \in Edges, GetPlug(e)
  PROVE  GraphInv' /\ (PlugsInv => PlugsInv')
<1> DEFINE g == WithPlug(Graph, e)
           p == g.plugs[e]
           r == p.refs + 1
           q == [p EXCEPT !.refs = r, !.held = 1]
           h == [g EXCEPT !.plugs[e].refs = @ + 1, !.plugs[e].held = 1]
<1>1. /\ Good(Graph, NoNode) /\ JoinedPlugs(Graph)
      /\ PlugsInv <=> CountedPlugs(Graph)
  BY DEF GraphInv, PlugsInv
<1>2. Graph.nodes[NodeOf(e)].user > 0 /\ Graph.plugs[e].held = 0
  BY GraphIs DEF GetPlug, Alive
<1>3. /\ Good(g, NoNode) /\ Grows(Graph, g)
      /\ p \in PlugRecords /\ g.plugs = [Graph.plugs EXCEPT ![e] = p]
      /\ p.held = Graph.plugs[e].held /\ p.waste = Graph.plugs[e].waste /\ p.slot
      /\ IF Graph.plugs[e].slot THEN p = Graph.plugs[e] ELSE FreshPlug(p)
  BY <1>1, <1>2, WithPlugGood, SMTT(30)
<1>4. plugs' = h.plugs /\ sockets' = h.sockets /\ nodes' = h.nodes
  BY DEF GetPlug, Becomes
<1> HIDE DEF g
<1>5. /\ g \in Graphs /\ g.plugs \in [Edges -> PlugRecords]
      /\ g = [plugs |-> g.plugs, sockets |-> g.sockets, nodes |-> g.nodes]
  BY <1>3, GraphTypes DEF Good
<1>6. h.plugs = [g.plugs EXCEPT ![e] = q]
  BY <1>5
<1>7. h.sockets = g.sockets /\ h.nodes = g.nodes /\ IsGraph(h)
  BY <1>5 DEF IsGraph
<1> HIDE DEF h, p
<1>8. /\ q \in PlugRecords /\ q.slot = p.slot /\ q.node = p.node /\ q.remote = p.remote
      /\ q.refs = p.refs + 1 /\ q.held = 1 /\ q.waste = p.waste
  <2>1. r \in Nat
    BY <1>3 DEF PlugRecords
  <2> HIDE DEF r
  <2>2. /\ q \in PlugRecords /\ q.slot = p.slot /\ q.node = p.node /\ q.remote = p.remote
        /\ q.refs = r /\ q.held = 1 /\ q.waste = p.waste
    BY <1>3, <2>1 DEF PlugRecords
  <2> HIDE DEF q
  <2> QED BY <2>2 DEF r
<1> HIDE DEF q
<1>9. h \in Graphs
  <2>1. h.plugs \in [Edges -> PlugRecords]
    BY <1>5, <1>6, <1>8
  <2>2. h.sockets \in [Nodes -> SocketRecords] /\ h.nodes \in [Nodes -> NodeRecords]
    BY <1>5, <1>7, GraphTypes
  <2> QED BY <1>7, <2>1, <2>2, GraphOfParts
<1>10. Good(h, NoNode)
  <2>1. q.slot = g.plugs[e].slot /\ q.node = g.plugs[e].node /\ q.remote = g.plugs[e].remote
    BY <1>8 DEF p
  <2> QED BY <1>3, <1>6, <1>7, <1>8, <1>9, <2>1, PlugCountChange, Zenon
<1>11. ASSUME CountedPlugs(Graph) PROVE CountedPlugs(h)
  <2>1. p.refs \in Nat /\ p.waste \in Nat /\ p.slot \in BOOLEAN
    BY <1>3 DEF PlugRecords
  <2>3. CountedPlug(q)
    <3>1. CASE Graph.plugs[e].slot
      <4>1. p = Graph.plugs[e] /\ CountedPlug(p) /\ p.held = 0
        BY <1>2, <1>3, <1>11, <3>1 DEF CountedPlugs
      <4> QED BY <1>8, <2>1, <4>1 DEF CountedPlug, Ref
    <3>2. CASE ~ Graph.plugs[e].slot
      <4>1. Graph.plugs[e].waste = 0
        BY <1>2, <1>11, <3>2 DEF CountedPlugs
      <4>2. FreshPlug(p) /\ p.held = 0 /\ p.waste = 0
        BY <1>2, <1>3, <3>2, <4>1
      <4> QED BY <1>8, <2>1, <4>2 DEF CountedPlug, FreshPlug, Ref
    <3> QED BY <3>1, <3>2
  <2>4. \A n \in Nodes : h.nodes[n].user = Graph.nodes[n].user
    BY <1>3, <1>7 DEF Grows
  <2>5. h.plugs = [Graph.plugs EXCEPT ![e] = q]
    <3>1. Graph.plugs \in [Edges -> PlugRecords]
      BY <1>1, GraphTypes DEF Good
    <3> QED BY <1>3, <1>6, <3>1
  <2>6. Graph \in Graphs /\ q.slot
    BY <1>1, <1>3, <1>8 DEF Good
  <2> QED BY <1>11, <2>3, <2>4, <2>5, <2>6, CountedChange
<1>12. JoinedPlugs(h)
  <2>1. h.plugs = [Graph.plugs EXCEPT ![e] = q]
    <3>1. Graph.plugs \in [Edges -> PlugRecords]
      BY <1>1, GraphTypes DEF Good
    <3> QED BY <1>3, <1>6, <3>1
  <2>2. Graph \in Graphs /\ JoinedPlug(Graph.plugs[e])
    BY <1>1 DEF Good, JoinedPlugs
  <2>3. JoinedPlug(q)
    BY <1>3, <1>8, <2>2 DEF JoinedPlug, FreshPlug, p
  <2> QED BY <1>1, <2>1, <2>2, <2>3, JoinedChange
<1> QED BY <1>1, <1>4, <1>10, <1>11, <1>12, NextInv

\* And given back.
LEMMA ReleasePlugGood ==
  ASSUME GraphInv, NEW e \in Edges, ReleasePlug(e)
  PROVE  GraphInv' /\ (PlugsInv => PlugsInv')
<1> DEFINE p == plugs[e]
           x == PlugLess(p)
           q == [x EXCEPT !.held = 0]
           h == [plugs |-> [plugs EXCEPT ![e] = q], sockets |-> sockets, nodes |-> nodes]
<1>1. /\ Good(Graph, NoNode) /\ JoinedPlugs(Graph)
      /\ PlugsInv <=> CountedPlugs(Graph)
  BY DEF GraphInv, PlugsInv
<1>2. /\ plugs \in [Edges -> PlugRecords] /\ sockets \in [Nodes -> SocketRecords]
      /\ nodes \in [Nodes -> NodeRecords] /\ p \in PlugRecords /\ Graph \in Graphs
  BY <1>1, GraphTypes, GraphIs DEF Good
<1>3. p.held = 1
  BY DEF ReleasePlug
<1>4. plugs' = h.plugs /\ sockets' = h.sockets /\ nodes' = h.nodes
  BY DEF ReleasePlug
<1>5. IsGraph(h) /\ h.plugs = [plugs EXCEPT ![e] = q] /\ h.sockets = sockets /\ h.nodes = nodes
  BY DEF IsGraph
<1> HIDE DEF h
<1>6. /\ x \in PlugRecords
      /\ x.slot = p.slot /\ x.node = p.node /\ x.remote = p.remote /\ x.waste = p.waste
      /\ x.refs = IF p.refs > 1 /\ p.refs - 1 >= Ref(p.node) + Ref(p.remote # NoNode)
                  THEN p.refs - 1 ELSE 0
  <2> HIDE DEF p
  <2> QED BY <1>2, PlugLessIs
<1> HIDE DEF x
<1>7. /\ q \in PlugRecords /\ q.slot = p.slot /\ q.node = p.node /\ q.remote = p.remote
      /\ q.held = 0 /\ q.waste = p.waste /\ q.refs = x.refs
  BY <1>6 DEF PlugRecords
<1> HIDE DEF q
<1>8. h \in Graphs
  <2>1. h.plugs \in [Edges -> PlugRecords]
    BY <1>2, <1>5, <1>7
  <2> QED BY <1>2, <1>5, <2>1, GraphOfParts
<1>9. Good(h, NoNode)
  <2>1. /\ q.slot = Graph.plugs[e].slot /\ q.node = Graph.plugs[e].node
        /\ q.remote = Graph.plugs[e].remote
        /\ h.plugs = [Graph.plugs EXCEPT ![e] = q]
        /\ h.sockets = Graph.sockets /\ h.nodes = Graph.nodes
    BY <1>5, <1>7, GraphIs
  <2> QED BY <1>1, <1>7, <1>8, <2>1, PlugCountChange, Zenon
<1>10. ASSUME CountedPlugs(Graph) PROVE CountedPlugs(h)
  <2>1. CountedPlug(p) /\ GoodPlug(p, Lives(Graph, NoNode, NodeOf(e)))
    BY <1>1, <1>10, GraphIs DEF CountedPlugs, Good
  <2>2. CountedPlug(q)
    <3>1. p.refs \in Nat /\ p.waste \in Nat /\ p.slot \in BOOLEAN /\ p.node \in BOOLEAN
      BY <1>2 DEF PlugRecords
    <3> HIDE DEF p
    <3> QED BY <1>3, <1>6, <1>7, <2>1, <3>1 DEF CountedPlug, GoodPlug, Ref
  <2>3. /\ h.plugs = [Graph.plugs EXCEPT ![e] = q]
        /\ \A n \in Nodes : h.nodes[n].user = Graph.nodes[n].user
    BY <1>5, GraphIs
  <2>4. Graph.nodes[NodeOf(e)].user > 0 /\ ~ q.slot => q.held = 0 /\ q.waste = 0
    BY <1>7, <1>10, GraphIs DEF CountedPlugs
  <2> QED BY <1>2, <1>7, <1>10, <2>2, <2>3, <2>4, CountedChange
<1>11. JoinedPlugs(h)
  <2>1. Graph \in Graphs /\ JoinedPlug(p) /\ h.plugs = [Graph.plugs EXCEPT ![e] = q]
    BY <1>1, <1>5, GraphIs DEF Good, JoinedPlugs
  <2>2. JoinedPlug(q)
    BY <1>7, <2>1 DEF JoinedPlug
  <2> QED BY <1>1, <2>1, <2>2, JoinedChange
<1> QED BY <1>1, <1>4, <1>9, <1>10, <1>11, NextInv

\* The socket of an input that has no plug for it is made and loses a reference.
LEMMA SocketLost ==
  ASSUME NEW g, Good(g, NoNode), NEW n \in Nodes,
         NEW h, h = [g EXCEPT !.sockets[n] = Lost(@)]
  PROVE  Good(h, NoNode) /\ Grows(g, h) /\ h.plugs = g.plugs /\ h.nodes = g.nodes
<1> DEFINE s == g.sockets[n]
           r == s.refs + 1
           w == s.waste + 1
           t == Lost(s)
<1>1. /\ g \in Graphs /\ g.sockets \in [Nodes -> SocketRecords] /\ s \in SocketRecords
      /\ g.plugs \in [Edges -> PlugRecords] /\ g.nodes \in [Nodes -> NodeRecords]
      /\ g = [plugs |-> g.plugs, sockets |-> g.sockets, nodes |-> g.nodes]
  BY GraphTypes DEF Good
<1>2. h.sockets = [g.sockets EXCEPT ![n] = t]
  BY <1>1
<1>3. h.plugs = g.plugs /\ h.nodes = g.nodes /\ IsGraph(h)
  BY <1>1 DEF IsGraph
<1> HIDE DEF s
<1>4. r \in Nat /\ w \in Nat
  BY <1>1 DEF SocketRecords
<1> HIDE DEF r, w
<1>5. /\ t \in SocketRecords /\ t.slot = s.slot /\ t.node = s.node /\ t.listed = s.listed
      /\ t.plugs = s.plugs /\ t.refs = r /\ t.waste = w
  <2>1. t = [s EXCEPT !.refs = r, !.waste = w]
    BY DEF Lost, r, w
  <2> HIDE DEF t
  <2> QED BY <1>1, <1>4, <2>1 DEF SocketRecords
<1> HIDE DEF t
<1>6. h \in Graphs
  <2>1. h.sockets \in [Nodes -> SocketRecords]
    BY <1>1, <1>2, <1>5
  <2> QED BY <1>1, <1>3, <2>1, GraphOfParts
<1>7. /\ t.slot = g.sockets[n].slot /\ t.node = g.sockets[n].node
      /\ t.listed = g.sockets[n].listed /\ t.plugs = g.sockets[n].plugs
      /\ t.refs = g.sockets[n].refs + 1 /\ t.waste = g.sockets[n].waste + 1
  BY <1>5 DEF s, r, w
<1>8. Good(h, NoNode) /\ Grows(g, h)
  BY <1>2, <1>3, <1>5, <1>6, <1>7, SocketCountChange, Zenon
<1> QED BY <1>3, <1>8

LEMMA ConnectFullGood ==
  ASSUME GraphInv, NEW in \in Nodes, NEW out \in Nodes, ConnectFull(in, out)
  PROVE  GraphInv' /\ (PlugsInv => PlugsInv')
<1> DEFINE g == WithSocket(Graph, in)
           h == [g EXCEPT !.sockets[in] = Lost(@)]
<1>1. /\ Good(Graph, NoNode) /\ JoinedPlugs(Graph)
      /\ PlugsInv <=> CountedPlugs(Graph)
  BY DEF GraphInv, PlugsInv
<1>2. Graph.nodes[in].user > 0
  BY GraphIs DEF ConnectFull, Alive
<1>3. plugs' = h.plugs /\ sockets' = h.sockets /\ nodes' = h.nodes
  BY DEF ConnectFull, Becomes
<1>4. Good(g, NoNode) /\ Grows(Graph, g) /\ g.plugs = Graph.plugs
  BY <1>1, <1>2, WithSocketGood
<1> HIDE DEF g
<1>5. Good(h, NoNode) /\ Grows(g, h) /\ h.plugs = g.plugs
  BY <1>4, SocketLost
<1> HIDE DEF h
<1>6. CountedPlugs(Graph) => CountedPlugs(h)
  <2>1. \A n \in Nodes : h.nodes[n].user = Graph.nodes[n].user
    BY <1>4, <1>5 DEF Grows
  <2> QED BY <1>4, <1>5, <2>1, EdgeForm DEF CountedPlugs
<1>7. JoinedPlugs(h)
  BY <1>1, <1>4, <1>5 DEF JoinedPlugs
<1> QED BY <1>1, <1>3, <1>5, <1>6, <1>7, NextInv

\* The references of a plug of a node with users, from its making to its connection.
LEMMA ConnectedCounts ==
  ASSUME NEW p \in PlugRecords, CountedPlug(p), ~ p.slot => p.held = 0,
         NEW p2 \in PlugRecords, p2.held = p.held, p2.waste = p.waste, p2.remote = p.remote,
         IF p.slot THEN p2 = p ELSE FreshPlug(p2),
         NEW n \in Nodes, NEW p3, ConnectedPlug(p2, p3, n),
         NEW p4 \in PlugRecords, p4.slot, p4.node, p4.remote = p3.remote,
         p4.held = p3.held, p4.waste = p3.waste, p4.refs = p3.refs,
         NEW p5 \in PlugRecords, p5.slot = p4.slot, p5.node = p4.node, p5.remote = p4.remote,
         p5.held = p4.held, p5.waste = p4.waste,
         p4.refs > 0 /\ p4.refs >= Ref(p4.node) + Ref(p4.remote # NoNode) => p5.refs = p4.refs
  PROVE  CountedPlug(p5) /\ p5.slot
<1> DEFINE b == Ref(p2.remote # NoNode)
<1>1. n # NoNode
  BY FilterAssumption
<1>2. /\ p2.refs \in Nat /\ p2.held \in Nat /\ p2.waste \in Nat /\ b \in {0, 1}
      /\ p5.refs \in Nat
  BY DEF PlugRecords, Ref
<1>3. p2.refs >= 1 + b + p2.held /\ p2.refs <= 1 + b + p2.held + p2.waste
  <2>1. CASE p.slot
    BY <2>1 DEF CountedPlug, Ref
  <2>2. CASE ~ p.slot
    <3>1. p2.held = 0 /\ b = 0 /\ p2.refs = 1
      BY <2>2 DEF FreshPlug, Ref
    <3> HIDE DEF b
    <3> QED BY <1>2, <3>1
  <2> QED BY <2>1, <2>2
<1>4. p3.refs = p2.refs + 1 /\ p3.held = p2.held /\ p3.remote = n /\ p3.waste = p2.waste + b
  BY <1>2 DEF ConnectedPlug, Ref
<1>5. /\ p4.refs = p2.refs + 1 /\ p4.held = p2.held /\ p4.waste = p2.waste + b
      /\ p4.remote # NoNode
  BY <1>1, <1>4
<1>6. /\ p5.held = p2.held /\ p5.waste = p2.waste + b
      /\ p5.slot /\ p5.node /\ p5.remote # NoNode
  BY <1>5
<1> DEFINE c == p2.refs
           d == p2.held
           w == p2.waste
<1>7. c \in Nat /\ d \in Nat /\ w \in Nat /\ c >= 1 + b + d /\ c <= 1 + b + d + w
  BY <1>2, <1>3
<1>8. p4.refs = c + 1 /\ Ref(p4.node) + Ref(p4.remote # NoNode) = 2
  BY <1>5 DEF Ref
<1> HIDE DEF b, c, d, w
<1>9. p5.refs = c + 1
  <2>1. c + 1 > 0 /\ c + 1 >= 2
    BY <1>2, <1>7
  <2> QED BY <1>8, <2>1
<1>10. p5.held = d /\ p5.waste = w + b
  BY <1>6 DEF d, w
<1>11. Ref(p5.slot) = 1 /\ Ref(p5.remote # NoNode) = 1
  BY <1>6 DEF Ref
<1>12. c + 1 >= 1 + 1 + d /\ c + 1 <= 1 + 1 + d + (w + b)
  BY <1>2, <1>7
<1> QED BY <1>6, <1>9, <1>10, <1>11, <1>12 DEF CountedPlug

\* The plug that a connection is made with.
LEMMA PlugForIs ==
  ASSUME NEW out \in Nodes, NEW named, NEW e \in PlugFor(out, named)
  PROVE  e \in Edges /\ NodeOf(e) = out
<1>1. CASE ~ named
  <2>1. e = <<out, 1>> /\ e \in Edges
    BY <1>1 DEF PlugFor
  <2> QED BY <2>1 DEF NodeOf
<1>2. CASE named
  <2>1. PICK i \in 1 .. NPlugs[out] : e = <<out, i>>
    BY <1>2 DEF PlugFor
  <2>2. <<out, i>> \in Edges
    BY <2>1, EdgeIs
  <2> QED BY <2>1, <2>2 DEF NodeOf
<1> QED BY <1>1, <1>2

LEMMA ConnectGood ==
  ASSUME GraphInv, NEW in \in Nodes, NEW out \in Nodes, NEW named, Connect(in, out, named)
  PROVE  GraphInv' /\ (PlugsInv => PlugsInv')
<1>1. /\ Good(Graph, NoNode) /\ JoinedPlugs(Graph)
      /\ PlugsInv <=> CountedPlugs(Graph)
  BY DEF GraphInv, PlugsInv
<1>2. Graph.nodes[in].user > 0 /\ Graph.nodes[out].user > 0
  BY GraphIs DEF Connect, Alive
<1>3. PICK e \in PlugFor(out, named) :
        LET g == UsedSocket(WithPlug(UsedSocket(Graph, in), e), out)
            h == BothNodes(ConnectedInto(g, e, in), e, in)
        IN  Becomes(UsedSocket(UsedPlug(h, e), in))
  BY DEF Connect
<1>4. e \in Edges /\ NodeOf(e) = out
  BY <1>3, PlugForIs
<1> DEFINE g1 == UsedSocket(Graph, in)
           g2 == WithPlug(g1, e)
           g3 == UsedSocket(g2, out)
           g4 == ConnectedInto(g3, e, in)
           g5 == BothNodes(g4, e, in)
           g6 == UsedPlug(g5, e)
           g7 == UsedSocket(g6, in)
<1>5. plugs' = g7.plugs /\ sockets' = g7.sockets /\ nodes' = g7.nodes
  BY <1>3 DEF Becomes
<1> HIDE DEF g7
<1>6. /\ Good(g1, NoNode) /\ Grows(Graph, g1) /\ g1.sockets[in].slot /\ g1.plugs = Graph.plugs
  BY <1>1, <1>2, UsedSocketIs, WithSocketGood
<1> HIDE DEF g1
<1>7. g1.nodes[NodeOf(e)].user > 0
  BY <1>2, <1>4, <1>6 DEF Grows
<1>8. /\ Good(g2, NoNode) /\ Grows(g1, g2)
      /\ g2.plugs[e] \in PlugRecords
      /\ g2.plugs = [g1.plugs EXCEPT ![e] = g2.plugs[e]]
      /\ g2.plugs[e].remote = g1.plugs[e].remote
      /\ g2.plugs[e].held = g1.plugs[e].held /\ g2.plugs[e].waste = g1.plugs[e].waste
      /\ IF g1.plugs[e].slot THEN g2.plugs[e] = g1.plugs[e] ELSE FreshPlug(g2.plugs[e])
      /\ g2.plugs[e].slot
  <2>1. Good(g1, NoNode)
    BY <1>6
  <2>2. LET h == WithPlug(g1, e)
            q == h.plugs[e]
        IN  /\ Good(h, NoNode) /\ Grows(g1, h) /\ h.sockets = g1.sockets
            /\ q \in PlugRecords /\ h.plugs = [g1.plugs EXCEPT ![e] = q]
            /\ q.remote = g1.plugs[e].remote
            /\ q.held = g1.plugs[e].held /\ q.waste = g1.plugs[e].waste
            /\ IF g1.plugs[e].slot THEN q = g1.plugs[e] ELSE FreshPlug(q)
            /\ q.slot
    BY <1>4, <1>7, <2>1, WithPlugGood
  <2> QED BY <2>2
<1> HIDE DEF g2
<1>9. g2.nodes[out].user > 0 /\ g2.sockets[in].slot
  BY <1>2, <1>6, <1>8 DEF Grows
<1>10. Good(g3, NoNode) /\ Grows(g2, g3) /\ g3.plugs = g2.plugs
  BY <1>8, <1>9, UsedSocketIs, WithSocketGood
<1> HIDE DEF g3
<1>11. g3.plugs[e].slot /\ g3.sockets[in].slot
  BY <1>8, <1>9, <1>10 DEF Grows
<1>12. /\ Good(g4, NoNode) /\ Grows(g3, g4)
       /\ g4.plugs = [g3.plugs EXCEPT ![e] = g4.plugs[e]]
       /\ ConnectedPlug(g3.plugs[e], g4.plugs[e], in)
       /\ g4.sockets[in].plugs # << >>
  BY <1>4, <1>10, <1>11, ConnectedIntoGood
<1> HIDE DEF g4
<1>13. g4.plugs[e].slot /\ g4.sockets[in].slot
  BY <1>4, <1>11, <1>12 DEF Grows
<1>14. /\ Good(g5, NoNode) /\ Grows(g4, g5)
       /\ g5.plugs[e] \in PlugRecords /\ g5.plugs = [g4.plugs EXCEPT ![e] = g5.plugs[e]]
       /\ g5.plugs[e].slot /\ g5.plugs[e].node /\ g5.plugs[e].remote = g4.plugs[e].remote
       /\ g5.plugs[e].held = g4.plugs[e].held /\ g5.plugs[e].waste = g4.plugs[e].waste
       /\ g5.plugs[e].refs = g4.plugs[e].refs
  BY <1>4, <1>12, <1>13, BothNodesGood
<1> HIDE DEF g5
<1>15. /\ Good(g6, NoNode) /\ Grows(g5, g6)
       /\ g6.plugs[e] \in PlugRecords /\ g6.plugs = [g5.plugs EXCEPT ![e] = g6.plugs[e]]
       /\ g6.plugs[e].slot = g5.plugs[e].slot /\ g6.plugs[e].node = g5.plugs[e].node
       /\ g6.plugs[e].remote = g5.plugs[e].remote
       /\ g6.plugs[e].held = g5.plugs[e].held /\ g6.plugs[e].waste = g5.plugs[e].waste
       /\ g5.plugs[e].refs > 0 /\
          g5.plugs[e].refs >= Ref(g5.plugs[e].node) + Ref(g5.plugs[e].remote # NoNode) =>
            g6.plugs[e].refs = g5.plugs[e].refs
  <2>1. Good(g5, NoNode)
    BY <1>14
  <2>2. LET h == UsedPlug(g5, e)
            p == g5.plugs[e]
            q == h.plugs[e]
        IN  /\ Good(h, NoNode) /\ Grows(g5, h)
            /\ q \in PlugRecords /\ h.plugs = [g5.plugs EXCEPT ![e] = q]
            /\ q.slot = p.slot /\ q.node = p.node /\ q.remote = p.remote
            /\ q.held = p.held /\ q.waste = p.waste
            /\ p.refs > 0 /\ p.refs >= Ref(p.node) + Ref(p.remote # NoNode) => q.refs = p.refs
    BY <1>4, <2>1, UsedPlugGood
  <2> QED BY <2>2
<1> HIDE DEF g6
<1>16. \A n \in Nodes : g6.nodes[n].user = Graph.nodes[n].user
  <2>1. \A n \in Nodes : g2.nodes[n].user = Graph.nodes[n].user
    BY <1>6, <1>8 DEF Grows
  <2>2. \A n \in Nodes : g4.nodes[n].user = g2.nodes[n].user
    BY <1>10, <1>12 DEF Grows
  <2>3. \A n \in Nodes : g6.nodes[n].user = g4.nodes[n].user
    BY <1>14, <1>15 DEF Grows
  <2> QED BY <2>1, <2>2, <2>3
<1>17. Good(g7, NoNode) /\ Grows(g6, g7) /\ g7.plugs = g6.plugs
  <2>1. g6.nodes[in].user > 0
    BY <1>2, <1>16
  <2> QED BY <1>15, <2>1, UsedSocketIs, WithSocketGood DEF g7
<1>18. g7.plugs = [Graph.plugs EXCEPT ![e] = g6.plugs[e]]
  <2>1. Graph.plugs \in [Edges -> PlugRecords]
    BY <1>1, GraphTypes DEF Good
  <2>2. \A f \in Edges : f # e => g6.plugs[f] = Graph.plugs[f]
    <3>1. \A f \in Edges : f # e => g2.plugs[f] = Graph.plugs[f]
      BY <1>6, <1>8, <2>1
    <3>2. \A f \in Edges : f # e => g4.plugs[f] = g2.plugs[f]
      <4>1. g2.plugs \in [Edges -> PlugRecords]
        BY <1>8, GraphTypes DEF Good
      <4> QED BY <1>10, <1>12, <4>1
    <3>3. \A f \in Edges : f # e => g6.plugs[f] = g4.plugs[f]
      <4>1. g4.plugs \in [Edges -> PlugRecords] /\ g5.plugs \in [Edges -> PlugRecords]
        BY <1>12, <1>14, GraphTypes DEF Good
      <4> QED BY <1>14, <1>15, <4>1
    <3> QED BY <3>1, <3>2, <3>3
  <2>3. g6.plugs \in [Edges -> PlugRecords]
    BY <1>15, GraphTypes DEF Good
  <2> QED BY <1>4, <1>17, <2>1, <2>2, <2>3
<1>19. ASSUME CountedPlugs(Graph) PROVE CountedPlugs(g7)
  <2> DEFINE p == Graph.plugs[e]
             q == g6.plugs[e]
  <2>1. /\ Graph \in Graphs /\ p \in PlugRecords
    BY <1>1, <1>4, GraphTypes DEF Good
  <2>2. CountedPlug(p) /\ (~ p.slot => p.held = 0)
    BY <1>2, <1>4, <1>19 DEF CountedPlugs
  <2>3. CountedPlug(q) /\ q.slot
    <3>1. /\ g2.plugs[e].held = p.held /\ g2.plugs[e].waste = p.waste
          /\ g2.plugs[e].remote = p.remote
          /\ IF p.slot THEN g2.plugs[e] = p ELSE FreshPlug(g2.plugs[e])
      BY <1>6, <1>8
    <3>2. ConnectedPlug(g2.plugs[e], g4.plugs[e], in)
      BY <1>10, <1>12
    <3> QED BY <1>8, <1>14, <1>15, <2>1, <2>2, <3>1, <3>2, ConnectedCounts
  <2>4. \A n \in Nodes : g7.nodes[n].user = Graph.nodes[n].user
    BY <1>16, <1>17 DEF Grows
  <2> QED BY <1>4, <1>18, <1>19, <2>1, <2>3, <2>4, CountedChange
<1>20. JoinedPlugs(g7)
  <2>1. JoinedPlug(g6.plugs[e])
    BY <1>14, <1>15 DEF JoinedPlug
  <2>2. Graph \in Graphs
    BY <1>1 DEF Good
  <2> QED BY <1>1, <1>4, <1>18, <2>1, <2>2, JoinedChange
<1> QED BY <1>1, <1>5, <1>17, <1>19, <1>20, NextInv

\* The connectors do not match: a reference to the socket and one to the plug are lost.
LEMMA ConnectMismatchGood ==
  ASSUME GraphInv, NEW in \in Nodes, NEW out \in Nodes, NEW named,
         ConnectMismatch(in, out, named)
  PROVE  GraphInv' /\ (PlugsInv => PlugsInv')
<1>1. /\ Good(Graph, NoNode) /\ JoinedPlugs(Graph)
      /\ PlugsInv <=> CountedPlugs(Graph)
  BY DEF GraphInv, PlugsInv
<1>2. Graph.nodes[in].user > 0 /\ Graph.nodes[out].user > 0
  BY GraphIs DEF ConnectMismatch, Alive
<1>3. PICK e \in PlugFor(out, named) :
        LET g == WithPlug(UsedSocket(Graph, in), e)
        IN  Becomes([g EXCEPT !.sockets[in] = Lost(@), !.plugs[e] = Lost(@)])
  BY DEF ConnectMismatch
<1>4. e \in Edges /\ NodeOf(e) = out
  BY <1>3, PlugForIs
<1> DEFINE g1 == UsedSocket(Graph, in)
           g2 == WithPlug(g1, e)
           p == g2.plugs[e]
           r == p.refs + 1
           w == p.waste + 1
           q == Lost(p)
           g3 == [g2 EXCEPT !.sockets[in] = Lost(@)]
           g4 == [g2 EXCEPT !.sockets[in] = Lost(@), !.plugs[e] = Lost(@)]
<1>5. plugs' = g4.plugs /\ sockets' = g4.sockets /\ nodes' = g4.nodes
  BY <1>3 DEF Becomes
<1>6. Good(g1, NoNode) /\ Grows(Graph, g1) /\ g1.plugs = Graph.plugs
  BY <1>1, <1>2, UsedSocketIs, WithSocketGood
<1> HIDE DEF g1
<1>7. g1.nodes[NodeOf(e)].user > 0
  BY <1>2, <1>4, <1>6 DEF Grows
<1>8. /\ Good(g2, NoNode) /\ Grows(g1, g2)
      /\ p \in PlugRecords
      /\ g2.plugs = [g1.plugs EXCEPT ![e] = p]
      /\ p.remote = g1.plugs[e].remote
      /\ p.held = g1.plugs[e].held /\ p.waste = g1.plugs[e].waste
      /\ IF g1.plugs[e].slot THEN p = g1.plugs[e] ELSE FreshPlug(p)
      /\ p.slot
  BY <1>4, <1>6, <1>7, WithPlugGood
<1> HIDE DEF g2
<1>9. g2 \in Graphs /\ g2 = [plugs |-> g2.plugs, sockets |-> g2.sockets, nodes |-> g2.nodes]
      /\ g2.plugs \in [Edges -> PlugRecords]
  BY <1>8, GraphTypes DEF Good
<1>10. Good(g3, NoNode) /\ Grows(g2, g3) /\ g3.plugs = g2.plugs /\ g3.nodes = g2.nodes
  <2>1. g3 = [g2 EXCEPT !.sockets[in] = Lost(@)]
    OBVIOUS
  <2> HIDE DEF g3
  <2> QED BY <1>8, <2>1, SocketLost
<1>11. g4.plugs = [g2.plugs EXCEPT ![e] = q]
  BY <1>9
<1>12. g4.sockets = g3.sockets
  BY <1>9
<1>13. g4.nodes = g2.nodes /\ IsGraph(g4)
  BY <1>9 DEF IsGraph
<1> HIDE DEF g3, g4, p
<1>14. /\ q \in PlugRecords /\ q.slot = p.slot /\ q.node = p.node /\ q.remote = p.remote
       /\ q.held = p.held /\ q.refs = p.refs + 1 /\ q.waste = p.waste + 1
  <2>1. r \in Nat /\ w \in Nat
    BY <1>8 DEF PlugRecords
  <2> HIDE DEF r, w
  <2>2. /\ q \in PlugRecords /\ q.slot = p.slot /\ q.node = p.node /\ q.remote = p.remote
        /\ q.held = p.held /\ q.refs = r /\ q.waste = w
    <3>1. q = [p EXCEPT !.refs = r, !.waste = w]
      BY DEF Lost, r, w
    <3> HIDE DEF q
    <3> QED BY <1>8, <2>1, <3>1 DEF PlugRecords
  <2> HIDE DEF q
  <2> QED BY <2>2 DEF r, w
<1> HIDE DEF q
<1>15. g4 \in Graphs
  <2>1. g4.plugs \in [Edges -> PlugRecords]
    BY <1>9, <1>11, <1>14
  <2>2. g4.sockets \in [Nodes -> SocketRecords] /\ g4.nodes \in [Nodes -> NodeRecords]
    BY <1>9, <1>10, <1>12, <1>13, GraphTypes DEF Good
  <2> QED BY <1>13, <2>1, <2>2, GraphOfParts
<1>16. Good(g4, NoNode) /\ Grows(g3, g4)
  <2>1. /\ q.slot = g3.plugs[e].slot /\ q.node = g3.plugs[e].node
        /\ q.remote = g3.plugs[e].remote
        /\ g4.plugs = [g3.plugs EXCEPT ![e] = q]
        /\ g4.sockets = g3.sockets /\ g4.nodes = g3.nodes
    BY <1>10, <1>11, <1>12, <1>13, <1>14 DEF p
  <2> QED BY <1>4, <1>10, <1>14, <1>15, <2>1, PlugCountChange, Zenon
<1>17. ASSUME CountedPlugs(Graph) PROVE CountedPlugs(g4)
  <2> DEFINE o == Graph.plugs[e]
  <2>1. Graph \in Graphs /\ Graph.plugs \in [Edges -> PlugRecords] /\ o \in PlugRecords
    BY <1>1, <1>4, GraphTypes DEF Good
  <2>2. CountedPlug(o) /\ (~ o.slot => o.held = 0) /\ g1.plugs[e] = o
    BY <1>2, <1>4, <1>6, <1>17 DEF CountedPlugs
  <2>3. GoodPlug(o, Lives(Graph, NoNode, NodeOf(e)))
    BY <1>1, <1>4 DEF Good
  <2>4. CountedPlug(q)
    <3>1. o.refs \in Nat /\ o.waste \in Nat /\ o.held \in Nat /\ p.waste \in Nat
      BY <1>8, <2>1 DEF PlugRecords
    <3>2. CASE o.slot
      <4>1. p = o
        BY <1>8, <2>2, <3>2
      <4> HIDE DEF o
      <4> QED BY <1>14, <2>2, <3>1, <3>2, <4>1 DEF CountedPlug, Ref
    <3>3. CASE ~ o.slot
      <4>1. FreshPlug(p) /\ p.held = 0
        BY <1>8, <2>2, <3>3
      <4> HIDE DEF o
      <4> QED BY <1>14, <3>1, <4>1 DEF CountedPlug, FreshPlug, Ref
    <3> QED BY <3>2, <3>3
  <2>5. g4.plugs = [Graph.plugs EXCEPT ![e] = q]
    <3>1. g2.plugs = [Graph.plugs EXCEPT ![e] = p]
      BY <1>6, <1>8
    <3> QED BY <1>11, <2>1, <3>1
  <2>6. \A n \in Nodes : g4.nodes[n].user = Graph.nodes[n].user
    BY <1>6, <1>8, <1>13 DEF Grows
  <2>7. q.slot
    BY <1>8, <1>14
  <2> QED BY <1>4, <1>17, <2>1, <2>4, <2>5, <2>6, <2>7, CountedChange
<1>18. JoinedPlugs(g4)
  <2>1. Graph \in Graphs /\ Graph.plugs \in [Edges -> PlugRecords]
    BY <1>1, GraphTypes DEF Good
  <2>2. g4.plugs = [Graph.plugs EXCEPT ![e] = q]
    <3>1. g2.plugs = [Graph.plugs EXCEPT ![e] = p]
      BY <1>6, <1>8
    <3> QED BY <1>11, <2>1, <3>1
  <2>3. JoinedPlug(p)
    BY <1>1, <1>4, <1>6, <1>8 DEF JoinedPlugs, JoinedPlug, FreshPlug, p
  <2>4. JoinedPlug(q)
    BY <1>14, <2>3 DEF JoinedPlug
  <2> QED BY <1>1, <1>4, <2>1, <2>2, <2>4, JoinedChange
<1> QED BY <1>1, <1>5, <1>16, <1>17, <1>18, NextInv

\* A plug is dropped by a release signal: it keeps its node and a lost reference.
LEMMA DroppedGood ==
  ASSUME GraphInv, NEW e \in Edges, Connected(e), Becomes(Dropped(Graph, e))
  PROVE  GraphInv' /\ (PlugsInv => PlugsInv')
<1> DEFINE g == SocketCallback(Graph, e)
           o == Graph.plugs[e]
           p == g.plugs[e]
           w == p.waste + 1
           q == [p EXCEPT !.waste = w]
           h == Dropped(Graph, e)
<1>1. /\ Good(Graph, NoNode) /\ JoinedPlugs(Graph)
      /\ PlugsInv <=> CountedPlugs(Graph)
  BY DEF GraphInv, PlugsInv
<1>2. plugs' = h.plugs /\ sockets' = h.sockets /\ nodes' = h.nodes
  BY DEF Becomes
<1>3. /\ Good(g, NoNode) /\ Keeps(Graph, g)
      /\ g.plugs = [Graph.plugs EXCEPT ![e].remote = NoNode]
  BY <1>1, SocketCallbackGood
<1>4. h = [g EXCEPT !.plugs[e].waste = @ + 1]
  BY DEF Dropped
<1> HIDE DEF g, h
<1>5. /\ g \in Graphs /\ g.plugs \in [Edges -> PlugRecords] /\ p \in PlugRecords
      /\ g = [plugs |-> g.plugs, sockets |-> g.sockets, nodes |-> g.nodes]
      /\ Graph \in Graphs /\ Graph.plugs \in [Edges -> PlugRecords] /\ o \in PlugRecords
  BY <1>1, <1>3, GraphTypes DEF Good
<1>6. /\ p.slot = o.slot /\ p.node = o.node /\ p.remote = NoNode
      /\ p.refs = o.refs /\ p.held = o.held /\ p.waste = o.waste
  <2>1. p = [o EXCEPT !.remote = NoNode]
    BY <1>3, <1>5
  <2> HIDE DEF o, p
  <2> QED BY <1>5, <2>1 DEF PlugRecords
<1>7. h.plugs = [g.plugs EXCEPT ![e] = q]
  BY <1>4, <1>5
<1>8. h.sockets = g.sockets /\ h.nodes = g.nodes /\ IsGraph(h)
  BY <1>4, <1>5 DEF IsGraph
<1> HIDE DEF p, o
<1>9. w \in Nat
  BY <1>5 DEF PlugRecords
<1> HIDE DEF w
<1>10. /\ q \in PlugRecords /\ q.slot = p.slot /\ q.node = p.node /\ q.remote = p.remote
       /\ q.refs = p.refs /\ q.held = p.held /\ q.waste = w
  BY <1>5, <1>9 DEF PlugRecords
<1> HIDE DEF q
<1>11. h \in Graphs
  <2>1. h.plugs \in [Edges -> PlugRecords]
    BY <1>5, <1>7, <1>10
  <2>2. h.sockets \in [Nodes -> SocketRecords] /\ h.nodes \in [Nodes -> NodeRecords]
    BY <1>5, <1>8, GraphTypes
  <2> QED BY <1>8, <2>1, <2>2, GraphOfParts
<1>12. Good(h, NoNode)
  <2>1. q.slot = g.plugs[e].slot /\ q.node = g.plugs[e].node /\ q.remote = g.plugs[e].remote
    BY <1>10 DEF p
  <2> QED BY <1>3, <1>7, <1>8, <1>10, <1>11, <2>1, PlugCountChange, Zenon
<1>13. h.plugs = [Graph.plugs EXCEPT ![e] = q]
  BY <1>3, <1>5, <1>7
<1>14. ASSUME CountedPlugs(Graph) PROVE CountedPlugs(h)
  <2>1. CountedPlug(o) /\ GoodPlug(o, Lives(Graph, NoNode, NodeOf(e))) /\ o.remote # NoNode
    BY <1>1, <1>14, GraphIs DEF CountedPlugs, Good, Connected, o
  <2>2. CountedPlug(q) /\ q.slot
    <3>1. /\ o.refs \in Nat /\ o.waste \in Nat /\ o.held \in Nat
          /\ q.refs = o.refs /\ q.held = o.held /\ q.waste = o.waste + 1
          /\ q.slot = o.slot /\ q.node = o.node /\ q.remote = NoNode
      BY <1>5, <1>6, <1>10 DEF PlugRecords, w
    <3>2. o.slot
      BY <2>1 DEF GoodPlug
    <3> QED BY <2>1, <3>1, <3>2 DEF CountedPlug, Ref
  <2>3. \A n \in Nodes : h.nodes[n].user = Graph.nodes[n].user
    BY <1>3, <1>8 DEF Keeps
  <2> QED BY <1>5, <1>13, <1>14, <2>2, <2>3, CountedChange
<1>15. JoinedPlugs(h)
  <2>1. JoinedPlug(q)
    BY <1>6, <1>10 DEF JoinedPlug
  <2> QED BY <1>1, <1>5, <1>13, <2>1, JoinedChange
<1> QED BY <1>1, <1>2, <1>12, <1>14, <1>15, NextInv

LEMMA CallsGood ==
  ASSUME GraphInv, Calls
  PROVE  GraphInv' /\ (PlugsInv => PlugsInv')
<1>1. ASSUME NEW n \in Nodes, Copy(n) PROVE GraphInv' /\ (PlugsInv => PlugsInv')
  BY <1>1, CopyGood
<1>2. ASSUME NEW n \in Nodes, Release(n) PROVE GraphInv' /\ (PlugsInv => PlugsInv')
  BY <1>2, ReleaseGood
<1>3. ASSUME NEW e \in Edges, GetPlug(e) PROVE GraphInv' /\ (PlugsInv => PlugsInv')
  BY <1>3, GetPlugGood
<1>4. ASSUME NEW e \in Edges, ReleasePlug(e) PROVE GraphInv' /\ (PlugsInv => PlugsInv')
  BY <1>4, ReleasePlugGood
<1>5. ASSUME NEW e \in Edges, Disconnect(e) PROVE GraphInv' /\ (PlugsInv => PlugsInv')
  BY <1>5, DisconnectGood
<1>6. ASSUME NEW in \in Nodes, NEW out \in Nodes, ConnectFull(in, out)
      PROVE  GraphInv' /\ (PlugsInv => PlugsInv')
  BY <1>6, ConnectFullGood
<1>7. ASSUME NEW in \in Nodes, NEW out \in Nodes, NEW named \in BOOLEAN, Connect(in, out, named)
      PROVE  GraphInv' /\ (PlugsInv => PlugsInv')
  BY <1>7, ConnectGood
<1>8. ASSUME NEW in \in Nodes, NEW out \in Nodes, NEW named \in BOOLEAN,
             ConnectMismatch(in, out, named)
      PROVE  GraphInv' /\ (PlugsInv => PlugsInv')
  BY <1>8, ConnectMismatchGood
<1> QED BY <1>1, <1>2, <1>3, <1>4, <1>5, <1>6, <1>7, <1>8 DEF Calls

\* Whatever the application does and wherever a release signal is, the graph stays good
\* and the references to plugs are counted.
LEMMA NextGood ==
  ASSUME GraphInv, [Next]_vars
  PROVE  GraphInv' /\ (PlugsInv => PlugsInv')
<1>1. ASSUME Calls PROVE GraphInv' /\ (PlugsInv => PlugsInv')
  BY <1>1, CallsGood
<1>2. ASSUME NEW n \in Nodes, SignalRelease(n) \/ VisitNode(n) PROVE UNCHANGED edges
  BY <1>2 DEF SignalRelease, VisitNode
<1>3. ASSUME VisitPlug \/ SignalDone PROVE UNCHANGED edges
  BY <1>3 DEF VisitPlug, SignalDone, GoesWrong
<1>4. ASSUME CallPlug PROVE GraphInv' /\ (PlugsInv => PlugsInv')
  <2>1. ASSUME NEW e \in NthConnected(walk.node, walk.k), Becomes(Dropped(Graph, e))
        PROVE  GraphInv' /\ (PlugsInv => PlugsInv')
    <3>1. e \in Edges /\ Connected(e)
      BY DEF NthConnected
    <3> QED BY <2>1, <3>1, DroppedGood
  <2>2. ASSUME GoesWrong PROVE GraphInv' /\ (PlugsInv => PlugsInv')
    BY <2>2, SameGraph DEF GoesWrong
  <2> QED BY <1>4, <2>1, <2>2 DEF CallPlug
<1>5. CASE UNCHANGED vars
  BY <1>5, SameGraph DEF vars
<1> QED BY <1>1, <1>2, <1>3, <1>4, <1>5, SameGraph DEF Next

-----------------------------------------------------------------------------
(* What the invariant says.                                                   *)

LEMMA GoodEnds ==
  ASSUME GraphInv
  PROVE  EdgesHaveTwoEnds
<1>1. SUFFICES ASSUME NEW e \in Edges, NEW n \in Nodes
               PROVE  Cardinality({i \in DOMAIN sockets[n].plugs : sockets[n].plugs[i] = e}) =
                        Ref(plugs[e].remote = n)
  BY DEF EdgesHaveTwoEnds
<1> DEFINE list == sockets[n].plugs
           S == {i \in DOMAIN list : list[i] = e}
<1>2. list \in Seq(Edges) /\ OneEach(list) /\ (e \in ToSet(list) <=> plugs[e].remote = n)
  BY GraphIs, GraphTypes DEF GraphInv, Good, TwoEnds
<1>3. Len(list) \in Nat /\ DOMAIN list = 1 .. Len(list)
  BY <1>2
<1> HIDE DEF list
<1>4. CASE e \in ToSet(list)
  <2>1. PICK i \in DOMAIN list : list[i] = e
    BY <1>4 DEF ToSet
  <2>2. S = {i}
    BY <1>2, <1>3, <2>1 DEF OneEach
  <2>3. Cardinality(S) = 1
    BY <2>2, FS_Singleton
  <2> QED BY <1>2, <1>4, <2>3 DEF Ref, list
<1>5. CASE e \notin ToSet(list)
  <2>1. S = {}
    BY <1>5 DEF ToSet
  <2>2. Cardinality(S) = 0
    BY <2>1, FS_EmptySet
  <2> QED BY <1>2, <1>5, <2>2 DEF Ref, list
<1> QED BY <1>4, <1>5

LEMMA GoodParts ==
  ASSUME GraphInv
  PROVE  /\ \A e \in Edges : plugs[e] \in PlugRecords /\ GoodPlug(plugs[e], Alive(NodeOf(e)))
         /\ \A n \in Nodes : /\ sockets[n] \in SocketRecords
                             /\ GoodSocket(sockets[n], Alive(n), nodes[n].user)
                             /\ nodes[n].refs = nodes[n].user + Inner(Graph, n)
<1>1. Graph \in Graphs
  BY DEF GraphInv, Good
<1>2. NoNode \notin Nodes
  BY FilterAssumption
<1>3. \A n \in Nodes : Lives(Graph, NoNode, n) <=> Alive(n)
  BY <1>2, GraphIs DEF Lives, Alive
<1>4. ASSUME NEW e \in Edges
      PROVE  plugs[e] \in PlugRecords /\ GoodPlug(plugs[e], Alive(NodeOf(e)))
  <2>1. GoodPlug(plugs[e], Lives(Graph, NoNode, NodeOf(e)))
    BY GraphIs DEF GraphInv, Good
  <2> QED BY <1>1, <1>3, <2>1, GraphIs, GraphTypes, EdgeForm DEF GoodPlug
<1>5. ASSUME NEW n \in Nodes
      PROVE  /\ sockets[n] \in SocketRecords
             /\ GoodSocket(sockets[n], Alive(n), nodes[n].user)
             /\ nodes[n].refs = nodes[n].user + Inner(Graph, n)
  <2>1. GoodSocket(sockets[n], Lives(Graph, NoNode, n), nodes[n].user)
    BY GraphIs DEF GraphInv, Good
  <2>2. Counted(Graph, NoNode)
    BY DEF GraphInv, Good
  <2>3. nodes[n].refs = nodes[n].user + Inner(Graph, n)
    BY <1>2, <2>2, GraphIs DEF Counted
  <2> QED BY <1>1, <1>3, <2>1, <2>3, GraphIs, GraphTypes DEF GoodSocket
<1> QED BY <1>4, <1>5

LEMMA GoodOwners ==
  ASSUME GraphInv, PlugsInv
  PROVE  OwnersCounted
<1>1. ASSUME NEW e \in Edges
      PROVE  /\ plugs[e].refs >= Ref(plugs[e].slot) + Ref(Connected(e)) + plugs[e].held
             /\ plugs[e].node => Alive(NodeOf(e))
  <2>1. CountedPlug(plugs[e])
    BY GraphIs DEF PlugsInv, CountedPlugs
  <2> QED BY <2>1, GoodParts DEF CountedPlug, GoodPlug, Connected
<1>2. ASSUME NEW n \in Nodes
      PROVE  /\ sockets[n].refs >= Ref(sockets[n].slot) + Len(sockets[n].plugs)
             /\ nodes[n].refs = nodes[n].user + Inner(Graph, n)
             /\ sockets[n].node /\ sockets[n].plugs # <<>> => Alive(n)
  BY GoodParts DEF GoodSocket
<1> QED BY <1>1, <1>2 DEF OwnersCounted

LEMMA GoodRest ==
  ASSUME GraphInv, PlugsInv
  PROVE  GoneWithNode
<1>1. SUFFICES ASSUME NEW n \in Nodes, ~ Alive(n)
               PROVE  /\ \A i \in 1 .. NPlugs[n] : plugs[<<n, i>>].waste = 0 =>
                           /\ plugs[<<n, i>>].refs = plugs[<<n, i>>].held
                           /\ ~ Connected(<<n, i>>)
                      /\ sockets[n].waste = 0 => sockets[n].refs = Len(sockets[n].plugs)
  BY DEF GoneWithNode
<1>2. ASSUME NEW i \in 1 .. NPlugs[n], plugs[<<n, i>>].waste = 0
      PROVE  plugs[<<n, i>>].refs = plugs[<<n, i>>].held /\ ~ Connected(<<n, i>>)
  <2> DEFINE e == <<n, i>>
             p == plugs[e]
  <2>1. e \in Edges /\ NodeOf(e) = n
    BY EdgeIs
  <2> HIDE DEF e
  <2>2. p \in PlugRecords /\ GoodPlug(p, FALSE)
    BY <1>1, <2>1, GoodParts DEF GoodPlug
  <2>3. CountedPlug(p)
    BY <2>1, GraphIs DEF PlugsInv, CountedPlugs
  <2>4. p.waste = 0
    BY <1>2 DEF e
  <2> HIDE DEF p
  <2>5. ~ p.slot /\ p.remote = NoNode
    BY <2>2 DEF GoodPlug
  <2>6. p.refs = p.held
    BY <2>2, <2>3, <2>4, <2>5 DEF CountedPlug, Ref, PlugRecords
  <2> QED BY <2>5, <2>6 DEF Connected, p, e
<1>3. ASSUME sockets[n].waste = 0 PROVE sockets[n].refs = Len(sockets[n].plugs)
  <2> DEFINE s == sockets[n]
  <2>1. s \in SocketRecords /\ GoodSocket(s, FALSE, nodes[n].user) /\ s.waste = 0
    BY <1>1, <1>3, GoodParts DEF GoodSocket
  <2> HIDE DEF s
  <2>2. ~ s.slot
    BY <2>1 DEF GoodSocket
  <2>3. s.refs \in Nat /\ Len(s.plugs) \in Nat
    BY <2>1 DEF SocketRecords
  <2>4. s.refs = Len(s.plugs)
    BY <2>1, <2>2, <2>3 DEF GoodSocket, Ref
  <2> QED BY <2>4 DEF s
<1> QED BY <1>2, <1>3

-----------------------------------------------------------------------------
(* The depth-first search of a graph.  W has the ways of each node.           *)

WayRecords == {w \in [edge : Edges, leads : BOOLEAN, beyond : Nodes \cup {NoNode},
                      known : BOOLEAN] : w.known => w.beyond \in Nodes}

\* A search takes and returns lists of edges.
Searches == [Nodes \X Seq(Edges) -> Seq(Edges)]

\* The ways of a node that lead to an edge, and the nodes beyond that are known.
Leading(W, m) == {i \in 1 .. Len(W[m]) : W[m][i].leads}

Beyond(W, m) == {W[m][i].beyond : i \in {j \in Leading(W, m) : W[m][j].known}}

\* All edges of a node are in a list.
Covered(W, m, r) == \A i \in Leading(W, m) : W[m][i].edge \in ToSet(r)

\* Whatever is beyond an edge is covered, or the node n, where the search is.
Followed(W, e, n, r) ==
  \A m \in Nodes : \A i \in Leading(W, m) :
    W[m][i].edge = e /\ W[m][i].known =>
      W[m][i].beyond = n \/ Covered(W, W[m][i].beyond, r)

\* No edges but those of the nodes in C.
Closed(W, C) == \A m \in C : Beyond(W, m) \subseteq C

EdgesAt(W, C) == {e \in Edges : \E m \in C : \E i \in Leading(W, m) : W[m][i].edge = e}

\* The list r that a search at n has made of l so far.
Grown(W, n, l, r) ==
  /\ r \in Seq(Edges) /\ OneEach(r)
  /\ ToSet(l) \subseteq ToSet(r) /\ Len(l) <= Len(r)
  /\ \A C \in SUBSET Nodes : n \in C /\ Closed(W, C) =>
       ToSet(r) \subseteq ToSet(l) \cup EdgesAt(W, C)
  /\ \A e \in ToSet(r) \ ToSet(l) : Followed(W, e, n, r)

\* Searches that may add as many edges as are left.
Thorough(W, d, visit) ==
  \A n \in Nodes, l \in Seq(Edges) :
    OneEach(l) /\ Len(l) + d >= Cardinality(Edges) =>
      Grown(W, n, l, visit[<<n, l>>]) /\ Covered(W, n, visit[<<n, l>>])

\* Two ways by the same edge lead to the same node, or one of them leads back.
TwoWays(W) ==
  \A m, k \in Nodes : \A i \in Leading(W, m), j \in Leading(W, k) :
    W[m][i].edge = W[k][j].edge =>
      \/ W[k][j].beyond = m
      \/ W[m][i].beyond = W[k][j].beyond /\ W[m][i].known = W[k][j].known

LEMMA CoveredMore ==
  ASSUME NEW W, NEW m, NEW r, NEW q, ToSet(r) \subseteq ToSet(q), Covered(W, m, r)
  PROVE  Covered(W, m, q)
BY DEF Covered

LEMMA FollowedMore ==
  ASSUME NEW W, NEW e, NEW n, NEW r, NEW q, ToSet(r) \subseteq ToSet(q), Followed(W, e, n, r)
  PROVE  Followed(W, e, n, q)
BY CoveredMore DEF Followed

LEMMA ToSetIs ==
  ASSUME NEW S, NEW s \in Seq(S)
  PROVE  /\ ToSet(s) \subseteq S
         /\ \A i \in 1 .. Len(s) : s[i] \in ToSet(s)
         /\ \A x \in ToSet(s) : \E i \in 1 .. Len(s) : s[i] = x
<1>1. DOMAIN s = 1 .. Len(s) /\ \A i \in 1 .. Len(s) : s[i] \in S
  BY ElementOfSeq
<1> QED BY <1>1 DEF ToSet

\* One way more.
LEMMA AddEdgeGrows ==
  ASSUME NEW W \in [Nodes -> Seq(WayRecords)], TwoWays(W),
         NEW d \in Nat, NEW visit, Thorough(W, d, visit),
         NEW n \in Nodes, NEW l \in Seq(Edges), Len(l) + d + 1 >= Cardinality(Edges),
         NEW c \in Int, c = Cardinality(Edges),
         NEW m, Grown(W, n, l, m), NEW i \in Leading(W, n)
  PROVE  LET r == AddEdge(m, W[n][i], visit)
         IN  /\ Grown(W, n, l, r)
             /\ ToSet(m) \subseteq ToSet(r) /\ W[n][i].edge \in ToSet(r)
<1> DEFINE w == W[n][i]
           a == Append(m, w.edge)
           r == AddEdge(m, w, visit)
<1>1. /\ w \in WayRecords /\ w.edge \in Edges /\ w.known \in BOOLEAN
      /\ w.known => w.beyond \in Nodes
  <2>1. W[n] \in Seq(WayRecords) /\ i \in 1 .. Len(W[n])
    BY DEF Leading
  <2>2. w \in WayRecords
    BY <2>1, ElementOfSeq
  <2> QED BY <2>2 DEF WayRecords
<1>2. /\ m \in Seq(Edges) /\ OneEach(m)
      /\ ToSet(l) \subseteq ToSet(m) /\ Len(l) <= Len(m)
      /\ \A C \in SUBSET Nodes : n \in C /\ Closed(W, C) =>
           ToSet(m) \subseteq ToSet(l) \cup EdgesAt(W, C)
      /\ \A e \in ToSet(m) \ ToSet(l) : Followed(W, e, n, m)
  BY DEF Grown
<1>3. /\ ~ (w.edge \in ToSet(m)) => a \in Seq(Edges) /\ OneEach(a)
           /\ Len(a) = Len(m) + 1 /\ ToSet(a) = ToSet(m) \cup {w.edge}
      /\ Len(m) \in Nat /\ Len(l) \in Nat
  BY <1>1, <1>2, AppendProperty
<1>4. \A C \in SUBSET Nodes : n \in C => w.edge \in EdgesAt(W, C)
  BY <1>1 DEF EdgesAt
<1>5. CASE w.edge \in ToSet(m)
  <2>1. r = m
    BY <1>5 DEF AddEdge
  <2> QED BY <1>5, <2>1
<1>6. CASE w.edge \notin ToSet(m) /\ ~ w.known
  <2>1. r = a
    BY <1>6 DEF AddEdge
  <2> HIDE DEF r, a
  <2>2. Followed(W, w.edge, n, a)
    <3> SUFFICES ASSUME NEW k \in Nodes, NEW j \in Leading(W, k),
                        W[k][j].edge = w.edge, W[k][j].known
                 PROVE  W[k][j].beyond = n
      BY DEF Followed
    <3> QED BY <1>6 DEF TwoWays
  <2>3. \A e \in ToSet(a) \ ToSet(l) : Followed(W, e, n, a)
    <3> HIDE DEF w
    <3> QED BY <1>2, <1>3, <1>6, <2>2, FollowedMore
  <2>4. Grown(W, n, l, a)
    <3> HIDE DEF w
    <3>1. a \in Seq(Edges) /\ OneEach(a) /\ ToSet(l) \subseteq ToSet(a) /\ Len(l) <= Len(a)
      BY <1>2, <1>3, <1>6
    <3>2. \A C \in SUBSET Nodes : n \in C /\ Closed(W, C) =>
            ToSet(a) \subseteq ToSet(l) \cup EdgesAt(W, C)
      BY <1>2, <1>3, <1>4, <1>6
    <3> QED BY <2>3, <3>1, <3>2 DEF Grown
  <2> QED BY <1>3, <1>6, <2>1, <2>4 DEF r
<1>7. CASE w.edge \notin ToSet(m) /\ w.known
  <2> DEFINE b == w.beyond
  <2>1. r = visit[<<b, a>>] /\ b \in Nodes
    BY <1>1, <1>7 DEF AddEdge
  <2>2. Len(a) + d >= Cardinality(Edges)
    <3> HIDE DEF a
    <3> QED BY <1>2, <1>3, <1>7
  <2>3. Grown(W, b, a, r) /\ Covered(W, b, r)
    <3> HIDE DEF a, b, r
    <3> QED BY <1>3, <1>7, <2>1, <2>2 DEF Thorough
  <2>4. \A C \in SUBSET Nodes : n \in C /\ Closed(W, C) => b \in C
    <3>1. b \in Beyond(W, n)
      BY <1>7 DEF Beyond
    <3> HIDE DEF b
    <3> QED BY <3>1 DEF Closed
  <2>5. Followed(W, w.edge, n, r)
    <3> SUFFICES ASSUME NEW k \in Nodes, NEW j \in Leading(W, k),
                        W[k][j].edge = w.edge, W[k][j].known
                 PROVE  W[k][j].beyond = n \/ Covered(W, W[k][j].beyond, r)
      BY DEF Followed
    <3>1. W[k][j].beyond = n \/ W[k][j].beyond = b
      BY DEF TwoWays
    <3> HIDE DEF b, r
    <3> QED BY <2>3, <3>1
  <2> HIDE DEF r, a, b
  <2>6. /\ r \in Seq(Edges) /\ OneEach(r)
        /\ ToSet(a) \subseteq ToSet(r) /\ Len(a) <= Len(r)
        /\ \A C \in SUBSET Nodes : b \in C /\ Closed(W, C) =>
             ToSet(r) \subseteq ToSet(a) \cup EdgesAt(W, C)
        /\ \A e \in ToSet(r) \ ToSet(a) : Followed(W, e, b, r)
    BY <2>3 DEF Grown
  <2> HIDE DEF w
  <2>7. ASSUME NEW e \in ToSet(r) \ ToSet(l) PROVE Followed(W, e, n, r)
    <3>1. CASE e \in ToSet(m)
      BY <1>2, <1>3, <1>7, <2>6, <3>1, FollowedMore
    <3>2. CASE e = w.edge
      BY <2>5, <3>2
    <3>3. CASE e \in ToSet(r) \ ToSet(a)
      BY <2>3, <2>6, <3>3 DEF Followed
    <3> QED BY <1>3, <1>7, <3>1, <3>2, <3>3
  <2>8. ASSUME NEW C \in SUBSET Nodes, n \in C /\ Closed(W, C)
        PROVE  ToSet(r) \subseteq ToSet(l) \cup EdgesAt(W, C)
    BY <1>2, <1>3, <1>4, <1>7, <2>4, <2>6, <2>8
  <2>9. Len(l) <= Len(r)
    <3>1. Len(r) \in Nat
      BY <2>6
    <3> QED BY <1>2, <1>3, <1>7, <2>6, <3>1
  <2>10. Grown(W, n, l, r)
    BY <1>2, <1>3, <1>7, <2>6, <2>7, <2>8, <2>9 DEF Grown
  <2> QED BY <1>3, <1>7, <2>6, <2>10 DEF r, w
<1> QED BY <1>1, <1>5, <1>6, <1>7

\* One round of the loop over the ways of a node.
TryWay(list, ways, visit, f, k) ==
  IF k = 0 THEN list
  ELSE IF ways[k].leads THEN AddEdge(f[k - 1], ways[k], visit) ELSE f[k - 1]

LEMMA AddEdgeType ==
  ASSUME NEW m \in Seq(Edges), NEW w \in WayRecords, NEW visit \in Searches
  PROVE  AddEdge(m, w, visit) \in Seq(Edges)
<1>1. w.edge \in Edges /\ w.known \in BOOLEAN /\ (w.known => w.beyond \in Nodes)
  BY DEF WayRecords
<1>2. Append(m, w.edge) \in Seq(Edges)
  BY <1>1, AppendProperties
<1>3. w.known => visit[<<w.beyond, Append(m, w.edge)>>] \in Seq(Edges)
  BY <1>1, <1>2 DEF Searches
<1> QED BY <1>1, <1>2, <1>3 DEF AddEdge

LEMMA TriedIs ==
  ASSUME NEW list \in Seq(Edges), NEW ways \in Seq(WayRecords), NEW visit \in Searches
  PROVE  \E f : /\ f \in [0 .. Len(ways) -> Seq(Edges)]
                /\ f = [k \in 0 .. Len(ways) |-> TryWay(list, ways, visit, f, k)]
                /\ Tried(list, ways, visit) = f[Len(ways)]
<1> DEFINE n == Len(ways)
           X == Seq(Edges)
           Step == [p \in (1 .. n) \X X |->
                      IF ways[p[1]].leads THEN AddEdge(p[2], ways[p[1]], visit) ELSE p[2]]
<1>1. n \in Nat /\ \A k \in 1 .. n : ways[k] \in WayRecords
  BY ElementOfSeq
<1>2. Step \in [(1 .. n) \X X -> X]
  <2>1. ASSUME NEW p \in (1 .. n) \X X
        PROVE  (IF ways[p[1]].leads THEN AddEdge(p[2], ways[p[1]], visit) ELSE p[2]) \in X
    <3>1. p[2] \in Seq(Edges) /\ ways[p[1]] \in WayRecords
      BY <1>1
    <3>2. AddEdge(p[2], ways[p[1]], visit) \in Seq(Edges)
      BY <3>1, AddEdgeType
    <3> QED BY <3>1, <3>2
  <2> HIDE DEF n, X
  <2> QED BY <2>1
<1>3. PICK h \in [0 .. n -> X] : AreRounds(h, n, list, Step)
  <2>1. list \in X
    OBVIOUS
  <2> HIDE DEF n, X, Step
  <2> QED BY <1>1, <1>2, <2>1, RoundsExist
<1>4. h = [k \in 0 .. n |-> TryWay(list, ways, visit, h, k)]
  <2>1. ASSUME NEW k \in 0 .. n
        PROVE  (IF k = 0 THEN list ELSE Step[<<k, h[k - 1]>>]) = TryWay(list, ways, visit, h, k)
    <3>1. CASE k = 0
      BY <3>1 DEF TryWay
    <3>2. CASE k # 0
      <4>1. k \in 1 .. n /\ k - 1 \in 0 .. n
        BY <1>1, <3>2
      <4> HIDE DEF X, n
      <4>2. h[k - 1] \in X
        BY <4>1
      <4>3. Step[<<k, h[k - 1]>>] =
              IF ways[k].leads THEN AddEdge(h[k - 1], ways[k], visit) ELSE h[k - 1]
        BY <4>1, <4>2
      <4> QED BY <3>2, <4>3 DEF TryWay
    <3> QED BY <3>1, <3>2
  <2> HIDE DEF n, X, Step
  <2> QED BY <1>3, <2>1 DEF AreRounds
<1> HIDE DEF Step
<1> DEFINE f == CHOOSE c : c = [k \in 0 .. n |-> TryWay(list, ways, visit, c, k)]
<1>5. f = [k \in 0 .. n |-> TryWay(list, ways, visit, f, k)]
  BY <1>4
<1>6. Tried(list, ways, visit) = f[n]
  BY DEF Tried, TryWay
<1> HIDE DEF f, X
<1> DEFINE S == {k \in 0 .. n : f[k] \in X}
<1>7. 0 \in S
  <2>1. f[0] = list /\ list \in X
    BY <1>1, <1>5 DEF TryWay, X
  <2> QED BY <1>1, <2>1
<1>8. ASSUME NEW k \in S, k \in 0 .. n - 1 PROVE k + 1 \in S
  <2>1. k + 1 \in 1 .. n /\ k + 1 \in 0 .. n /\ (k + 1) - 1 = k /\ k + 1 # 0
    BY <1>1, <1>8
  <2>2. f[k + 1] = IF ways[k + 1].leads THEN AddEdge(f[k], ways[k + 1], visit) ELSE f[k]
    <3>1. f[k + 1] = TryWay(list, ways, visit, f, k + 1)
      BY <1>5, <2>1
    <3> QED BY <2>1, <3>1 DEF TryWay
  <2>3. f[k] \in Seq(Edges) /\ ways[k + 1] \in WayRecords
    BY <1>1, <2>1 DEF X
  <2>4. AddEdge(f[k], ways[k + 1], visit) \in Seq(Edges)
    BY <2>3, AddEdgeType
  <2> QED BY <2>1, <2>2, <2>3, <2>4 DEF X
<1>9. 0 .. n \subseteq S
  <2> HIDE DEF S
  <2> QED BY <1>1, <1>7, <1>8, BoundedInduction
<1>10. f \in [0 .. n -> Seq(Edges)]
  <2>1. \A k \in 0 .. n : f[k] \in Seq(Edges)
    BY <1>9 DEF X
  <2>2. f = [k \in 0 .. n |-> f[k]]
    <3> DEFINE g == [k \in 0 .. n |-> TryWay(list, ways, visit, f, k)]
    <3>1. f = g
      BY <1>5
    <3>2. g = [k \in 0 .. n |-> g[k]]
      OBVIOUS
    <3> QED BY <3>1, <3>2, Zenon
  <2> HIDE DEF n
  <2> QED BY <2>1, <2>2
<1> QED BY <1>5, <1>6, <1>10

\* All ways of a node, if the searches beyond are thorough.
LEMMA TriedThorough ==
  ASSUME NEW W \in [Nodes -> Seq(WayRecords)], TwoWays(W),
         NEW d \in Nat, NEW visit \in Searches, Thorough(W, d, visit),
         NEW n \in Nodes, NEW l \in Seq(Edges), OneEach(l),
         NEW c \in Int, c = Cardinality(Edges), Len(l) + d + 1 >= c
  PROVE  LET r == Tried(l, W[n], visit)
         IN  r \in Seq(Edges) /\ Grown(W, n, l, r) /\ Covered(W, n, r)
<1>1. W[n] \in Seq(WayRecords)
  OBVIOUS
<1>2. PICK f : /\ f \in [0 .. Len(W[n]) -> Seq(Edges)]
               /\ f = [k \in 0 .. Len(W[n]) |-> TryWay(l, W[n], visit, f, k)]
               /\ Tried(l, W[n], visit) = f[Len(W[n])]
  BY <1>1, TriedIs
<1> DEFINE p == Len(W[n])
           Tries(k) == \A j \in 1 .. k : W[n][j].leads => W[n][j].edge \in ToSet(f[k])
           S == {k \in 0 .. p : Grown(W, n, l, f[k]) /\ Tries(k)}
<1>3. p \in Nat
  BY <1>1
<1>4. 0 \in S
  <2>1. f[0] = l
    BY <1>2, <1>3 DEF TryWay
  <2>2. Grown(W, n, l, l)
    <3>1. Len(l) \in Nat
      OBVIOUS
    <3> QED BY <3>1 DEF Grown
  <2>3. Tries(0)
    OBVIOUS
  <2> HIDE DEF Tries
  <2> QED BY <1>3, <2>1, <2>2, <2>3
<1>5. ASSUME NEW k \in S, k \in 0 .. p - 1 PROVE k + 1 \in S
  <2>1. k + 1 \in 1 .. p /\ k + 1 \in 0 .. p /\ (k + 1) - 1 = k /\ k + 1 # 0
    BY <1>3, <1>5
  <2>2. f[k + 1] = IF W[n][k + 1].leads THEN AddEdge(f[k], W[n][k + 1], visit) ELSE f[k]
    <3>1. f[k + 1] = TryWay(l, W[n], visit, f, k + 1)
      BY <1>2, <2>1
    <3> QED BY <2>1, <3>1 DEF TryWay
  <2>3. Grown(W, n, l, f[k]) /\ Tries(k)
    BY <1>5
  <2>4. \A j \in 1 .. k + 1 : j \in 1 .. k \/ j = k + 1
    BY <1>3, <2>1
  <2> HIDE DEF p
  <2>5. CASE W[n][k + 1].leads
    <3> DEFINE r == AddEdge(f[k], W[n][k + 1], visit)
    <3>1. k + 1 \in Leading(W, n)
      BY <2>1, <2>5 DEF Leading, p
    <3>2. Len(l) + d + 1 >= Cardinality(Edges)
      OBVIOUS
    <3>3. /\ Grown(W, n, l, r)
          /\ ToSet(f[k]) \subseteq ToSet(r) /\ W[n][k + 1].edge \in ToSet(r)
      BY <2>3, <3>1, <3>2, AddEdgeGrows
    <3> HIDE DEF r
    <3>4. f[k + 1] = r
      BY <2>2, <2>5 DEF r
    <3>5. Tries(k + 1)
      BY <2>3, <2>4, <3>3, <3>4
    <3> QED BY <2>1, <3>3, <3>4, <3>5
  <2>6. CASE ~ W[n][k + 1].leads
    <3>1. f[k + 1] = f[k]
      BY <2>2, <2>6
    <3>2. Tries(k + 1)
      BY <2>3, <2>4, <2>6, <3>1
    <3> QED BY <2>1, <2>3, <3>1, <3>2
  <2> QED BY <2>5, <2>6
<1>6. p \in S
  <2>1. 0 .. p \subseteq S
    <3> HIDE DEF S, p
    <3> QED BY <1>3, <1>4, <1>5, BoundedInduction
  <2> HIDE DEF S
  <2> QED BY <1>3, <2>1
<1> DEFINE r == Tried(l, W[n], visit)
<1>7. r = f[p]
  BY <1>2
<1>8. Grown(W, n, l, r) /\ \A j \in 1 .. p : W[n][j].leads => W[n][j].edge \in ToSet(r)
  <2> HIDE DEF r
  <2> QED BY <1>6, <1>7
<1>9. Covered(W, n, r)
  <2> HIDE DEF r
  <2> QED BY <1>8 DEF Covered, Leading
<1>10. r \in Seq(Edges)
  <2> HIDE DEF r
  <2> QED BY <1>8 DEF Grown
<1> QED BY <1>8, <1>9, <1>10

\* What a visit with at most d more calls inside each other does.
Visit(dirs, f, d) ==
  [call \in Nodes \X Seq(Edges) |->
     IF d = 0 THEN call[2] ELSE Tried(call[2], Ways(call[1], dirs), f[d - 1])]

\* The searches f[d] from all nodes, with at most d calls inside each other.
AreSearches(f, c, W, dirs) ==
  /\ \A d \in 0 .. c : f[d] \in Searches
  /\ \A m \in Nodes, l \in Seq(Edges) :
       /\ f[0][<<m, l>>] = l
       /\ \A d \in 1 .. c : f[d][<<m, l>>] = Tried(l, W[m], f[d - 1])
  /\ \A m \in Nodes : Adjacency(m, dirs) = f[c][<<m, << >>>>]

LEMMA TriedType ==
  ASSUME NEW list \in Seq(Edges), NEW ways \in Seq(WayRecords), NEW visit \in Searches
  PROVE  Tried(list, ways, visit) \in Seq(Edges)
<1>1. PICK f : /\ f \in [0 .. Len(ways) -> Seq(Edges)]
               /\ Tried(list, ways, visit) = f[Len(ways)]
  BY TriedIs
<1>2. Len(ways) \in 0 .. Len(ways)
  OBVIOUS
<1> QED BY <1>1, <1>2

LEMMA AdjacencyIs ==
  ASSUME NEW dirs, NEW W \in [Nodes -> Seq(WayRecords)], \A m \in Nodes : W[m] = Ways(m, dirs),
         NEW c \in Nat, c = Cardinality(Edges)
  PROVE  \E f : AreSearches(f, c, W, dirs)
<1> DEFINE X == Searches
           base == [call \in Nodes \X Seq(Edges) |-> call[2]]
           Step == [p \in (1 .. c) \X X |-> Visit(dirs, [k \in {p[1] - 1} |-> p[2]], p[1])]
<1>1. base \in X
  BY DEF Searches
<1>2. ASSUME NEW f, NEW d \in 1 .. c, f[d - 1] \in Searches
      PROVE  Visit(dirs, f, d) \in Searches
  <2>1. d # 0
    OBVIOUS
  <2>2. ASSUME NEW call \in Nodes \X Seq(Edges)
        PROVE  Tried(call[2], Ways(call[1], dirs), f[d - 1]) \in Seq(Edges)
    <3>1. call[2] \in Seq(Edges) /\ Ways(call[1], dirs) \in Seq(WayRecords)
      <4>1. call[1] \in Nodes /\ call[2] \in Seq(Edges)
        OBVIOUS
      <4>2. W[call[1]] = Ways(call[1], dirs) /\ W[call[1]] \in Seq(WayRecords)
        BY <4>1
      <4> QED BY <4>1, <4>2
    <3> QED BY <1>2, <3>1, TriedType
  <2> QED BY <2>1, <2>2 DEF Visit, Searches
<1>3. ASSUME NEW f, NEW g, NEW d \in 1 .. c, f[d - 1] = g[d - 1]
      PROVE  Visit(dirs, f, d) = Visit(dirs, g, d)
  BY <1>3 DEF Visit
<1>4. ASSUME NEW f, NEW d \in 1 .. c, f[d - 1] \in Searches
      PROVE  Step[<<d, f[d - 1]>>] = Visit(dirs, f, d)
  <2> DEFINE g == [k \in {d - 1} |-> f[d - 1]]
  <2>1. Step[<<d, f[d - 1]>>] = Visit(dirs, g, d)
    BY <1>4
  <2>2. f[d - 1] = g[d - 1]
    OBVIOUS
  <2> HIDE DEF Step, g
  <2> QED BY <1>3, <2>1, <2>2
<1>5. Step \in [(1 .. c) \X X -> X]
  <2>1. ASSUME NEW p \in (1 .. c) \X X
        PROVE  Visit(dirs, [k \in {p[1] - 1} |-> p[2]], p[1]) \in X
    <3> DEFINE g == [k \in {p[1] - 1} |-> p[2]]
    <3>1. p[1] \in 1 .. c /\ p[2] \in Searches /\ g[p[1] - 1] = p[2]
      OBVIOUS
    <3> HIDE DEF g
    <3>2. Visit(dirs, g, p[1]) \in Searches
      BY <1>2, <3>1
    <3> QED BY <3>2 DEF g
  <2> HIDE DEF X
  <2> QED BY <2>1
<1>6. PICK h \in [0 .. c -> X] : AreRounds(h, c, base, Step)
  <2> HIDE DEF X, base, Step
  <2> QED BY <1>1, <1>5, RoundsExist
<1>7. \A f : Visit(dirs, f, 0) = base
  BY DEF Visit
<1> HIDE DEF base, Step
<1>8. h = [d \in 0 .. c |-> Visit(dirs, h, d)]
  <2>1. ASSUME NEW d \in 0 .. c
        PROVE  (IF d = 0 THEN base ELSE Step[<<d, h[d - 1]>>]) = Visit(dirs, h, d)
    <3>1. CASE d = 0
      BY <1>7, <3>1
    <3>2. CASE d # 0
      <4>1. d \in 1 .. c /\ d - 1 \in 0 .. c
        BY <3>2
      <4>2. h[d - 1] \in Searches
        BY <4>1
      <4> QED BY <1>4, <3>2, <4>1, <4>2
    <3> QED BY <3>1, <3>2
  <2> HIDE DEF X
  <2> QED BY <1>6, <2>1 DEF AreRounds
<1> DEFINE f == CHOOSE v : v = [d \in 0 .. Cardinality(Edges) |-> Visit(dirs, v, d)]
<1>9. f = [d \in 0 .. c |-> Visit(dirs, f, d)]
  BY <1>8
<1>10. \A m \in Nodes : Adjacency(m, dirs) = f[c][<<m, << >>>>]
  BY DEF Adjacency, Visit
<1> HIDE DEF f
<1> DEFINE S == {d \in 0 .. c : f[d] \in Searches}
<1>11. 0 \in S
  <2>1. f[0] = base /\ base \in Searches
    BY <1>1, <1>7, <1>9
  <2> QED BY <2>1
<1>12. ASSUME NEW d \in S, d \in 0 .. c - 1 PROVE d + 1 \in S
  <2>1. d + 1 \in 1 .. c /\ d + 1 \in 0 .. c /\ (d + 1) - 1 = d
    BY <1>12
  <2>2. f[d + 1] = Visit(dirs, f, d + 1) /\ f[(d + 1) - 1] \in Searches
    BY <1>9, <1>12, <2>1
  <2>3. f[d + 1] \in Searches
    BY <1>2, <2>1, <2>2
  <2> QED BY <2>1, <2>3
<1>13. \A d \in 0 .. c : f[d] \in Searches
  <2>1. 0 .. c \subseteq S
    <3> HIDE DEF S
    <3> QED BY <1>11, <1>12, BoundedInduction
  <2> QED BY <2>1
<1>14. ASSUME NEW m \in Nodes, NEW l \in Seq(Edges)
       PROVE  /\ f[0][<<m, l>>] = l
              /\ \A d \in 1 .. c : f[d][<<m, l>>] = Tried(l, W[m], f[d - 1])
  <2>1. f[0] = base
    BY <1>7, <1>9
  <2>2. f[0][<<m, l>>] = l
    BY <2>1 DEF base
  <2>3. ASSUME NEW d \in 1 .. c PROVE f[d][<<m, l>>] = Tried(l, W[m], f[d - 1])
    <3>1. d \in 0 .. c /\ d # 0
      OBVIOUS
    <3>2. f[d] = Visit(dirs, f, d)
      BY <1>9, <3>1
    <3> QED BY <3>1, <3>2 DEF Visit
  <2> QED BY <2>2, <2>3
<1> QED BY <1>10, <1>13, <1>14 DEF AreSearches

\* A list without repetition that is long enough has all edges.
LEMMA AllListed ==
  ASSUME IsFiniteSet(Edges), NEW l \in Seq(Edges), OneEach(l), Len(l) >= Cardinality(Edges)
  PROVE  ToSet(l) = Edges
<1>1. Len(l) \in Nat /\ DOMAIN l = 1 .. Len(l) /\ ToSet(l) \subseteq Edges
  BY ToSetIs
<1> DEFINE g == [i \in 1 .. Len(l) |-> l[i]]
<1>2. g \in Bijection(1 .. Len(l), ToSet(l))
  <2>1. \A i \in 1 .. Len(l) : l[i] \in ToSet(l)
    BY ToSetIs
  <2>2. \A x \in ToSet(l) : \E i \in 1 .. Len(l) : g[i] = x
    BY ToSetIs
  <2>3. \A i, j \in 1 .. Len(l) : g[i] = g[j] => i = j
    BY DEF OneEach
  <2>4. g \in [1 .. Len(l) -> ToSet(l)]
    BY <2>1
  <2> HIDE DEF g
  <2>5. DOMAIN g = 1 .. Len(l)
    BY <2>4
  <2> QED BY <2>2, <2>3, <2>4, <2>5 DEF Bijection, Injection, Surjection, IsInjective
<1>3. IsFiniteSet(1 .. Len(l)) /\ Cardinality(1 .. Len(l)) = Len(l)
  <2>1. 1 \in Int /\ Len(l) \in Int
    BY <1>1
  <2>2. /\ IsFiniteSet(1 .. Len(l))
        /\ Cardinality(1 .. Len(l)) = IF 1 > Len(l) THEN 0 ELSE Len(l) - 1 + 1
    BY <2>1, FS_Interval
  <2> QED BY <1>1, <2>2
<1>4. Cardinality(ToSet(l)) = Len(l)
  <2>1. ExistsBijection(1 .. Len(l), ToSet(l))
    BY <1>2 DEF ExistsBijection
  <2> QED BY <1>3, <2>1, FS_Bijection
<1>5. Cardinality(ToSet(l)) = Cardinality(Edges)
  <2>1. Cardinality(ToSet(l)) <= Cardinality(Edges)
    BY <1>1, FS_Subset
  <2>2. Cardinality(Edges) \in Nat
    BY FS_CardinalityType
  <2> QED BY <1>1, <1>4, <2>1, <2>2
<1> QED BY <1>1, <1>5, FS_Subset

LEMMA WaysToEdges ==
  ASSUME NEW W \in [Nodes -> Seq(WayRecords)], NEW m \in Nodes, NEW i \in Leading(W, m)
  PROVE  W[m][i] \in WayRecords /\ W[m][i].edge \in Edges
<1>1. W[m] \in Seq(WayRecords) /\ i \in 1 .. Len(W[m])
  BY DEF Leading
<1>2. W[m][i] \in WayRecords
  BY <1>1, ElementOfSeq
<1> QED BY <1>2 DEF WayRecords

\* The searches are thorough, however many edges are left.
LEMMA SearchesThorough ==
  ASSUME NEW dirs, NEW W \in [Nodes -> Seq(WayRecords)], TwoWays(W), IsFiniteSet(Edges),
         NEW c \in Nat, c = Cardinality(Edges), NEW f, AreSearches(f, c, W, dirs)
  PROVE  \A d \in 0 .. c : Thorough(W, d, f[d])
<1>1. /\ \A d \in 0 .. c : f[d] \in Searches
      /\ \A m \in Nodes, l \in Seq(Edges) :
           /\ f[0][<<m, l>>] = l
           /\ \A d \in 1 .. c : f[d][<<m, l>>] = Tried(l, W[m], f[d - 1])
  BY DEF AreSearches
<1> DEFINE S == {d \in 0 .. c : Thorough(W, d, f[d])}
<1>2. 0 \in S
  <2>1. ASSUME NEW m \in Nodes, NEW l \in Seq(Edges), OneEach(l), Len(l) + 0 >= Cardinality(Edges)
        PROVE  Grown(W, m, l, l) /\ Covered(W, m, l)
    <3>1. Len(l) \in Nat
      OBVIOUS
    <3>2. ToSet(l) = Edges
      BY <2>1, <3>1, AllListed
    <3>3. Grown(W, m, l, l)
      BY <2>1, <3>1 DEF Grown
    <3>4. Covered(W, m, l)
      BY <3>2, WaysToEdges DEF Covered
    <3> QED BY <3>3, <3>4
  <2>2. Thorough(W, 0, f[0])
    BY <1>1, <2>1 DEF Thorough
  <2> QED BY <2>2
<1>3. ASSUME NEW d \in S, d \in 0 .. c - 1 PROVE d + 1 \in S
  <2>1. d + 1 \in 1 .. c /\ d + 1 \in 0 .. c /\ (d + 1) - 1 = d /\ d \in Nat
    BY <1>3
  <2>2. Thorough(W, d, f[d]) /\ f[d] \in Searches
    BY <1>1, <1>3
  <2>3. ASSUME NEW m \in Nodes, NEW l \in Seq(Edges), OneEach(l),
               Len(l) + (d + 1) >= Cardinality(Edges)
        PROVE  Grown(W, m, l, f[d + 1][<<m, l>>]) /\ Covered(W, m, f[d + 1][<<m, l>>])
    <3>1. f[d + 1][<<m, l>>] = Tried(l, W[m], f[d])
      <4>1. f[d + 1][<<m, l>>] = Tried(l, W[m], f[(d + 1) - 1])
        BY <1>1, <2>1
      <4> QED BY <2>1, <4>1
    <3>2. Len(l) + d + 1 >= c
      BY <2>1, <2>3
    <3>3. Grown(W, m, l, Tried(l, W[m], f[d])) /\ Covered(W, m, Tried(l, W[m], f[d]))
      <4>1. c \in Int
        OBVIOUS
      <4> QED BY <2>1, <2>2, <2>3, <3>2, <4>1, TriedThorough
    <3> QED BY <3>1, <3>3
  <2>4. Thorough(W, d + 1, f[d + 1])
    BY <2>3 DEF Thorough
  <2> QED BY <2>1, <2>4
<1>4. 0 .. c \subseteq S
  <2> HIDE DEF S
  <2> QED BY <1>2, <1>3, BoundedInduction
<1> QED BY <1>4

\* What the whole search finds.
LEMMA AdjacencyThorough ==
  ASSUME NEW dirs, NEW W \in [Nodes -> Seq(WayRecords)], \A m \in Nodes : W[m] = Ways(m, dirs),
         TwoWays(W), IsFiniteSet(Edges), NEW n \in Nodes
  PROVE  LET r == Adjacency(n, dirs)
         IN  Grown(W, n, << >>, r) /\ Covered(W, n, r)
<1> DEFINE c == Cardinality(Edges)
           r == Adjacency(n, dirs)
<1>1. c \in Nat
  BY FS_CardinalityType
<1> HIDE DEF c
<1>2. c = Cardinality(Edges)
  BY DEF c
<1>3. PICK f : AreSearches(f, c, W, dirs)
  BY <1>1, <1>2, AdjacencyIs
<1>4. r = f[c][<<n, << >>>>]
  BY <1>3 DEF AreSearches
<1>5. Thorough(W, c, f[c])
  <2>1. \A d \in 0 .. c : Thorough(W, d, f[d])
    BY <1>1, <1>2, <1>3, SearchesThorough
  <2> QED BY <1>1, <2>1
<1>6. << >> \in Seq(Edges) /\ OneEach(<< >>) /\ Len(<< >>) + c >= Cardinality(Edges)
  BY <1>1, <1>2 DEF OneEach
<1>7. Grown(W, n, << >>, r) /\ Covered(W, n, r)
  <2> HIDE DEF r
  <2> QED BY <1>4, <1>5, <1>6 DEF Thorough
<1> QED BY <1>7

\* The least set that is closed.
LEMMA WithinIs ==
  ASSUME NEW n \in Nodes, NEW next, \A m \in Nodes : next[m] \subseteq Nodes
  PROVE  /\ Within(n, next) \subseteq Nodes /\ n \in Within(n, next)
         /\ \A k \in Within(n, next) : next[k] \subseteq Within(n, next)
         /\ \A S \in SUBSET Nodes : n \in S /\ (\A k \in S : next[k] \subseteq S) =>
              Within(n, next) \subseteq S
BY DEF Within

\* The search finds the edges at the nodes of that set.
LEMMA SearchFinds ==
  ASSUME NEW dirs, NEW W \in [Nodes -> Seq(WayRecords)], \A m \in Nodes : W[m] = Ways(m, dirs),
         TwoWays(W), IsFiniteSet(Edges), NEW n \in Nodes,
         NEW next, \A m \in Nodes : next[m] \subseteq Nodes,
         \A m \in Within(n, next) : Beyond(W, m) = next[m]
  PROVE  LET r == Adjacency(n, dirs)
         IN  r \in Seq(Edges) /\ OneEach(r) /\ ToSet(r) = EdgesAt(W, Within(n, next))
<1> DEFINE r == Adjacency(n, dirs)
           C == Within(n, next)
           M == {m \in Nodes : Covered(W, m, r)}
<1>1. Grown(W, n, << >>, r) /\ Covered(W, n, r)
  BY AdjacencyThorough
<1>2. /\ C \subseteq Nodes /\ n \in C
      /\ \A k \in C : next[k] \subseteq C
      /\ \A S \in SUBSET Nodes : n \in S /\ (\A k \in S : next[k] \subseteq S) => C \subseteq S
  BY WithinIs
<1>3. \A m \in C : Beyond(W, m) = next[m]
  OBVIOUS
<1> HIDE DEF r, C
<1>4. ToSet(<< >>) = {}
  BY DEF ToSet
<1>5. /\ r \in Seq(Edges) /\ OneEach(r)
      /\ n \in C /\ Closed(W, C) => ToSet(r) \subseteq EdgesAt(W, C)
      /\ \A e \in ToSet(r) : Followed(W, e, n, r)
  BY <1>1, <1>2, <1>4 DEF Grown
<1>6. ToSet(r) \subseteq EdgesAt(W, C)
  BY <1>2, <1>3, <1>5 DEF Closed
<1>7. ASSUME NEW m \in M, NEW x \in Beyond(W, m) PROVE x \in M
  <2>1. PICK i \in Leading(W, m) : W[m][i].known /\ x = W[m][i].beyond
    BY <1>7 DEF Beyond
  <2>2. x \in Nodes
    <3>1. W[m][i] \in WayRecords
      BY WaysToEdges
    <3> QED BY <2>1, <3>1 DEF WayRecords
  <2>3. W[m][i].edge \in ToSet(r)
    BY DEF Covered
  <2>4. x = n \/ Covered(W, x, r)
    BY <1>5, <2>1, <2>3 DEF Followed
  <2> QED BY <1>1, <2>2, <2>4
<1>8. C \subseteq M
  <2> DEFINE S == C \cap M
  <2>1. n \in S /\ S \in SUBSET Nodes
    BY <1>1, <1>2
  <2>2. ASSUME NEW k \in S PROVE next[k] \subseteq S
    <3>1. next[k] \subseteq C /\ next[k] = Beyond(W, k)
      BY <1>2, <1>3
    <3>2. Beyond(W, k) \subseteq M
      <4> HIDE DEF M
      <4> QED BY <1>7
    <3> QED BY <3>1, <3>2
  <2> HIDE DEF S
  <2>3. C \subseteq S
    BY <1>2, <2>1, <2>2
  <2> QED BY <2>3 DEF S
<1>9. EdgesAt(W, C) \subseteq ToSet(r)
  BY <1>8 DEF EdgesAt, Covered
<1> QED BY <1>5, <1>6, <1>9 DEF r, C

-----------------------------------------------------------------------------
(* The ways of a node are the edges of its plugs and of its socket.           *)

WaysOf(dirs) == [m \in Nodes |-> Ways(m, dirs)]

\* The plugs of m that are connected, and those that request its socket.
InputOf(dirs, m, e) == "inputs" \in dirs /\ NodeOf(e) = m /\ Connected(e)

OutputOf(dirs, m, e) == "outputs" \in dirs /\ sockets[m].slot /\ plugs[e].remote = m

LEMMA GraphFacts ==
  ASSUME GraphInv
  PROVE  /\ \A e \in Edges :
              /\ NodeOf(e) \in Nodes /\ plugs[e].slot \in BOOLEAN /\ plugs[e].node \in BOOLEAN
              /\ plugs[e].remote \in Nodes \cup {NoNode}
              /\ Connected(e) => /\ plugs[e].slot /\ plugs[e].node /\ Alive(NodeOf(e))
                                 /\ plugs[e].remote \in Nodes
         /\ \A n \in Nodes :
              /\ sockets[n].plugs \in Seq(Edges)
              /\ sockets[n].slot \in BOOLEAN /\ sockets[n].node \in BOOLEAN
              /\ \A e \in Edges : e \in ToSet(sockets[n].plugs) <=> plugs[e].remote = n
              /\ sockets[n].slot => Alive(n)
              /\ \A e \in Edges : plugs[e].remote = n => /\ Alive(n) => sockets[n].slot
                                                         /\ sockets[n].node => Alive(n)
<1>1. ASSUME NEW e \in Edges
      PROVE  /\ NodeOf(e) \in Nodes /\ plugs[e].slot \in BOOLEAN /\ plugs[e].node \in BOOLEAN
             /\ plugs[e].remote \in Nodes \cup {NoNode}
             /\ Connected(e) => /\ plugs[e].slot /\ plugs[e].node /\ Alive(NodeOf(e))
                                /\ plugs[e].remote \in Nodes
  <2>1. plugs[e] \in PlugRecords /\ GoodPlug(plugs[e], Alive(NodeOf(e)))
    BY GoodParts
  <2>2. /\ plugs[e].slot \in BOOLEAN /\ plugs[e].node \in BOOLEAN
        /\ plugs[e].remote \in Nodes \cup {NoNode}
    BY <2>1 DEF PlugRecords
  <2>3. Connected(e) => plugs[e].node
    BY GraphIs DEF GraphInv, JoinedPlugs, JoinedPlug, Connected
  <2> QED BY <2>1, <2>2, <2>3, EdgeForm DEF GoodPlug, Connected
<1>2. ASSUME NEW n \in Nodes
      PROVE  /\ sockets[n].plugs \in Seq(Edges)
             /\ sockets[n].slot \in BOOLEAN /\ sockets[n].node \in BOOLEAN
             /\ \A e \in Edges : e \in ToSet(sockets[n].plugs) <=> plugs[e].remote = n
             /\ sockets[n].slot => Alive(n)
             /\ \A e \in Edges : plugs[e].remote = n => /\ Alive(n) => sockets[n].slot
                                                        /\ sockets[n].node => Alive(n)
  <2>1. sockets[n] \in SocketRecords /\ GoodSocket(sockets[n], Alive(n), nodes[n].user)
    BY GoodParts
  <2>2. /\ sockets[n].plugs \in Seq(Edges)
        /\ sockets[n].slot \in BOOLEAN /\ sockets[n].node \in BOOLEAN
    BY <2>1 DEF SocketRecords
  <2>3. \A e \in Edges : e \in ToSet(sockets[n].plugs) <=> plugs[e].remote = n
    BY GraphIs DEF GraphInv, Good, TwoEnds
  <2>4. \A e \in Edges : plugs[e].remote = n => sockets[n].plugs # << >>
    BY <2>2, <2>3, NothingListed
  <2> QED BY <2>1, <2>2, <2>3, <2>4 DEF GoodSocket, Alive
<1> QED BY <1>1, <1>2

LEMMA InputWayIs ==
  ASSUME GraphInv, NEW e \in Edges
  PROVE  /\ InputWay(e) \in WayRecords
         /\ InputWay(e).edge = e /\ InputWay(e).beyond = plugs[e].remote
         /\ InputWay(e).leads <=> Connected(e)
         /\ InputWay(e).known <=> Connected(e) /\ sockets[plugs[e].remote].node
<1> DEFINE k == Connected(e) /\ sockets[plugs[e].remote].node
           l == plugs[e].slot /\ Connected(e)
<1>1. /\ plugs[e].remote \in Nodes \cup {NoNode} /\ l \in BOOLEAN /\ k \in BOOLEAN
      /\ k => plugs[e].remote \in Nodes
      /\ l <=> Connected(e)
  BY GraphFacts DEF Connected
<1>2. InputWay(e) = [edge |-> e, leads |-> l, beyond |-> plugs[e].remote, known |-> k]
  BY DEF InputWay
<1> HIDE DEF k, l
<1>3. /\ InputWay(e) \in [edge : Edges, leads : BOOLEAN, beyond : Nodes \cup {NoNode},
                          known : BOOLEAN]
      /\ InputWay(e).edge = e /\ InputWay(e).beyond = plugs[e].remote
      /\ InputWay(e).leads = l /\ InputWay(e).known = k
  BY <1>1, <1>2
<1>4. InputWay(e) \in WayRecords
  BY <1>1, <1>3 DEF WayRecords
<1> QED BY <1>1, <1>3, <1>4 DEF k

LEMMA OutputWayIs ==
  ASSUME GraphInv, NEW e \in Edges
  PROVE  /\ OutputWay(e) \in WayRecords
         /\ OutputWay(e).edge = e /\ OutputWay(e).beyond = NodeOf(e)
         /\ OutputWay(e).leads
         /\ OutputWay(e).known = plugs[e].node
<1>1. NodeOf(e) \in Nodes /\ plugs[e].node \in BOOLEAN
  BY GraphFacts
<1>2. OutputWay(e) = [edge |-> e, leads |-> TRUE, beyond |-> NodeOf(e), known |-> plugs[e].node]
  BY DEF OutputWay
<1> QED BY <1>1, <1>2 DEF WayRecords

LEMMA WaysAre ==
  ASSUME GraphInv, NEW m \in Nodes, NEW dirs
  PROVE  /\ Ways(m, dirs) \in Seq(WayRecords)
         /\ \A i \in 1 .. Len(Ways(m, dirs)) : Ways(m, dirs)[i].leads =>
              \E e \in Edges :
                \/ InputOf(dirs, m, e) /\ Ways(m, dirs)[i] = InputWay(e)
                \/ OutputOf(dirs, m, e) /\ Ways(m, dirs)[i] = OutputWay(e)
         /\ \A e \in Edges : InputOf(dirs, m, e) =>
              \E i \in 1 .. Len(Ways(m, dirs)) : Ways(m, dirs)[i] = InputWay(e)
         /\ \A e \in Edges : OutputOf(dirs, m, e) =>
              \E i \in 1 .. Len(Ways(m, dirs)) : Ways(m, dirs)[i] = OutputWay(e)
<1> DEFINE p == NPlugs[m]
           list == sockets[m].plugs
           s == IF "inputs" \in dirs THEN [i \in 1 .. p |-> InputWay(<<m, i>>)] ELSE <<>>
           t == IF "outputs" \in dirs /\ sockets[m].slot
                THEN [i \in 1 .. Len(list) |-> OutputWay(list[i])] ELSE <<>>
<1>1. p \in Nat /\ list \in Seq(Edges) /\ Len(list) \in Nat
      /\ (\A i \in 1 .. Len(list) : list[i] \in Edges)
  BY GraphFacts, FilterAssumption, ElementOfSeq
<1>2. /\ s \in Seq(WayRecords)
      /\ \A i \in 1 .. Len(s) : <<m, i>> \in Edges /\ s[i] = InputWay(<<m, i>>)
                                /\ "inputs" \in dirs
      /\ \A e \in Edges : InputOf(dirs, m, e) => \E i \in 1 .. Len(s) : s[i] = InputWay(e)
  <2>1. CASE "inputs" \in dirs
    <3>1. \A i \in 1 .. p : <<m, i>> \in Edges /\ InputWay(<<m, i>>) \in WayRecords
      BY EdgeIs, InputWayIs
    <3>2. s = [i \in 1 .. p |-> InputWay(<<m, i>>)]
      BY <2>1
    <3> HIDE DEF s, p
    <3>3. s \in Seq(WayRecords) /\ Len(s) = p
      BY <1>1, <3>1, <3>2
    <3>4. ASSUME NEW e \in Edges, InputOf(dirs, m, e)
          PROVE  \E i \in 1 .. Len(s) : s[i] = InputWay(e)
      <4>1. NodeOf(e) = m /\ e[2] \in 1 .. p /\ e = <<m, e[2]>>
        BY <3>4, EdgeForm DEF InputOf, p
      <4> QED BY <3>2, <3>3, <4>1
    <3> QED BY <2>1, <3>1, <3>2, <3>3, <3>4
  <2>2. CASE "inputs" \notin dirs
    <3>1. s = <<>>
      BY <2>2
    <3> HIDE DEF s
    <3> QED BY <2>2, <3>1 DEF InputOf
  <2> QED BY <2>1, <2>2
<1>3. /\ t \in Seq(WayRecords)
      /\ \A i \in 1 .. Len(t) : /\ list[i] \in Edges /\ t[i] = OutputWay(list[i])
                                /\ OutputOf(dirs, m, list[i])
      /\ \A e \in Edges : OutputOf(dirs, m, e) => \E i \in 1 .. Len(t) : t[i] = OutputWay(e)
  <2>1. CASE "outputs" \in dirs /\ sockets[m].slot
    <3>1. \A i \in 1 .. Len(list) : OutputWay(list[i]) \in WayRecords
      BY <1>1, OutputWayIs
    <3>2. t = [i \in 1 .. Len(list) |-> OutputWay(list[i])]
      BY <2>1
    <3>3. \A i \in 1 .. Len(list) : plugs[list[i]].remote = m
      BY <1>1, ToSetIs, GraphFacts
    <3>4. \A e \in Edges : plugs[e].remote = m => \E i \in 1 .. Len(list) : list[i] = e
      BY <1>1, ToSetIs, GraphFacts
    <3> HIDE DEF s, t, list
    <3>5. t \in Seq(WayRecords) /\ Len(t) = Len(list)
      BY <1>1, <3>1, <3>2
    <3>6. ASSUME NEW i \in 1 .. Len(t)
          PROVE  /\ list[i] \in Edges /\ t[i] = OutputWay(list[i])
                 /\ OutputOf(dirs, m, list[i])
      BY <1>1, <2>1, <3>2, <3>3, <3>5 DEF OutputOf
    <3>7. ASSUME NEW e \in Edges, OutputOf(dirs, m, e)
          PROVE  \E i \in 1 .. Len(t) : t[i] = OutputWay(e)
      <4>1. PICK i \in 1 .. Len(list) : list[i] = e
        BY <3>4, <3>7 DEF OutputOf
      <4> QED BY <3>2, <3>5, <4>1
    <3> QED BY <3>5, <3>6, <3>7
  <2>2. CASE ~ ("outputs" \in dirs /\ sockets[m].slot)
    <3>1. t = <<>>
      BY <2>2
    <3> HIDE DEF t
    <3> QED BY <2>2, <3>1 DEF OutputOf
  <2> QED BY <2>1, <2>2
<1>4. Ways(m, dirs) = s \o t
  BY DEF Ways
<1> HIDE DEF s, t, list, p
<1> DEFINE w == s \o t
<1>5. /\ w \in Seq(WayRecords) /\ Len(w) = Len(s) + Len(t)
      /\ Len(s) \in Nat /\ Len(t) \in Nat
      /\ \A i \in 1 .. Len(s) + Len(t) : w[i] = IF i <= Len(s) THEN s[i] ELSE t[i - Len(s)]
  BY <1>2, <1>3, ConcatProperties
<1>6. w = Ways(m, dirs)
  BY <1>4
<1> HIDE DEF w
<1>7. ASSUME NEW i \in 1 .. Len(w), w[i].leads
      PROVE  \E e \in Edges : \/ InputOf(dirs, m, e) /\ w[i] = InputWay(e)
                              \/ OutputOf(dirs, m, e) /\ w[i] = OutputWay(e)
  <2>1. CASE i <= Len(s)
    <3>1. i \in 1 .. Len(s) /\ w[i] = s[i]
      BY <1>5, <2>1
    <3>2. <<m, i>> \in Edges /\ w[i] = InputWay(<<m, i>>) /\ "inputs" \in dirs
      BY <1>2, <3>1
    <3>3. InputWay(<<m, i>>).leads <=> Connected(<<m, i>>)
      BY <3>2, InputWayIs
    <3>4. NodeOf(<<m, i>>) = m
      BY DEF NodeOf
    <3>5. InputOf(dirs, m, <<m, i>>)
      BY <1>7, <3>2, <3>3, <3>4 DEF InputOf
    <3> QED BY <3>2, <3>5
  <2>2. CASE ~ (i <= Len(s))
    <3>1. i - Len(s) \in 1 .. Len(t) /\ w[i] = t[i - Len(s)]
      BY <1>5, <2>2
    <3> QED BY <1>3, <3>1
  <2> QED BY <2>1, <2>2
<1>8. ASSUME NEW e \in Edges, InputOf(dirs, m, e) PROVE \E i \in 1 .. Len(w) : w[i] = InputWay(e)
  <2>1. PICK i \in 1 .. Len(s) : s[i] = InputWay(e)
    BY <1>2, <1>8
  <2>2. i \in 1 .. Len(w) /\ w[i] = s[i]
    BY <1>5
  <2> QED BY <2>1, <2>2
<1>9. ASSUME NEW e \in Edges, OutputOf(dirs, m, e) PROVE \E i \in 1 .. Len(w) : w[i] = OutputWay(e)
  <2>1. PICK i \in 1 .. Len(t) : t[i] = OutputWay(e)
    BY <1>3, <1>9
  <2>2. i + Len(s) \in 1 .. Len(w) /\ w[i + Len(s)] = t[i]
    BY <1>5
  <2> QED BY <2>1, <2>2
<1> QED BY <1>5, <1>6, <1>7, <1>8, <1>9

LEMMA LeadingIs ==
  ASSUME GraphInv, NEW dirs
  PROVE  LET W == WaysOf(dirs)
         IN  /\ W \in [Nodes -> Seq(WayRecords)] /\ \A m \in Nodes : W[m] = Ways(m, dirs)
             /\ \A m \in Nodes : \A i \in Leading(W, m) : \E e \in Edges :
                  /\ W[m][i].edge = e
                  /\ \/ InputOf(dirs, m, e) /\ W[m][i] = InputWay(e)
                     \/ OutputOf(dirs, m, e) /\ W[m][i] = OutputWay(e)
             /\ \A m \in Nodes, e \in Edges : InputOf(dirs, m, e) =>
                  \E i \in Leading(W, m) : W[m][i] = InputWay(e)
             /\ \A m \in Nodes, e \in Edges : OutputOf(dirs, m, e) =>
                  \E i \in Leading(W, m) : W[m][i] = OutputWay(e)
<1> DEFINE W == WaysOf(dirs)
<1>1. \A m \in Nodes : W[m] = Ways(m, dirs)
  BY DEF WaysOf
<1>2. W \in [Nodes -> Seq(WayRecords)]
  <2>1. \A m \in Nodes : Ways(m, dirs) \in Seq(WayRecords)
    BY WaysAre
  <2> QED BY <2>1 DEF WaysOf
<1> HIDE DEF W
<1>3. ASSUME NEW m \in Nodes
      PROVE  /\ \A i \in Leading(W, m) : \E e \in Edges :
                  \/ InputOf(dirs, m, e) /\ W[m][i] = InputWay(e)
                  \/ OutputOf(dirs, m, e) /\ W[m][i] = OutputWay(e)
             /\ \A e \in Edges : InputOf(dirs, m, e) =>
                  \E i \in 1 .. Len(W[m]) : W[m][i] = InputWay(e)
             /\ \A e \in Edges : OutputOf(dirs, m, e) =>
                  \E i \in 1 .. Len(W[m]) : W[m][i] = OutputWay(e)
  <2>1. W[m] = Ways(m, dirs)
    BY <1>1
  <2>2. /\ \A i \in 1 .. Len(Ways(m, dirs)) : Ways(m, dirs)[i].leads =>
              \E e \in Edges :
                \/ InputOf(dirs, m, e) /\ Ways(m, dirs)[i] = InputWay(e)
                \/ OutputOf(dirs, m, e) /\ Ways(m, dirs)[i] = OutputWay(e)
        /\ \A e \in Edges : InputOf(dirs, m, e) =>
             \E i \in 1 .. Len(Ways(m, dirs)) : Ways(m, dirs)[i] = InputWay(e)
        /\ \A e \in Edges : OutputOf(dirs, m, e) =>
             \E i \in 1 .. Len(Ways(m, dirs)) : Ways(m, dirs)[i] = OutputWay(e)
    BY WaysAre
  <2> QED BY <2>1, <2>2 DEF Leading
<1>4. ASSUME NEW m \in Nodes, NEW i \in Leading(W, m)
      PROVE  \E e \in Edges :
               /\ W[m][i].edge = e
               /\ \/ InputOf(dirs, m, e) /\ W[m][i] = InputWay(e)
                  \/ OutputOf(dirs, m, e) /\ W[m][i] = OutputWay(e)
  <2>1. PICK e \in Edges : \/ InputOf(dirs, m, e) /\ W[m][i] = InputWay(e)
                           \/ OutputOf(dirs, m, e) /\ W[m][i] = OutputWay(e)
    BY <1>3
  <2>2. InputWay(e).edge = e /\ OutputWay(e).edge = e
    BY InputWayIs, OutputWayIs
  <2> QED BY <2>1, <2>2
<1>5. ASSUME NEW m \in Nodes, NEW e \in Edges, InputOf(dirs, m, e)
      PROVE  \E i \in Leading(W, m) : W[m][i] = InputWay(e)
  <2>1. InputWay(e).leads
    BY <1>5, InputWayIs DEF InputOf
  <2> QED BY <1>3, <1>5, <2>1 DEF Leading
<1>6. ASSUME NEW m \in Nodes, NEW e \in Edges, OutputOf(dirs, m, e)
      PROVE  \E i \in Leading(W, m) : W[m][i] = OutputWay(e)
  <2>1. OutputWay(e).leads
    BY OutputWayIs
  <2> QED BY <1>3, <1>6, <2>1 DEF Leading
<1> QED BY <1>1, <1>2, <1>4, <1>5, <1>6 DEF W

\* An edge is found from its two ends only.
LEMMA EdgesLeadBack ==
  ASSUME GraphInv, NEW dirs
  PROVE  TwoWays(WaysOf(dirs))
<1> DEFINE W == WaysOf(dirs)
<1>1. \A m \in Nodes : \A i \in Leading(W, m) : \E e \in Edges :
        /\ W[m][i].edge = e
        /\ \/ InputOf(dirs, m, e) /\ W[m][i] = InputWay(e)
           \/ OutputOf(dirs, m, e) /\ W[m][i] = OutputWay(e)
  BY LeadingIs
<1> HIDE DEF W
<1>2. ASSUME NEW m \in Nodes, NEW k \in Nodes, NEW i \in Leading(W, m), NEW j \in Leading(W, k),
             W[m][i].edge = W[k][j].edge
      PROVE  \/ W[k][j].beyond = m
             \/ W[m][i].beyond = W[k][j].beyond /\ W[m][i].known = W[k][j].known
  <2>1. PICK e \in Edges :
          /\ W[m][i].edge = e
          /\ \/ InputOf(dirs, m, e) /\ W[m][i] = InputWay(e)
             \/ OutputOf(dirs, m, e) /\ W[m][i] = OutputWay(e)
    BY <1>1
  <2>2. \/ InputOf(dirs, k, e) /\ W[k][j] = InputWay(e)
        \/ OutputOf(dirs, k, e) /\ W[k][j] = OutputWay(e)
    BY <1>1, <1>2, <2>1
  <2>3. InputWay(e).beyond = plugs[e].remote /\ OutputWay(e).beyond = NodeOf(e)
    BY InputWayIs, OutputWayIs
  <2> QED BY <2>1, <2>2, <2>3 DEF InputOf, OutputOf
<1>3. TwoWays(W)
  BY <1>2 DEF TwoWays
<1> QED BY <1>3 DEF W

LEMMA EdgesAtIs ==
  ASSUME GraphInv, NEW dirs, NEW C \in SUBSET Nodes
  PROVE  EdgesAt(WaysOf(dirs), C) =
           {e \in Edges : \E m \in C : InputOf(dirs, m, e) \/ OutputOf(dirs, m, e)}
<1> DEFINE W == WaysOf(dirs)
<1>1. /\ \A m \in Nodes : \A i \in Leading(W, m) : \E e \in Edges :
           /\ W[m][i].edge = e
           /\ \/ InputOf(dirs, m, e) /\ W[m][i] = InputWay(e)
              \/ OutputOf(dirs, m, e) /\ W[m][i] = OutputWay(e)
      /\ \A m \in Nodes, e \in Edges : InputOf(dirs, m, e) =>
           \E i \in Leading(W, m) : W[m][i] = InputWay(e)
      /\ \A m \in Nodes, e \in Edges : OutputOf(dirs, m, e) =>
           \E i \in Leading(W, m) : W[m][i] = OutputWay(e)
  BY LeadingIs
<1>2. \A e \in Edges : InputWay(e).edge = e /\ OutputWay(e).edge = e
  BY InputWayIs, OutputWayIs
<1> HIDE DEF W
<1>3. ASSUME NEW e \in Edges
      PROVE  (\E m \in C : \E i \in Leading(W, m) : W[m][i].edge = e) <=>
             (\E m \in C : InputOf(dirs, m, e) \/ OutputOf(dirs, m, e))
  <2>1. ASSUME NEW m \in C, NEW i \in Leading(W, m), W[m][i].edge = e
        PROVE  InputOf(dirs, m, e) \/ OutputOf(dirs, m, e)
    <3>1. m \in Nodes
      OBVIOUS
    <3> QED BY <1>1, <2>1, <3>1
  <2>2. ASSUME NEW m \in C, InputOf(dirs, m, e) \/ OutputOf(dirs, m, e)
        PROVE  \E i \in Leading(W, m) : W[m][i].edge = e
    <3>1. m \in Nodes
      OBVIOUS
    <3>2. \E i \in Leading(W, m) : W[m][i] = InputWay(e) \/ W[m][i] = OutputWay(e)
      BY <1>1, <2>2, <3>1
    <3> QED BY <1>2, <3>2
  <2> QED BY <2>1, <2>2
<1>4. EdgesAt(W, C) = {e \in Edges : \E m \in C : InputOf(dirs, m, e) \/ OutputOf(dirs, m, e)}
  BY <1>3 DEF EdgesAt
<1> QED BY <1>4 DEF W

LEMMA BeyondIs ==
  ASSUME GraphInv, NEW dirs, NEW m \in Nodes
  PROVE  Beyond(WaysOf(dirs), m) =
           {x \in Nodes : \E e \in Edges :
              \/ InputOf(dirs, m, e) /\ plugs[e].remote = x /\ sockets[x].node
              \/ OutputOf(dirs, m, e) /\ NodeOf(e) = x}
<1> DEFINE W == WaysOf(dirs)
           B == {x \in Nodes : \E e \in Edges :
                   \/ InputOf(dirs, m, e) /\ plugs[e].remote = x /\ sockets[x].node
                   \/ OutputOf(dirs, m, e) /\ NodeOf(e) = x}
<1>1. /\ \A i \in Leading(W, m) : \E e \in Edges :
           /\ W[m][i].edge = e
           /\ \/ InputOf(dirs, m, e) /\ W[m][i] = InputWay(e)
              \/ OutputOf(dirs, m, e) /\ W[m][i] = OutputWay(e)
      /\ \A e \in Edges : InputOf(dirs, m, e) =>
           \E i \in Leading(W, m) : W[m][i] = InputWay(e)
      /\ \A e \in Edges : OutputOf(dirs, m, e) =>
           \E i \in Leading(W, m) : W[m][i] = OutputWay(e)
  BY LeadingIs
<1> HIDE DEF W
<1>2. ASSUME NEW e \in Edges
      PROVE  /\ InputOf(dirs, m, e) => /\ plugs[e].remote \in Nodes
                                       /\ InputWay(e).beyond = plugs[e].remote
                                       /\ InputWay(e).known <=> sockets[plugs[e].remote].node
             /\ OutputOf(dirs, m, e) => /\ NodeOf(e) \in Nodes
                                        /\ OutputWay(e).beyond = NodeOf(e)
                                        /\ OutputWay(e).known
  <2>1. ASSUME InputOf(dirs, m, e)
        PROVE  /\ plugs[e].remote \in Nodes
               /\ InputWay(e).beyond = plugs[e].remote
               /\ InputWay(e).known <=> sockets[plugs[e].remote].node
    <3>1. Connected(e)
      BY <2>1 DEF InputOf
    <3> QED BY <3>1, InputWayIs, GraphFacts
  <2>2. ASSUME OutputOf(dirs, m, e)
        PROVE  NodeOf(e) \in Nodes /\ OutputWay(e).beyond = NodeOf(e) /\ OutputWay(e).known
    <3>1. Connected(e)
      BY <2>2, FilterAssumption DEF OutputOf, Connected
    <3>2. plugs[e].node
      BY <3>1, GraphFacts
    <3> QED BY <3>2, OutputWayIs, GraphFacts
  <2> QED BY <2>1, <2>2
<1>3. ASSUME NEW x \in Beyond(W, m) PROVE x \in B
  <2>1. PICK i \in Leading(W, m) : W[m][i].known /\ x = W[m][i].beyond
    BY <1>3 DEF Beyond
  <2>2. PICK e \in Edges :
          \/ InputOf(dirs, m, e) /\ W[m][i] = InputWay(e)
          \/ OutputOf(dirs, m, e) /\ W[m][i] = OutputWay(e)
    BY <1>1
  <2>3. CASE InputOf(dirs, m, e) /\ W[m][i] = InputWay(e)
    <3>1. x \in Nodes /\ plugs[e].remote = x /\ sockets[x].node
      BY <1>2, <2>1, <2>3
    <3> QED BY <2>3, <3>1
  <2>4. CASE OutputOf(dirs, m, e) /\ W[m][i] = OutputWay(e)
    <3>1. x \in Nodes /\ NodeOf(e) = x
      BY <1>2, <2>1, <2>4
    <3> QED BY <2>4, <3>1
  <2> QED BY <2>2, <2>3, <2>4
<1>4. ASSUME NEW x \in B PROVE x \in Beyond(W, m)
  <2>1. PICK e \in Edges :
          \/ InputOf(dirs, m, e) /\ plugs[e].remote = x /\ sockets[x].node
          \/ OutputOf(dirs, m, e) /\ NodeOf(e) = x
    BY <1>4
  <2>2. \E i \in Leading(W, m) : W[m][i].known /\ W[m][i].beyond = x
    BY <1>1, <1>2, <2>1
  <2> QED BY <2>2 DEF Beyond
<1>5. Beyond(W, m) = B
  <2> HIDE DEF B
  <2> QED BY <1>3, <1>4
<1> QED BY <1>5 DEF W

LEMMA EdgesFinite == IsFiniteSet(Edges)
<1> DEFINE f == [n \in Nodes |-> {n} \X (1 .. NPlugs[n])]
           U == {f[n] : n \in Nodes}
<1>1. IsFiniteSet(U)
  <2>1. IsFiniteSet(Nodes)
    BY FilterAssumption
  <2>2. f \in Surjection(Nodes, U)
    BY DEF Surjection
  <2> HIDE DEF f, U
  <2> QED BY <2>1, <2>2, FS_Surjection
<1>2. ASSUME NEW T \in U PROVE IsFiniteSet(T)
  <2>1. PICK n \in Nodes : T = {n} \X (1 .. NPlugs[n])
    BY <1>2
  <2>2. 1 \in Int /\ NPlugs[n] \in Int
    BY FilterAssumption
  <2>3. IsFiniteSet({n}) /\ IsFiniteSet(1 .. NPlugs[n])
    BY <2>2, FS_Singleton, FS_Interval
  <2> QED BY <2>1, <2>3, FS_Product
<1>3. Edges = UNION U
  BY DEF Edges
<1> HIDE DEF U
<1> QED BY <1>1, <1>2, <1>3, FS_UNION

\* What a search in some directions finds from a living node.
LEMMA SearchIs ==
  ASSUME GraphInv, NEW dirs, NEW n \in Nodes,
         NEW next, \A m \in Nodes : next[m] \subseteq Nodes,
         \A m \in Within(n, next) : Beyond(WaysOf(dirs), m) = next[m]
  PROVE  /\ Adjacency(n, dirs) \in Seq(Edges) /\ OneEach(Adjacency(n, dirs))
         /\ GraphEdges(n, dirs) =
              {e \in Edges : \E m \in Within(n, next) :
                 InputOf(dirs, m, e) \/ OutputOf(dirs, m, e)}
<1> DEFINE W == WaysOf(dirs)
           C == Within(n, next)
<1>1. W \in [Nodes -> Seq(WayRecords)] /\ \A m \in Nodes : W[m] = Ways(m, dirs)
  BY LeadingIs
<1>2. TwoWays(W) /\ IsFiniteSet(Edges)
  BY EdgesLeadBack, EdgesFinite
<1>3. \A m \in C : Beyond(W, m) = next[m]
  OBVIOUS
<1>4. C \subseteq Nodes
  BY WithinIs
<1>5. EdgesAt(W, C) = {e \in Edges : \E m \in C : InputOf(dirs, m, e) \/ OutputOf(dirs, m, e)}
  BY <1>4, EdgesAtIs
<1> HIDE DEF W
<1> DEFINE r == Adjacency(n, dirs)
<1>6. r \in Seq(Edges) /\ OneEach(r) /\ ToSet(r) = EdgesAt(W, C)
  BY <1>1, <1>2, <1>3, SearchFinds
<1> QED BY <1>5, <1>6 DEF GraphEdges

LEMMA ConsumersAre ==
  \A n \in Nodes : Consumers[n] = {NodeOf(e) : e \in {f \in Edges : plugs[f].remote = n}}
BY DEF Consumers

LEMMA ConsumersLive ==
  ASSUME GraphInv, NEW n \in Nodes, NEW m \in Consumers[n]
  PROVE  m \in Nodes /\ Alive(m)
<1>1. PICK e \in Edges : plugs[e].remote = n /\ m = NodeOf(e)
  BY ConsumersAre
<1>2. Connected(e)
  BY <1>1, FilterAssumption DEF Connected
<1> QED BY <1>1, <1>2, GraphFacts

-----------------------------------------------------------------------------
(* The list of a graph object.                                                *)

LEMMA NeighboursAre ==
  ASSUME GraphInv, NEW n \in Nodes
  PROVE  /\ Neighbours[n] = Consumers[n] \cup {m \in Nodes : Alive(m) /\ n \in Consumers[m]}
         /\ \A m \in Neighbours[n] : m \in Nodes /\ Alive(m)
<1>1. Neighbours[n] = Consumers[n] \cup {m \in Nodes : Alive(m) /\ n \in Consumers[m]}
  BY DEF Neighbours
<1> QED BY <1>1, ConsumersLive

LEMMA PartLives ==
  ASSUME GraphInv, NEW n \in Nodes, Alive(n)
  PROVE  \A m \in Within(n, Neighbours) : m \in Nodes /\ Alive(m)
<1> DEFINE S == {m \in Nodes : Alive(m)}
<1>1. \A m \in Nodes : Neighbours[m] \subseteq Nodes
  BY NeighboursAre
<1>2. n \in S /\ S \in SUBSET Nodes
  OBVIOUS
<1>3. \A k \in S : Neighbours[k] \subseteq S
  BY NeighboursAre
<1>4. Within(n, Neighbours) \subseteq S
  <2> HIDE DEF S
  <2> QED BY <1>1, <1>2, <1>3, WithinIs
<1> QED BY <1>4

\* In both directions the search goes to all neighbours.
LEMMA BeyondAll ==
  ASSUME GraphInv, RemoteNodeKnown, NEW m \in Nodes, Alive(m)
  PROVE  Beyond(WaysOf({"inputs", "outputs"}), m) = Neighbours[m]
<1> DEFINE all == {"inputs", "outputs"}
           B == {x \in Nodes : \E e \in Edges :
                   \/ InputOf(all, m, e) /\ plugs[e].remote = x /\ sockets[x].node
                   \/ OutputOf(all, m, e) /\ NodeOf(e) = x}
<1>1. Beyond(WaysOf(all), m) = B
  BY BeyondIs
<1>2. ASSUME NEW x \in Nodes, NEW e \in Edges
      PROVE  /\ InputOf(all, m, e) /\ plugs[e].remote = x /\ sockets[x].node <=>
                  NodeOf(e) = m /\ plugs[e].remote = x /\ Alive(x)
             /\ OutputOf(all, m, e) <=> plugs[e].remote = m
  <2>1. NodeOf(e) = m /\ plugs[e].remote = x => Connected(e)
    BY FilterAssumption DEF Connected
  <2>2. "inputs" \in all /\ "outputs" \in all
    OBVIOUS
  <2>3. plugs[e].remote = m => sockets[m].slot
    BY GraphFacts
  <2>4. plugs[e].remote = x => (sockets[x].node => Alive(x))
    BY GraphFacts
  <2>5. plugs[e].remote = x /\ Alive(x) => sockets[x].node
    BY <2>1, FilterAssumption DEF RemoteNodeKnown, Connected
  <2> HIDE DEF all
  <2> QED BY <2>1, <2>2, <2>3, <2>4, <2>5 DEF InputOf, OutputOf
<1> HIDE DEF all
<1>3. ASSUME NEW x \in Nodes
      PROVE  x \in B <=> x \in Neighbours[m]
  <2>1. x \in B <=> \E e \in Edges : \/ NodeOf(e) = m /\ plugs[e].remote = x /\ Alive(x)
                                     \/ plugs[e].remote = m /\ NodeOf(e) = x
    BY <1>2
  <2>2. x \in Consumers[m] <=> \E e \in Edges : plugs[e].remote = m /\ NodeOf(e) = x
    BY ConsumersAre
  <2>3. m \in Consumers[x] <=> \E e \in Edges : plugs[e].remote = x /\ NodeOf(e) = m
    BY ConsumersAre
  <2>4. x \in Neighbours[m] <=> x \in Consumers[m] \/ (Alive(x) /\ m \in Consumers[x])
    BY NeighboursAre
  <2> HIDE DEF B
  <2> QED BY <2>1, <2>2, <2>3, <2>4
<1>4. Neighbours[m] \subseteq Nodes /\ B \subseteq Nodes
  BY NeighboursAre
<1>5. B = Neighbours[m]
  <2> HIDE DEF B
  <2> QED BY <1>3, <1>4
<1> QED BY <1>1, <1>5 DEF all

LEMMA GoodGraphComplete ==
  ASSUME GraphInv
  PROVE  GraphComplete
<1> DEFINE all == {"inputs", "outputs"}
<1>1. SUFFICES ASSUME RemoteNodeKnown, NEW n \in Nodes, Alive(n)
               PROVE  LET list == Adjacency(n, all)
                          part == Within(n, Neighbours)
                      IN  /\ ToSet(list) = {e \in Edges : Connected(e) /\ NodeOf(e) \in part}
                          /\ IsInjective(list)
                          /\ list # << >> => GraphNodes(n, all) = part
  BY DEF GraphComplete
<1> DEFINE part == Within(n, Neighbours)
           found == GraphEdges(n, all)
           ends == GraphNodes(n, all)
<1>2. \A m \in Nodes : Neighbours[m] \subseteq Nodes
  BY NeighboursAre
<1>3. /\ part \subseteq Nodes /\ n \in part
      /\ \A k \in part : Neighbours[k] \subseteq part
      /\ \A S \in SUBSET Nodes : n \in S /\ (\A k \in S : Neighbours[k] \subseteq S) =>
           part \subseteq S
  BY <1>2, WithinIs
<1>4. \A m \in part : Alive(m)
  BY <1>1, PartLives
<1>5. \A m \in part : Beyond(WaysOf(all), m) = Neighbours[m]
  BY <1>1, <1>3, <1>4, BeyondAll
<1>6. /\ Adjacency(n, all) \in Seq(Edges) /\ OneEach(Adjacency(n, all))
      /\ found = {e \in Edges : \E m \in part : InputOf(all, m, e) \/ OutputOf(all, m, e)}
  <2> HIDE DEF all
  <2> QED BY <1>2, <1>5, SearchIs
<1>7. "inputs" \in all /\ "outputs" \in all
  OBVIOUS
<1>8. ends = {NodeOf(e) : e \in found} \cup
             {m \in Nodes : sockets[m].node /\ \E e \in found : plugs[e].remote = m}
  BY DEF GraphNodes
<1> HIDE DEF all, part, found, ends
\* An edge between two nodes that live connects them.
<1>9. ASSUME NEW e \in Edges, Connected(e)
      PROVE  LET m == plugs[e].remote
             IN  /\ m \in Nodes /\ NodeOf(e) \in Nodes
                 /\ NodeOf(e) \in Neighbours[m]
                 /\ (sockets[m].node <=> Alive(m))
                 /\ Alive(m) => m \in Neighbours[NodeOf(e)]
  <2> DEFINE m == plugs[e].remote
  <2>1. m \in Nodes /\ NodeOf(e) \in Nodes
    BY <1>9, GraphFacts
  <2>2. sockets[m].node <=> Alive(m)
    BY <1>1, <1>9, <2>1, GraphFacts DEF RemoteNodeKnown
  <2>3. NodeOf(e) \in Consumers[m]
    BY <2>1, ConsumersAre
  <2> QED BY <2>1, <2>2, <2>3, NeighboursAre
<1>10. found = {e \in Edges : Connected(e) /\ NodeOf(e) \in part}
  <2>1. ASSUME NEW e \in Edges, NEW m \in part, InputOf(all, m, e) \/ OutputOf(all, m, e)
        PROVE  Connected(e) /\ NodeOf(e) \in part
    <3>1. CASE InputOf(all, m, e)
      BY <3>1 DEF InputOf
    <3>2. CASE OutputOf(all, m, e)
      <4>1. plugs[e].remote = m /\ m \in Nodes
        BY <1>3, <3>2 DEF OutputOf
      <4>2. Connected(e)
        BY <4>1, FilterAssumption DEF Connected
      <4>3. NodeOf(e) \in Neighbours[m]
        BY <1>9, <4>1, <4>2
      <4> QED BY <1>3, <4>2, <4>3
    <3> QED BY <2>1, <3>1, <3>2
  <2>2. ASSUME NEW e \in Edges, Connected(e), NodeOf(e) \in part
        PROVE  InputOf(all, NodeOf(e), e)
    BY <1>7, <2>2 DEF InputOf
  <2> QED BY <1>6, <2>1, <2>2
<1>11. IsInjective(Adjacency(n, all))
  <2>1. DOMAIN Adjacency(n, all) = 1 .. Len(Adjacency(n, all))
    BY <1>6
  <2> QED BY <1>6, <2>1 DEF IsInjective, OneEach
\* The ends of a node's edges that live are its neighbours.
<1>12. ends \subseteq part
  <2>1. ASSUME NEW m \in Nodes, sockets[m].node, NEW e \in found, plugs[e].remote = m
        PROVE  m \in part
    <3>1. e \in Edges /\ Connected(e) /\ NodeOf(e) \in part
      BY <1>10
    <3>2. m \in Neighbours[NodeOf(e)]
      BY <1>9, <2>1, <3>1
    <3> QED BY <1>3, <3>1, <3>2
  <2> QED BY <1>8, <1>10, <2>1
<1>13. ASSUME NEW k \in part, NEW m \in Neighbours[k] PROVE k \in ends /\ m \in ends
  <2>1. k \in Nodes /\ m \in part /\ m \in Nodes /\ Alive(k) /\ Alive(m)
    BY <1>3, <1>4
  <2>2. m \in Consumers[k] \/ k \in Consumers[m]
    BY <2>1, NeighboursAre
  <2>3. ASSUME NEW x \in part, NEW y \in part, y \in Consumers[x] PROVE x \in ends /\ y \in ends
    <3>1. x \in Nodes /\ y \in Nodes /\ Alive(x)
      BY <1>3, <1>4
    <3>2. PICK e \in Edges : plugs[e].remote = x /\ y = NodeOf(e)
      BY <2>3, <3>1, ConsumersAre
    <3>3. Connected(e)
      BY <3>1, <3>2, FilterAssumption DEF Connected
    <3>4. e \in found /\ sockets[x].node
      BY <1>9, <1>10, <2>3, <3>1, <3>2, <3>3
    <3> QED BY <1>8, <3>1, <3>2, <3>4
  <2> QED BY <2>1, <2>2, <2>3
<1>14. ASSUME found # {} PROVE part \subseteq ends
  <2>1. n \in ends
    <3>1. CASE Neighbours[n] # {}
      BY <1>3, <1>13, <3>1
    <3>2. CASE Neighbours[n] = {}
      <4>1. part \subseteq {n}
        <5>1. {n} \in SUBSET Nodes
          BY <1>1
        <5> QED BY <1>3, <3>2, <5>1
      <4>2. PICK e \in found : TRUE
        BY <1>14
      <4>3. NodeOf(e) = n
        BY <1>10, <4>1
      <4> QED BY <1>8, <4>3
    <3> QED BY <3>1, <3>2
  <2> DEFINE S == part \cap ends
  <2>2. S \in SUBSET Nodes /\ n \in S
    BY <1>3, <2>1
  <2>3. \A k \in S : Neighbours[k] \subseteq S
    BY <1>3, <1>13
  <2> HIDE DEF S
  <2>4. part \subseteq S
    BY <1>3, <2>2, <2>3
  <2> QED BY <2>4 DEF S
<1>15. /\ ToSet(Adjacency(n, all)) = found
       /\ Adjacency(n, all) # << >> => found # {}
  <2>1. ToSet(Adjacency(n, all)) = found
    BY DEF GraphEdges, found
  <2> QED BY <1>6, <2>1, NothingListed
<1> HIDE DEF all
<1>16. ASSUME Adjacency(n, all) # << >> PROVE ends = part
  BY <1>12, <1>14, <1>15, <1>16
<1> QED BY <1>10, <1>11, <1>15, <1>16 DEF part, ends

-----------------------------------------------------------------------------
(* The nodes that a signal reaches.                                           *)

LEMMA ConsumersInNodes ==
  ASSUME GraphInv
  PROVE  \A m \in Nodes : Consumers[m] \subseteq Nodes
BY ConsumersLive

LEMMA OutputsLive ==
  ASSUME GraphInv, NEW n \in Nodes, Alive(n)
  PROVE  \A m \in Within(n, Consumers) : m \in Nodes /\ Alive(m)
<1> DEFINE S == {m \in Nodes : Alive(m)}
<1>1. n \in S /\ S \in SUBSET Nodes
  OBVIOUS
<1>2. \A k \in S : Consumers[k] \subseteq S
  BY ConsumersLive
<1>3. Within(n, Consumers) \subseteq S
  <2> HIDE DEF S
  <2> QED BY <1>1, <1>2, ConsumersInNodes, WithinIs
<1> QED BY <1>3

\* Towards the outputs the search goes to the nodes that use a node's data.
LEMMA BeyondOutputs ==
  ASSUME GraphInv, NEW m \in Nodes, Alive(m)
  PROVE  Beyond(WaysOf({"outputs"}), m) = Consumers[m]
<1> DEFINE out == {"outputs"}
           B == {x \in Nodes : \E e \in Edges :
                   \/ InputOf(out, m, e) /\ plugs[e].remote = x /\ sockets[x].node
                   \/ OutputOf(out, m, e) /\ NodeOf(e) = x}
<1>1. Beyond(WaysOf(out), m) = B
  BY BeyondIs
<1>2. "outputs" \in out /\ "inputs" \notin out
  OBVIOUS
<1> HIDE DEF out
<1>3. ASSUME NEW e \in Edges
      PROVE  ~ InputOf(out, m, e) /\ (OutputOf(out, m, e) <=> plugs[e].remote = m)
  BY <1>2, GraphFacts DEF InputOf, OutputOf
<1>4. \A x \in Nodes : x \in B <=> \E e \in Edges : plugs[e].remote = m /\ NodeOf(e) = x
  BY <1>3
<1>5. \A x : x \in Consumers[m] <=> \E e \in Edges : plugs[e].remote = m /\ NodeOf(e) = x
  BY ConsumersAre
<1>6. Consumers[m] \subseteq Nodes /\ B \subseteq Nodes
  BY ConsumersInNodes
<1>7. B = Consumers[m]
  <2> HIDE DEF B
  <2> QED BY <1>4, <1>5, <1>6
<1> QED BY <1>1, <1>7 DEF out

\* With the node where it begins, the search finds all that depend on it.
LEMMA SearchOutputs ==
  ASSUME GraphInv, NEW n \in Nodes, Alive(n)
  PROVE  {n} \cup GraphNodes(n, {"outputs"}) = Within(n, Consumers)
<1> DEFINE out == {"outputs"}
           part == Within(n, Consumers)
           found == GraphEdges(n, out)
           ends == GraphNodes(n, out)
<1>1. \A m \in Nodes : Consumers[m] \subseteq Nodes
  BY ConsumersInNodes
<1>2. /\ part \subseteq Nodes /\ n \in part
      /\ \A k \in part : Consumers[k] \subseteq part
      /\ \A S \in SUBSET Nodes : n \in S /\ (\A k \in S : Consumers[k] \subseteq S) =>
           part \subseteq S
  BY <1>1, WithinIs
<1>3. \A m \in part : m \in Nodes /\ Alive(m)
  BY OutputsLive
<1>4. \A m \in part : Beyond(WaysOf(out), m) = Consumers[m]
  BY <1>3, BeyondOutputs
<1>5. found = {e \in Edges : \E m \in part : InputOf(out, m, e) \/ OutputOf(out, m, e)}
  <2> HIDE DEF out
  <2> QED BY <1>1, <1>4, SearchIs
<1>6. "outputs" \in out /\ "inputs" \notin out
  OBVIOUS
<1>7. ends = {NodeOf(e) : e \in found} \cup
             {m \in Nodes : sockets[m].node /\ \E e \in found : plugs[e].remote = m}
  BY DEF GraphNodes
<1> HIDE DEF out, part, found, ends
<1>8. ASSUME NEW m \in part, NEW e \in Edges
      PROVE  ~ InputOf(out, m, e) /\ (OutputOf(out, m, e) <=> plugs[e].remote = m)
  BY <1>3, <1>6, GraphFacts DEF InputOf, OutputOf
<1>9. found = {e \in Edges : plugs[e].remote \in part}
  BY <1>5, <1>8
<1>10. ASSUME NEW e \in found PROVE NodeOf(e) \in part
  <2>1. e \in Edges /\ plugs[e].remote \in part /\ plugs[e].remote \in Nodes
    BY <1>3, <1>9
  <2>2. NodeOf(e) \in Consumers[plugs[e].remote]
    BY <2>1, ConsumersAre
  <2> QED BY <1>2, <2>1, <2>2
<1>11. {n} \cup ends \subseteq part
  BY <1>2, <1>7, <1>9, <1>10
<1>12. part \subseteq {n} \cup ends
  <2> DEFINE S == part \cap ({n} \cup ends)
  <2>1. n \in S /\ S \in SUBSET Nodes
    BY <1>2
  <2>2. ASSUME NEW k \in S, NEW m \in Consumers[k] PROVE m \in S
    <3>1. k \in part /\ k \in Nodes /\ m \in part
      BY <1>2, <1>3
    <3>2. PICK e \in Edges : plugs[e].remote = k /\ m = NodeOf(e)
      BY <3>1, ConsumersAre
    <3>3. e \in found
      BY <1>9, <3>1, <3>2
    <3> QED BY <1>7, <3>1, <3>2, <3>3
  <2> HIDE DEF S
  <2>3. part \subseteq S
    BY <1>2, <2>1, <2>2
  <2> QED BY <2>3 DEF S
<1> QED BY <1>11, <1>12 DEF out, part, ends

LEMMA GoodSignals ==
  ASSUME GraphInv
  PROVE  SignalsReachOutputs
<1>1. SUFFICES ASSUME NEW n \in Nodes, Alive(n)
               PROVE  SignalToGraph(n) \cup {n} = Within(n, Consumers)
  BY DEF SignalsReachOutputs
<1> DEFINE part == Within(n, Consumers)
           there == SignalToGraph(n) \cup {n}
           Reach(k) == {k} \cup GraphNodes(k, {"outputs"})
<1>2. \A m \in Nodes : Consumers[m] \subseteq Nodes
  BY ConsumersInNodes
<1>3. /\ part \subseteq Nodes /\ n \in part
      /\ \A k \in part : Consumers[k] \subseteq part
      /\ \A S \in SUBSET Nodes : n \in S /\ (\A k \in S : Consumers[k] \subseteq S) =>
           part \subseteq S
  BY <1>1, <1>2, WithinIs
<1>4. ASSUME NEW k \in Consumers[n]
      PROVE  /\ k \in Nodes /\ k \in Reach(k)
             /\ \A m \in Reach(k) : Consumers[m] \subseteq Reach(k)
             /\ \A S \in SUBSET Nodes : k \in S /\ (\A m \in S : Consumers[m] \subseteq S) =>
                  Reach(k) \subseteq S
  <2>1. k \in Nodes /\ Alive(k)
    BY <1>1, ConsumersLive
  <2>2. Reach(k) = Within(k, Consumers)
    BY <2>1, SearchOutputs
  <2> HIDE DEF Reach
  <2> QED BY <1>2, <2>1, <2>2, WithinIs
<1>5. ASSUME NEW m
      PROVE  m \in there <=> m = n \/ \E k \in Consumers[n] : m \in Reach(k)
  <2>1. \A e \in ToSet(sockets[n].plugs) : e \in Edges
    BY <1>1, GraphFacts, ToSetIs
  <2>2. \A e \in Edges : e \in ToSet(sockets[n].plugs) <=> plugs[e].remote = n
    BY <1>1, GraphFacts
  <2>3. m \in there <=> m = n \/ \E e \in ToSet(sockets[n].plugs) :
                                   m \in {NodeOf(e)} \cup GraphNodes(NodeOf(e), {"outputs"})
    BY DEF SignalToGraph
  <2>4. (\E e \in ToSet(sockets[n].plugs) :
           m \in {NodeOf(e)} \cup GraphNodes(NodeOf(e), {"outputs"})) <=>
        \E e \in Edges : plugs[e].remote = n /\ m \in Reach(NodeOf(e))
    BY <2>1, <2>2
  <2>5. (\E e \in Edges : plugs[e].remote = n /\ m \in Reach(NodeOf(e))) <=>
        \E k \in Consumers[n] : m \in Reach(k)
    <3> HIDE DEF Reach
    <3> QED BY <1>1, ConsumersAre
  <2> HIDE DEF there, Reach
  <2> QED BY <2>3, <2>4, <2>5
<1> HIDE DEF part, there, Reach
<1>6. there \subseteq part
  <2>1. ASSUME NEW k \in Consumers[n] PROVE Reach(k) \subseteq part
    BY <1>3, <1>4
  <2> QED BY <1>3, <1>5, <2>1
<1>7. part \subseteq there
  <2> DEFINE S == part \cap there
  <2>1. n \in S /\ S \in SUBSET Nodes
    BY <1>3, <1>5
  <2>2. ASSUME NEW m \in S PROVE Consumers[m] \subseteq there
    <3>1. CASE m = n
      BY <1>4, <1>5, <3>1
    <3>2. CASE \E k \in Consumers[n] : m \in Reach(k)
      BY <1>4, <1>5, <3>2
    <3> QED BY <1>5, <3>1, <3>2
  <2>3. \A m \in S : Consumers[m] \subseteq S
    BY <1>3, <2>2
  <2> HIDE DEF S
  <2>4. part \subseteq S
    BY <1>3, <2>1, <2>3
  <2> QED BY <2>4 DEF S
<1> QED BY <1>6, <1>7 DEF part, there

-----------------------------------------------------------------------------
(* The bound of the searches is no restriction: the calls of the code end.    *)

\* Two searches find the same with lists to which at most d edges can be added.
Agree(u, v, d) ==
  \A n \in Nodes, l \in Seq(Edges) :
    OneEach(l) /\ Len(l) + d >= Cardinality(Edges) => u[<<n, l>>] = v[<<n, l>>]

\* The call of the code that ends with its list l, or a longer one.
CallsItself(visit, dirs) ==
  \A n \in Nodes, l \in Seq(Edges) :
    OneEach(l) => visit[<<n, l>>] = Tried(l, Ways(n, dirs), visit)

\* A list that has all edges stays as it is.
LEMMA TriedAll ==
  ASSUME NEW l \in Seq(Edges), ToSet(l) = Edges,
         NEW ways \in Seq(WayRecords), NEW visit \in Searches
  PROVE  Tried(l, ways, visit) = l
<1>1. PICK f : /\ f \in [0 .. Len(ways) -> Seq(Edges)]
               /\ f = [k \in 0 .. Len(ways) |-> TryWay(l, ways, visit, f, k)]
               /\ Tried(l, ways, visit) = f[Len(ways)]
  BY TriedIs
<1> DEFINE p == Len(ways)
           S == {k \in 0 .. p : f[k] = l}
<1>2. p \in Nat /\ \A k \in 1 .. p : ways[k] \in WayRecords
  BY ElementOfSeq
<1>3. 0 \in S
  BY <1>1, <1>2 DEF TryWay
<1>4. ASSUME NEW k \in S, k \in 0 .. p - 1 PROVE k + 1 \in S
  <2>1. k + 1 \in 1 .. p /\ k + 1 \in 0 .. p /\ (k + 1) - 1 = k /\ k + 1 # 0
    BY <1>2, <1>4
  <2>2. f[k + 1] = IF ways[k + 1].leads THEN AddEdge(f[k], ways[k + 1], visit) ELSE f[k]
    <3>1. f[k + 1] = TryWay(l, ways, visit, f, k + 1)
      BY <1>1, <2>1
    <3> QED BY <2>1, <3>1 DEF TryWay
  <2>3. ways[k + 1].edge \in ToSet(l)
    BY <1>2, <2>1 DEF WayRecords
  <2>4. f[k] = l
    BY <1>4
  <2>5. f[k + 1] = l
    BY <2>2, <2>3, <2>4 DEF AddEdge
  <2> QED BY <2>1, <2>5
<1>5. p \in S
  <2>1. 0 .. p \subseteq S
    <3> HIDE DEF S, p
    <3> QED BY <1>2, <1>3, <1>4, BoundedInduction
  <2> HIDE DEF S
  <2> QED BY <1>2, <2>1
<1> QED BY <1>1, <1>5

\* The ways of a node are tried alike with two searches that agree beyond it.
LEMMA TriedAlike ==
  ASSUME NEW W \in [Nodes -> Seq(WayRecords)], TwoWays(W),
         NEW d \in Nat, NEW u \in Searches, NEW v \in Searches,
         Thorough(W, d, u), Agree(u, v, d),
         NEW n \in Nodes, NEW l \in Seq(Edges), OneEach(l),
         NEW c \in Int, c = Cardinality(Edges), Len(l) + d + 1 >= c
  PROVE  Tried(l, W[n], u) = Tried(l, W[n], v)
<1>1. W[n] \in Seq(WayRecords)
  OBVIOUS
<1>2. PICK f : /\ f \in [0 .. Len(W[n]) -> Seq(Edges)]
               /\ f = [k \in 0 .. Len(W[n]) |-> TryWay(l, W[n], u, f, k)]
               /\ Tried(l, W[n], u) = f[Len(W[n])]
  BY <1>1, TriedIs
<1>3. PICK g : /\ g \in [0 .. Len(W[n]) -> Seq(Edges)]
               /\ g = [k \in 0 .. Len(W[n]) |-> TryWay(l, W[n], v, g, k)]
               /\ Tried(l, W[n], v) = g[Len(W[n])]
  BY <1>1, TriedIs
<1> DEFINE p == Len(W[n])
           S == {k \in 0 .. p : Grown(W, n, l, f[k]) /\ g[k] = f[k]}
<1>4. p \in Nat /\ \A k \in 1 .. p : W[n][k] \in WayRecords
  BY <1>1, ElementOfSeq
<1>5. 0 \in S
  <2>1. f[0] = l /\ g[0] = l
    BY <1>2, <1>3, <1>4 DEF TryWay
  <2>2. Grown(W, n, l, l)
    <3>1. Len(l) \in Nat
      OBVIOUS
    <3> QED BY <3>1 DEF Grown
  <2> QED BY <1>4, <2>1, <2>2
<1>6. ASSUME NEW k \in S, k \in 0 .. p - 1 PROVE k + 1 \in S
  <2> DEFINE w == W[n][k + 1]
             m == f[k]
  <2>1. k + 1 \in 1 .. p /\ k + 1 \in 0 .. p /\ (k + 1) - 1 = k /\ k + 1 # 0
    BY <1>4, <1>6
  <2>2. f[k + 1] = IF w.leads THEN AddEdge(m, w, u) ELSE m
    <3>1. f[k + 1] = TryWay(l, W[n], u, f, k + 1)
      BY <1>2, <2>1
    <3> QED BY <2>1, <3>1 DEF TryWay
  <2>3. g[k + 1] = IF w.leads THEN AddEdge(m, w, v) ELSE m
    <3>1. g[k + 1] = TryWay(l, W[n], v, g, k + 1)
      BY <1>3, <2>1
    <3>2. g[k] = m
      BY <1>6
    <3> QED BY <2>1, <3>1, <3>2 DEF TryWay
  <2>4. Grown(W, n, l, m)
    BY <1>6
  <2>5. w \in WayRecords
    BY <1>4, <2>1
  <2> HIDE DEF w, m
  <2>6. AddEdge(m, w, u) = AddEdge(m, w, v)
    <3> DEFINE a == Append(m, w.edge)
    <3>1. w.edge \in Edges /\ (w.known => w.beyond \in Nodes)
      BY <2>5 DEF WayRecords
    <3>2. m \in Seq(Edges) /\ OneEach(m) /\ Len(l) <= Len(m)
      BY <2>4 DEF Grown
    <3>3. CASE w.edge \notin ToSet(m) /\ w.known
      <4>1. a \in Seq(Edges) /\ OneEach(a) /\ Len(a) = Len(m) + 1 /\ Len(m) \in Nat
        BY <3>1, <3>2, <3>3, AppendProperty
      <4> HIDE DEF a
      <4>2. Len(a) + d >= c
        <5>1. Len(l) \in Nat
          OBVIOUS
        <5> QED BY <3>2, <4>1, <5>1
      <4>3. u[<<w.beyond, a>>] = v[<<w.beyond, a>>]
        BY <3>1, <3>3, <4>1, <4>2 DEF Agree
      <4> QED BY <3>3, <4>3 DEF AddEdge, a
    <3>4. CASE ~ (w.edge \notin ToSet(m) /\ w.known)
      BY <3>4 DEF AddEdge
    <3> QED BY <3>3, <3>4
  <2>7. Grown(W, n, l, f[k + 1])
    <3>1. CASE w.leads
      <4>1. k + 1 \in Leading(W, n)
        BY <2>1, <3>1 DEF Leading, w
      <4>2. Len(l) + d + 1 >= Cardinality(Edges)
        OBVIOUS
      <4>3. Grown(W, n, l, AddEdge(m, W[n][k + 1], u))
        BY <2>4, <4>1, <4>2, AddEdgeGrows
      <4> QED BY <2>2, <3>1, <4>3 DEF w
    <3>2. CASE ~ w.leads
      BY <2>2, <2>4, <3>2
    <3> QED BY <3>1, <3>2
  <2> QED BY <2>1, <2>2, <2>3, <2>6, <2>7
<1>7. p \in S
  <2>1. 0 .. p \subseteq S
    <3> HIDE DEF S, p
    <3> QED BY <1>4, <1>5, <1>6, BoundedInduction
  <2> HIDE DEF S
  <2> QED BY <1>4, <2>1
<1> QED BY <1>2, <1>3, <1>7

\* There is one search that calls itself without a bound, and it is what Adjacency() makes.
LEMMA SearchCallsItself ==
  ASSUME GraphInv, NEW dirs
  PROVE  /\ \E visit \in Searches : CallsItself(visit, dirs)
         /\ \A visit \in Searches :
              CallsItself(visit, dirs) =>
                \A n \in Nodes : Adjacency(n, dirs) = visit[<<n, << >>>>]
<1> DEFINE W == WaysOf(dirs)
           c == Cardinality(Edges)
<1>1. W \in [Nodes -> Seq(WayRecords)] /\ \A m \in Nodes : W[m] = Ways(m, dirs)
  BY LeadingIs
<1>2. TwoWays(W) /\ IsFiniteSet(Edges) /\ c \in Nat
  BY EdgesLeadBack, EdgesFinite, FS_CardinalityType
<1> HIDE DEF W, c
<1>3. c = Cardinality(Edges)
  BY DEF c
<1>4. PICK f : AreSearches(f, c, W, dirs)
  BY <1>1, <1>2, <1>3, AdjacencyIs
<1>5. /\ \A d \in 0 .. c : f[d] \in Searches
      /\ \A m \in Nodes, l \in Seq(Edges) :
           /\ f[0][<<m, l>>] = l
           /\ \A d \in 1 .. c : f[d][<<m, l>>] = Tried(l, W[m], f[d - 1])
      /\ \A m \in Nodes : Adjacency(m, dirs) = f[c][<<m, << >>>>]
  BY <1>4 DEF AreSearches
<1>6. \A d \in 0 .. c : Thorough(W, d, f[d])
  BY <1>1, <1>2, <1>3, <1>4, SearchesThorough
<1>7. ASSUME NEW l \in Seq(Edges), OneEach(l), Len(l) >= c, NEW n \in Nodes, NEW v \in Searches
      PROVE  Tried(l, W[n], v) = l
  <2>1. ToSet(l) = Edges
    BY <1>2, <1>3, <1>7, AllListed
  <2>2. W[n] \in Seq(WayRecords)
    BY <1>1
  <2> QED BY <2>1, <2>2, TriedAll
\* A level more makes no difference where the one below has enough of them.
<1> DEFINE S == {d \in Nat : d < c => Agree(f[d], f[d + 1], d)}
<1>8. 0 \in S
  <2> SUFFICES ASSUME 0 < c, NEW n \in Nodes, NEW l \in Seq(Edges), OneEach(l),
                      Len(l) + 0 >= Cardinality(Edges)
               PROVE  f[0][<<n, l>>] = f[0 + 1][<<n, l>>]
    BY DEF Agree
  <2>1. Len(l) >= c /\ 1 \in 1 .. c /\ 0 \in 0 .. c
    BY <1>2, <1>3
  <2>2. f[1][<<n, l>>] = Tried(l, W[n], f[0])
    <3>1. f[1][<<n, l>>] = Tried(l, W[n], f[1 - 1])
      BY <1>5, <2>1
    <3> QED BY <3>1
  <2>3. Tried(l, W[n], f[0]) = l
    BY <1>5, <1>7, <2>1
  <2> QED BY <1>5, <2>2, <2>3
<1>9. ASSUME NEW d \in S PROVE d + 1 \in S
  <2> SUFFICES ASSUME d + 1 < c, NEW n \in Nodes, NEW l \in Seq(Edges), OneEach(l),
                      Len(l) + (d + 1) >= Cardinality(Edges)
               PROVE  f[d + 1][<<n, l>>] = f[d + 1 + 1][<<n, l>>]
    BY DEF Agree
  <2>1. /\ d \in Nat /\ d \in 0 .. c /\ d + 1 \in 0 .. c /\ d + 1 \in 1 .. c
        /\ d + 1 + 1 \in 1 .. c /\ (d + 1) - 1 = d /\ (d + 1 + 1) - 1 = d + 1
        /\ Len(l) + d + 1 >= c
    BY <1>2, <1>3
  <2>2. Agree(f[d], f[d + 1], d)
    BY <1>2, <1>9, <2>1
  <2>3. f[d + 1][<<n, l>>] = Tried(l, W[n], f[d])
    <3>1. f[d + 1][<<n, l>>] = Tried(l, W[n], f[(d + 1) - 1])
      BY <1>5, <2>1
    <3> QED BY <2>1, <3>1
  <2>4. f[d + 1 + 1][<<n, l>>] = Tried(l, W[n], f[d + 1])
    <3>1. f[d + 1 + 1][<<n, l>>] = Tried(l, W[n], f[(d + 1 + 1) - 1])
      BY <1>5, <2>1
    <3> QED BY <2>1, <3>1
  <2>5. Tried(l, W[n], f[d]) = Tried(l, W[n], f[d + 1])
    <3>1. f[d] \in Searches /\ f[d + 1] \in Searches /\ c \in Int
      <4>1. \A k \in 0 .. c : f[k] \in Searches
        BY <1>5
      <4>2. d \in 0 .. c /\ d + 1 \in 0 .. c
        BY <2>1
      <4> QED BY <1>2, <4>1, <4>2
    <3>2. Thorough(W, d, f[d])
      BY <1>6, <2>1
    <3> QED BY <1>1, <1>2, <1>3, <2>1, <2>2, <3>1, <3>2, TriedAlike
  <2> QED BY <2>3, <2>4, <2>5
<1>10. S = Nat
  <2>1. S \in SUBSET Nat
    OBVIOUS
  <2> HIDE DEF S
  <2> QED BY <1>8, <1>9, <2>1, SetInduction
<1> DEFINE v == f[c]
<1>11. v \in Searches
  BY <1>2, <1>5
<1>12. ASSUME NEW n \in Nodes, NEW l \in Seq(Edges), OneEach(l)
       PROVE  v[<<n, l>>] = Tried(l, Ways(n, dirs), v)
  <2>1. Len(l) \in Nat /\ W[n] = Ways(n, dirs)
    BY <1>1
  <2>2. CASE c = 0
    <3>1. Tried(l, W[n], v) = l
      BY <1>7, <1>11, <1>12, <2>1, <2>2
    <3>2. v[<<n, l>>] = l
      BY <1>5, <2>2
    <3> QED BY <2>1, <3>1, <3>2
  <2>3. CASE c # 0
    <3> DEFINE d == c - 1
    <3>1. d \in Nat /\ d < c /\ d + 1 = c /\ d \in 0 .. c /\ c \in 1 .. c
      BY <1>2, <2>3
    <3> HIDE DEF d
    <3>2. Agree(f[d], v, d)
      <4>1. d \in S
        BY <1>10, <3>1
      <4> QED BY <3>1, <4>1
    <3>3. v[<<n, l>>] = Tried(l, W[n], f[d])
      <4>1. v[<<n, l>>] = Tried(l, W[n], f[c - 1])
        BY <1>5, <3>1
      <4> QED BY <4>1 DEF d
    <3>4. Tried(l, W[n], f[d]) = Tried(l, W[n], v)
      <4>1. Thorough(W, d, f[d]) /\ f[d] \in Searches /\ c \in Int /\ Len(l) + d + 1 >= c
        BY <1>2, <1>5, <1>6, <2>1, <3>1
      <4> HIDE DEF v
      <4> QED BY <1>1, <1>2, <1>3, <1>11, <1>12, <3>1, <3>2, <4>1, TriedAlike
    <3> QED BY <2>1, <3>3, <3>4
  <2> QED BY <2>2, <2>3
<1> HIDE DEF v
<1>13. CallsItself(v, dirs)
  BY <1>12 DEF CallsItself
\* Any other one agrees with all levels.
<1>14. ASSUME NEW u \in Searches, CallsItself(u, dirs), NEW n \in Nodes
       PROVE  Adjacency(n, dirs) = u[<<n, << >>>>]
  <2> DEFINE T == {d \in Nat : d <= c => Agree(f[d], u, d)}
  <2>1. \A m \in Nodes, l \in Seq(Edges) : OneEach(l) => u[<<m, l>>] = Tried(l, W[m], u)
    BY <1>1, <1>14 DEF CallsItself
  <2>2. 0 \in T
    <3> SUFFICES ASSUME NEW m \in Nodes, NEW l \in Seq(Edges), OneEach(l),
                        Len(l) + 0 >= Cardinality(Edges)
                 PROVE  f[0][<<m, l>>] = u[<<m, l>>]
      BY DEF Agree
    <3>1. Len(l) >= c
      BY <1>2, <1>3
    <3>2. Tried(l, W[m], u) = l
      BY <1>7, <1>14, <3>1
    <3> QED BY <1>5, <2>1, <3>2
  <2>3. ASSUME NEW d \in T PROVE d + 1 \in T
    <3> SUFFICES ASSUME d + 1 <= c, NEW m \in Nodes, NEW l \in Seq(Edges), OneEach(l),
                        Len(l) + (d + 1) >= Cardinality(Edges)
                 PROVE  f[d + 1][<<m, l>>] = u[<<m, l>>]
      BY DEF Agree
    <3>1. /\ d \in Nat /\ d \in 0 .. c /\ d + 1 \in 1 .. c /\ (d + 1) - 1 = d
          /\ Len(l) + d + 1 >= c
      BY <1>2, <1>3
    <3>2. Agree(f[d], u, d)
      BY <1>2, <2>3, <3>1
    <3>3. f[d + 1][<<m, l>>] = Tried(l, W[m], f[d])
      <4>1. f[d + 1][<<m, l>>] = Tried(l, W[m], f[(d + 1) - 1])
        BY <1>5, <3>1
      <4> QED BY <3>1, <4>1
    <3>4. Tried(l, W[m], f[d]) = Tried(l, W[m], u)
      <4>1. Thorough(W, d, f[d]) /\ f[d] \in Searches /\ c \in Int
        BY <1>2, <1>5, <1>6, <3>1
      <4> QED BY <1>1, <1>2, <1>3, <1>14, <3>1, <3>2, <4>1, TriedAlike
    <3> QED BY <2>1, <3>3, <3>4
  <2>4. T = Nat
    <3>1. T \in SUBSET Nat
      OBVIOUS
    <3> HIDE DEF T
    <3> QED BY <2>2, <2>3, <3>1, SetInduction
  <2>5. Agree(f[c], u, c)
    <3>1. c \in T
      BY <1>2, <2>4
    <3> QED BY <1>2, <3>1
  <2>6. << >> \in Seq(Edges) /\ OneEach(<< >>) /\ Len(<< >>) = 0
    BY DEF OneEach
  <2>7. f[c][<<n, << >>>>] = u[<<n, << >>>>]
    <3>1. Len(<< >>) + c >= Cardinality(Edges)
      BY <1>2, <1>3, <2>6
    <3> QED BY <2>5, <2>6, <3>1 DEF Agree
  <2> QED BY <1>5, <2>7
<1> QED BY <1>11, <1>13, <1>14

-----------------------------------------------------------------------------
\* The inductive invariant of the graph: objects have their types, belong to living
\* nodes and have counted references, and each connection is known at its two ends
\* (sources/FilterNode, FilterPlug, FilterSocket).
THEOREM GraphInvariant == Spec => []GraphInv
<1>1. Init => GraphInv
  BY InitGood DEF Init
<1>2. GraphInv /\ [Next]_vars => GraphInv'
  BY NextGood
<1> QED BY <1>1, <1>2, PTL DEF Spec

\* A plug is in the list of the socket that it points to, once, and in no other,
\* whatever oyFilterNode_Connect(), oyFilterNode_Disconnect() and the destruction of
\* nodes do in whatever order.
THEOREM ConnectionsHaveTwoEnds == Spec => []EdgesHaveTwoEnds
<1>1. GraphInv => EdgesHaveTwoEnds
  BY GoodEnds
<1> QED BY <1>1, GraphInvariant, PTL

\* All references to plugs are counted, those that are lost included, also of plugs the
\* application asks for before they are connected: what oyFilterPlug_ConnectIntoSocket()
\* adds and the callbacks and a release signal subtract.
THEOREM PlugsCounted == Spec => []PlugsInv
<1>1. Init => PlugsInv
  BY InitGood DEF Init
<1>2. GraphInv /\ PlugsInv /\ [Next]_vars => PlugsInv'
  BY NextGood
<1> QED BY <1>1, <1>2, GraphInvariant, PTL DEF Spec

\* So nobody refers to a destroyed node, plug or socket: every holder's reference is in
\* the count that oyFilterNode_Release() and its likes compare.
THEOREM OwnersAreCounted == Spec => []OwnersCounted
<1>1. GraphInv /\ PlugsInv => OwnersCounted
  BY GoodOwners
<1> QED BY <1>1, GraphInvariant, PlugsCounted, PTL

\* And the cycles of references leave nothing behind when a node is destroyed, but for
\* the references that failed and repeated connections have lost.
THEOREM NodesLeaveNothing == Spec => []GoneWithNode
<1>1. GraphInv /\ PlugsInv => GoneWithNode
  BY GoodRest
<1> QED BY <1>1, GraphInvariant, PlugsCounted, PTL

\* The searches of the model have a bound for the calls inside each other.  There is a
\* search that calls itself without one, as oyFilterNode_AddToAdjacencyLst_() does, and
\* each such search finds what the model's finds: the bound cuts nothing off, in any
\* graph, with whatever cycles.
THEOREM SearchesNeedNoBound ==
  Spec => [](\A dirs \in SUBSET {"inputs", "outputs"} :
               /\ \E visit \in Searches : CallsItself(visit, dirs)
               /\ \A visit \in Searches :
                    CallsItself(visit, dirs) =>
                      \A n \in Nodes : Adjacency(n, dirs) = visit[<<n, << >>>>])
<1>1. GraphInv => \A dirs \in SUBSET {"inputs", "outputs"} :
                    /\ \E visit \in Searches : CallsItself(visit, dirs)
                    /\ \A visit \in Searches :
                         CallsItself(visit, dirs) =>
                           \A n \in Nodes : Adjacency(n, dirs) = visit[<<n, << >>>>]
  BY SearchCallsItself
<1> QED BY <1>1, GraphInvariant, PTL

\* A graph object has every edge and every node of its part of the graph, once, whatever
\* cycles and shared sockets there are (oyFilterNode_AddToAdjacencyLst_()), while no
\* socket of the graph has forgotten its node.
THEOREM GraphsAreComplete == Spec => []GraphComplete
<1>1. GraphInv => GraphComplete
  BY GoodGraphComplete
<1> QED BY <1>1, GraphInvariant, PTL

\* A signal of a socket other than a release reaches all nodes that depend on it and no
\* others, without any assumption on what the sockets remember
\* (oyFilterSocket_SignalToGraph()).
THEOREM SignalsReachAllOutputs == Spec => []SignalsReachOutputs
<1>1. GraphInv => SignalsReachOutputs
  BY GoodSignals
<1> QED BY <1>1, GraphInvariant, PTL

=============================================================================
