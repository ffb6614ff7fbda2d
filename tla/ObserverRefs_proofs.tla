------------------------- MODULE ObserverRefs_proofs -------------------------
(***************************************************************************)
(* Theorems about module ObserverRefs, for any finite set of objects and   *)
(* any graph of observers, with cycles and with objects that observe       *)
(* themselves.                                                             *)
(***************************************************************************)
EXTENDS ObserverRefs, FiniteSetTheorems, TLAPS

Types == /\ alive \subseteq Objects
         /\ users \in [Objects -> Nat]
         /\ ref_ \in [Objects -> Int]
         /\ observers \in [Objects -> SUBSET Edges]
         /\ models \in [Objects -> SUBSET Edges]
         /\ handles \in [Objects -> SUBSET {"observers", "models"}]
         /\ held \subseteq Objects
         /\ defined \in BOOLEAN

\* The inductive invariant: the four properties need each other.  The count is
\* right because the lists mirror each other, the lists can be cleaned because
\* no entry leads to a destroyed object, and an object is destroyed with the
\* last reference of the program because the count is right.
RefsInv == Types /\ Mirror /\ RefsCounted /\ LivesWhileUsed /\ NoDangling

-----------------------------------------------------------------------------
(* Sets of edges and what they count.                                        *)

LEMMA EdgesFinite == \A S \in SUBSET Edges : IsFiniteSet(S) /\ Cardinality(S) \in Nat
<1> DEFINE T == (Objects \X Objects) \X Signals
           f == [e \in Edges |-> <<<<e.model, e.observer>>, e.signal>>]
<1>1. IsFiniteSet(T)
  BY RefsAssumption, FS_Product
<1>2. f \in Injection(Edges, T)
  BY DEF Edges, Injection, IsInjective
<1>3. IsFiniteSet(Edges)
  <2> HIDE DEF f, T
  <2> QED BY <1>1, <1>2, FS_Injection
<1> QED BY <1>3, FS_Subset, FS_CardinalityType

LEMMA EdgesSplit ==
  ASSUME NEW S \in SUBSET Edges, NEW T
  PROVE  /\ Cardinality(S) = Cardinality(S \ T) + Cardinality(S \cap T)
         /\ Cardinality(S \ T) \in Nat /\ Cardinality(S \cap T) \in Nat
<1>1. /\ S \ T \in SUBSET Edges /\ S \cap T \in SUBSET Edges
      /\ (S \ T) \cup (S \cap T) = S /\ (S \ T) \cap (S \cap T) = {}
  OBVIOUS
<1>2. /\ IsFiniteSet(S \ T) /\ IsFiniteSet(S \cap T)
      /\ Cardinality(S \ T) \in Nat /\ Cardinality(S \cap T) \in Nat
  BY <1>1, EdgesFinite
<1>3. Cardinality((S \ T) \cup (S \cap T)) =
        Cardinality(S \ T) + Cardinality(S \cap T) - Cardinality((S \ T) \cap (S \cap T))
  BY <1>2, FS_Union
<1>4. Cardinality((S \ T) \cap (S \cap T)) = 0
  BY <1>1, FS_EmptySet
<1> QED BY <1>1, <1>2, <1>3, <1>4

\* The entries in the lists M and O of an object.
Own(M, O) == Cardinality(M) + Cardinality(O)

\* An object counts all entries of its lists, as they are edges of its own.
LEMMA CountsOwn ==
  /\ Types /\ Mirror => \A x \in Objects : ObservationCount(x) = Own(models[x], observers[x])
  /\ Types' /\ Mirror' => \A x \in Objects : ObservationCount(x)' = Own(models'[x], observers'[x])
<1>1. ASSUME Types, Mirror, NEW x \in Objects
      PROVE  ObservationCount(x) = Own(models[x], observers[x])
  <2>1. /\ {e \in models[x] : e.observer = x} = models[x]
        /\ {e \in observers[x] : e.model = x} = observers[x]
    BY <1>1 DEF Mirror
  <2> QED BY <2>1 DEF ObservationCount, Own
<1>2. ASSUME Types', Mirror', NEW x \in Objects
      PROVE  ObservationCount(x)' = Own(models'[x], observers'[x])
  <2>1. /\ {e \in models'[x] : e.observer = x} = models'[x]
        /\ {e \in observers'[x] : e.model = x} = observers'[x]
    BY <1>2 DEF Mirror
  <2> QED BY <2>1 DEF ObservationCount, Own
<1> QED BY <1>1, <1>2

\* The edges of N at which x is one end.
AsModel(N, x)    == {e \in N : e.model = x}
AsObserver(N, x) == {e \in N : e.observer = x}

\* New entries for edges that are in neither list.
LEMMA Grows ==
  ASSUME NEW M \in SUBSET Edges, NEW O \in SUBSET Edges, NEW N \in SUBSET Edges, NEW x,
         \A e \in N : (e.observer = x => e \notin M) /\ (e.model = x => e \notin O)
  PROVE  /\ Own(M \cup AsObserver(N, x), O \cup AsModel(N, x))
              = Own(M, O) + Ends(N, x)
         /\ Own(M, O) \in Nat /\ Ends(N, x) \in Nat
<1> DEFINE NM == AsObserver(N, x)
           NO == AsModel(N, x)
<1>1. /\ NM \in SUBSET Edges /\ NO \in SUBSET Edges
      /\ M \cup NM \in SUBSET Edges /\ O \cup NO \in SUBSET Edges
      /\ (M \cup NM) \ NM = M /\ (M \cup NM) \cap NM = NM
      /\ (O \cup NO) \ NO = O /\ (O \cup NO) \cap NO = NO
  BY DEF AsModel, AsObserver
<1>2. Ends(N, x) = Cardinality(NO) + Cardinality(NM)
  BY DEF Ends, AsModel, AsObserver
<1> HIDE DEF NM, NO
<1>3. /\ Cardinality(M \cup NM) = Cardinality(M) + Cardinality(NM)
      /\ Cardinality(M) \in Nat /\ Cardinality(NM) \in Nat
  <2>1. Cardinality(M \cup NM) =
          Cardinality((M \cup NM) \ NM) + Cardinality((M \cup NM) \cap NM)
    BY <1>1, EdgesSplit
  <2>2. Cardinality(M) \in Nat /\ Cardinality(NM) \in Nat
    BY <1>1, EdgesFinite
  <2> QED BY <1>1, <2>1, <2>2
<1>4. /\ Cardinality(O \cup NO) = Cardinality(O) + Cardinality(NO)
      /\ Cardinality(O) \in Nat /\ Cardinality(NO) \in Nat
  <2>1. Cardinality(O \cup NO) =
          Cardinality((O \cup NO) \ NO) + Cardinality((O \cup NO) \cap NO)
    BY <1>1, EdgesSplit
  <2>2. Cardinality(O) \in Nat /\ Cardinality(NO) \in Nat
    BY <1>1, EdgesFinite
  <2> QED BY <1>1, <2>1, <2>2
<1>5. /\ Own(M \cup NM, O \cup NO) = Own(M, O) + Ends(N, x)
      /\ Own(M, O) \in Nat /\ Ends(N, x) \in Nat
  BY <1>2, <1>3, <1>4 DEF Own
<1> QED BY <1>5 DEF NM, NO

\* Entries for the edges of D2 leave the list M, those of D1 the list O.
LEMMA Shrinks ==
  ASSUME NEW M \in SUBSET Edges, NEW O \in SUBSET Edges, NEW D1, NEW D2
  PROVE  /\ Own(M, O) = Own(M \ D2, O \ D1) + Cardinality(M \cap D2) + Cardinality(O \cap D1)
         /\ Own(M \ D2, O \ D1) \in Nat
         /\ Cardinality(M \cap D2) \in Nat /\ Cardinality(O \cap D1) \in Nat
<1>1. /\ Cardinality(M) = Cardinality(M \ D2) + Cardinality(M \cap D2)
      /\ Cardinality(O) = Cardinality(O \ D1) + Cardinality(O \cap D1)
      /\ Cardinality(M \ D2) \in Nat /\ Cardinality(M \cap D2) \in Nat
      /\ Cardinality(O \ D1) \in Nat /\ Cardinality(O \cap D1) \in Nat
  BY EdgesSplit
<1> QED BY <1>1 DEF Own

LEMMA EndsNat == \A S \in SUBSET Edges : \A x : Ends(S, x) \in Nat
<1> SUFFICES ASSUME NEW S \in SUBSET Edges, NEW x PROVE Ends(S, x) \in Nat
  OBVIOUS
<1>1. {e \in S : e.model = x} \in SUBSET Edges /\ {e \in S : e.observer = x} \in SUBSET Edges
  OBVIOUS
<1>2. /\ Cardinality({e \in S : e.model = x}) \in Nat
      /\ Cardinality({e \in S : e.observer = x}) \in Nat
  BY <1>1, EdgesFinite
<1> QED BY <1>2 DEF Ends

-----------------------------------------------------------------------------
(* Steps.                                                                    *)

\* Edges between living objects come in; both lists miss the same ones.
LEMMA ConnectStep ==
  ASSUME RefsInv, defined, NEW E \in SUBSET Edges,
         \A e \in E : {e.model, e.observer} \subseteq alive,
         Connect(E), UNCHANGED <<alive, users, held, defined>>,
         handles' \in [Objects -> SUBSET {"observers", "models"}]
  PROVE  RefsInv'
<1> DEFINE N == {e \in E : e \notin observers[e.model]}
<1>0. Types /\ Mirror /\ RefsCounted /\ LivesWhileUsed /\ NoDangling
  BY DEF RefsInv
<1>1. N = {e \in E : e \notin models[e.observer]} /\ N \in SUBSET Edges
  BY <1>0 DEF Mirror
<1> HIDE DEF N
<1>2. /\ observers' = [x \in Objects |-> observers[x] \cup {e \in N : e.model = x}]
      /\ models' = [x \in Objects |-> models[x] \cup {e \in N : e.observer = x}]
      /\ ref_' = [x \in Objects |-> ref_[x] + Ends(N, x) + Ends(N, x)]
  BY <1>1 DEF Connect, N
<1>3. Types'
  <2>1. \A x \in Objects : ref_[x] + Ends(N, x) + Ends(N, x) \in Int
    BY <1>0, <1>1, EndsNat DEF Types
  <2>2. \A x \in Objects : /\ observers[x] \cup {e \in N : e.model = x} \in SUBSET Edges
                          /\ models[x] \cup {e \in N : e.observer = x} \in SUBSET Edges
    BY <1>0, <1>1 DEF Types
  <2> QED BY <1>0, <1>2, <2>1, <2>2 DEF Types
<1>4. Mirror'
  BY <1>0, <1>1, <1>2 DEF Mirror, Types, Edges
<1>5. RefsCounted'
  <2> SUFFICES ASSUME NEW x \in alive
               PROVE  ref_'[x] = users[x] + 2 * ObservationCount(x)'
    BY DEF RefsCounted
  <2>1. x \in Objects
    BY <1>0 DEF Types
  <2>2. \A e \in N : (e.observer = x => e \notin models[x]) /\ (e.model = x => e \notin observers[x])
    BY <1>1 DEF N
  <2>3. /\ Own(models'[x], observers'[x]) = Own(models[x], observers[x]) + Ends(N, x)
        /\ Own(models[x], observers[x]) \in Nat /\ Ends(N, x) \in Nat
    <3>1. models[x] \in SUBSET Edges /\ observers[x] \in SUBSET Edges
      BY <1>0, <2>1 DEF Types
    <3>2. /\ Own(models[x] \cup AsObserver(N, x), observers[x] \cup AsModel(N, x))
                = Own(models[x], observers[x]) + Ends(N, x)
          /\ Own(models[x], observers[x]) \in Nat /\ Ends(N, x) \in Nat
      <4>1. N \in SUBSET Edges
        BY <1>1
      <4> QED BY <2>2, <3>1, <4>1, Grows
    <3> QED BY <1>2, <2>1, <3>2 DEF AsModel, AsObserver
  <2>4. ref_[x] = users[x] + 2 * Own(models[x], observers[x]) /\ users[x] \in Nat
    BY <1>0, <2>1, CountsOwn DEF RefsCounted, Types
  <2>5. ObservationCount(x)' = Own(models'[x], observers'[x])
    BY <1>3, <1>4, <2>1, CountsOwn
  <2>6. ref_'[x] = ref_[x] + Ends(N, x) + Ends(N, x)
    BY <1>2, <2>1
  <2> QED BY <2>3, <2>4, <2>5, <2>6
<1>6. LivesWhileUsed' /\ NoDangling'
  BY <1>0, <1>2 DEF LivesWhileUsed, NoDangling, Types, N
<1> QED BY <1>3, <1>4, <1>5, <1>6 DEF RefsInv

\* Entries go, those of D1 from observers lists and those of D2 from models lists,
\* both for the same edges as far as a living object is concerned.
LEMMA DisconnectStep ==
  ASSUME RefsInv, defined, NEW D1 \in SUBSET Edges, NEW D2 \in SUBSET Edges,
         NEW count, count \in [Objects -> Int],
         Disconnect(D1, D2, count), UNCHANGED <<held, defined>>,
         alive' \subseteq alive, users' \in [Objects -> Nat],
         handles' \in [Objects -> SUBSET {"observers", "models"}],
         \A x \in Objects : x \in alive' <=> users'[x] > 0,
         \A x \in alive' : count[x] = users'[x] + 2 * Own(models[x], observers[x]),
         \A x \in alive' : /\ {e \in D1 : e.model = x} = observers[x] \cap D1
                           /\ {e \in D2 : e.model = x} = observers[x] \cap D1
                           /\ {e \in D1 : e.observer = x} = models[x] \cap D2
                           /\ {e \in D2 : e.observer = x} = models[x] \cap D2,
         \A e \in Edges : e.observer \in alive' =>
             (e \in observers[e.model] \ D1 <=> e \in models[e.observer] \ D2),
         \A x \in alive' : \A e \in (observers[x] \ D1) \cup (models[x] \ D2) :
             {e.model, e.observer} \subseteq alive' \cup held
  PROVE  RefsInv'
<1>0. Types /\ Mirror /\ RefsCounted /\ LivesWhileUsed /\ NoDangling
  BY DEF RefsInv
<1>1. /\ observers' = [x \in Objects |-> observers[x] \ D1]
      /\ models' = [x \in Objects |-> models[x] \ D2]
      /\ ref_' = [x \in Objects |-> count[x] - Ends(D1, x) - Ends(D2, x)]
  BY DEF Disconnect
<1>2. Types'
  <2>1. \A x \in Objects : count[x] - Ends(D1, x) - Ends(D2, x) \in Int
    <3>1. \A x \in Objects : count[x] \in Int /\ Ends(D1, x) \in Nat /\ Ends(D2, x) \in Nat
      BY EndsNat
    <3> QED BY <3>1
  <2> QED BY <1>0, <1>1, <2>1 DEF Types
<1>3. Mirror'
  BY <1>0, <1>1 DEF Mirror, Types, Edges
<1>4. RefsCounted'
  <2> SUFFICES ASSUME NEW x \in alive'
               PROVE  ref_'[x] = users'[x] + 2 * ObservationCount(x)'
    BY DEF RefsCounted
  <2> DEFINE c1 == Cardinality(observers[x] \cap D1)
             c2 == Cardinality(models[x] \cap D2)
             before == Own(models[x], observers[x])
             after == Own(models[x] \ D2, observers[x] \ D1)
  <2>1. x \in Objects /\ models[x] \in SUBSET Edges /\ observers[x] \in SUBSET Edges
    BY <1>0 DEF Types
  <2>2. before = after + c2 + c1 /\ after \in Nat /\ c1 \in Nat /\ c2 \in Nat
    <3>1. /\ Own(models[x], observers[x]) = Own(models[x] \ D2, observers[x] \ D1)
                + Cardinality(models[x] \cap D2) + Cardinality(observers[x] \cap D1)
          /\ Own(models[x] \ D2, observers[x] \ D1) \in Nat
          /\ Cardinality(models[x] \cap D2) \in Nat /\ Cardinality(observers[x] \cap D1) \in Nat
      BY <2>1, Shrinks, Zenon
    <3> QED BY <3>1
  <2>3. Ends(D1, x) = c1 + c2 /\ Ends(D2, x) = c1 + c2
    BY DEF Ends
  <2>4. ObservationCount(x)' = after
    BY <1>1, <1>2, <1>3, <2>1, CountsOwn
  <2>5. count[x] = users'[x] + 2 * before /\ users'[x] \in Nat
    BY <2>1
  <2>6. ref_'[x] = count[x] - Ends(D1, x) - Ends(D2, x)
    BY <1>1, <2>1
  <2> HIDE DEF c1, c2, before, after
  <2> QED BY <2>2, <2>3, <2>4, <2>5, <2>6
<1>5. LivesWhileUsed' /\ NoDangling'
  BY <1>0, <1>1 DEF LivesWhileUsed, NoDangling, Types
<1> QED BY <1>2, <1>3, <1>4, <1>5 DEF RefsInv

\* The program uses living objects only.
LEMMA UsedAlive == RefsInv => \A x \in Objects : Used(x) => defined /\ x \in alive
BY DEF RefsInv, LivesWhileUsed, Used

\* oyStruct_ObserverListGet_() gives an object at most the two lists.
LEMMA ListedType ==
  ASSUME Types, NEW E
  PROVE  Listed(E) \in [Objects -> SUBSET {"observers", "models"}]
BY DEF Types, Listed

LEMMA CopyStep == ASSUME RefsInv, NEW x \in Objects, Copy(x) PROVE RefsInv'
<1>0. Types /\ Mirror /\ RefsCounted /\ LivesWhileUsed /\ NoDangling
  BY DEF RefsInv
<1>1. /\ users[x] > 0 /\ users' = [users EXCEPT ![x] = @ + 1] /\ ref_' = [ref_ EXCEPT ![x] = @ + 1]
      /\ UNCHANGED <<alive, observers, models, handles, held, defined>>
  BY DEF Copy, Used, lists
<1>2. Types' /\ Mirror'
  BY <1>0, <1>1 DEF Types, Mirror
<1>3. \A y \in Objects : ObservationCount(y)' = ObservationCount(y)
  BY <1>1 DEF ObservationCount
<1>4. RefsCounted'
  <2>1. \A y \in Objects : Own(models[y], observers[y]) \in Nat /\ ObservationCount(y) = Own(models[y], observers[y])
    <3>1. \A y \in Objects : Cardinality(models[y]) \in Nat /\ Cardinality(observers[y]) \in Nat
      BY <1>0, EdgesFinite DEF Types
    <3> QED BY <1>0, <3>1, CountsOwn DEF Own
  <2> QED BY <1>0, <1>1, <1>3, <2>1 DEF RefsCounted, Types
<1>5. LivesWhileUsed' /\ NoDangling'
  BY <1>0, <1>1 DEF LivesWhileUsed, NoDangling, Types
<1> QED BY <1>2, <1>4, <1>5 DEF RefsInv

LEMMA AddStep ==
  ASSUME RefsInv, NEW m \in Objects, NEW o \in Objects, NEW f \in Signals, Add(m, o, f)
  PROVE  RefsInv'
<1> DEFINE E == {[model |-> m, observer |-> o, signal |-> f]}
<1>1. defined /\ m \in alive /\ o \in alive /\ Types
  BY UsedAlive DEF Add, RefsInv
<1>2. E \in SUBSET Edges /\ \A e \in E : {e.model, e.observer} \subseteq alive
  BY <1>1 DEF Edges
<1>3. Connect(E) /\ handles' = Listed(E) /\ UNCHANGED <<alive, users, held, defined>>
  BY DEF Add
<1> HIDE DEF E
<1> QED BY <1>1, <1>2, <1>3, ConnectStep, ListedType

\* Both halves of a connection are taken, as each is there if the other is.
LEMMA RemoveStep ==
  ASSUME RefsInv, NEW m \in Objects, NEW o \in Objects, NEW f \in Signals \cup {AnySignal},
         Remove(m, o, f)
  PROVE  RefsInv'
<1> DEFINE D1 == Pair(m, o) \cap observers[m]
           D2 == Pair(m, o) \cap models[o]
<1>0. Types /\ Mirror /\ RefsCounted /\ LivesWhileUsed /\ NoDangling
  BY DEF RefsInv
<1>1. defined /\ m \in alive /\ o \in alive
  BY UsedAlive DEF Remove
<1>2. handles' \in [Objects -> SUBSET {"observers", "models"}]
  <2>1. Listed(Pair(m, o)) \in [Objects -> SUBSET {"observers", "models"}]
    BY <1>0, ListedType
  <2>2. handles' = [x \in Objects |-> IF handles[x] = {} THEN {} ELSE Listed(Pair(m, o))[x]]
    BY DEF Remove
  <2> QED BY <2>1, <2>2
<1>3. UNCHANGED <<alive, users, held, defined>>
  BY DEF Remove
<1>4. CASE UNCHANGED <<lists, ref_>>
  <2>1. \A y \in Objects : ObservationCount(y)' = ObservationCount(y)
    BY <1>4 DEF ObservationCount, lists
  <2> QED BY <1>0, <1>2, <1>3, <1>4, <2>1
          DEF RefsInv, Types, Mirror, RefsCounted, LivesWhileUsed, NoDangling, lists
<1>5. CASE Disconnect(D1, D2, ref_)
  <2>1. \A e \in Edges : (e \in D1 <=> e \in observers[m] /\ e.model = m /\ e.observer = o)
                     /\ (e \in D2 <=> e \in models[o] /\ e.model = m /\ e.observer = o)
    BY DEF Pair
  <2>2. D1 \in SUBSET Edges /\ D2 \in SUBSET Edges
    BY DEF Pair
  <2>3. D1 = D2
    BY <1>0, <1>1, <2>1, <2>2 DEF Mirror
  <2> HIDE DEF D1, D2
  <2>4. \A x \in alive : ref_[x] = users[x] + 2 * Own(models[x], observers[x])
    BY <1>0, <1>1, CountsOwn DEF RefsCounted, Types
  <2>5. \A x \in alive : /\ {e \in D1 : e.model = x} = observers[x] \cap D1
                         /\ {e \in D2 : e.model = x} = observers[x] \cap D1
                         /\ {e \in D1 : e.observer = x} = models[x] \cap D2
                         /\ {e \in D2 : e.observer = x} = models[x] \cap D2
    BY <1>0, <2>1, <2>2, <2>3 DEF Mirror, Types
  <2>6. \A e \in Edges : e.observer \in alive =>
             (e \in observers[e.model] \ D1 <=> e \in models[e.observer] \ D2)
    BY <1>0, <1>1, <2>3 DEF Mirror
  <2>7. \A x \in alive : \A e \in (observers[x] \ D1) \cup (models[x] \ D2) :
             {e.model, e.observer} \subseteq alive \cup held
    BY <1>0, <1>1 DEF NoDangling
  <2>8. \A x \in Objects : x \in alive <=> users[x] > 0
    BY <1>0, <1>1 DEF LivesWhileUsed
  <2>9. ref_ \in [Objects -> Int] /\ users \in [Objects -> Nat]
    BY <1>0 DEF Types
  <2> QED BY <1>1, <1>2, <1>3, <1>5, <2>2, <2>4, <2>5, <2>6, <2>7, <2>8, <2>9, DisconnectStep
<1> QED BY <1>4, <1>5 DEF Remove

LEMMA HoldStep == ASSUME RefsInv, NEW m \in Objects, Hold(m) PROVE RefsInv'
<1>1. UNCHANGED <<alive, users, ref_, observers, models, handles, defined>> /\ held' = held \cup {m} /\ defined
  BY DEF Hold, lists, Used
<1>2. \A y \in Objects : ObservationCount(y)' = ObservationCount(y)
  BY <1>1 DEF ObservationCount
<1> QED BY <1>1, <1>2 DEF RefsInv, Types, Mirror, RefsCounted, LivesWhileUsed, NoDangling

\* Something goes wrong only when a list is held, and nothing is said from then on.
LEMMA WrongStep ==
  ASSUME RefsInv, held # {}, defined' = FALSE, users' \in [Objects -> Nat],
         UNCHANGED <<alive, ref_, observers, models, handles, held>>
  PROVE  RefsInv'
BY DEF RefsInv, Types, Mirror, RefsCounted, LivesWhileUsed, NoDangling

LEMMA ObserversCopyStep ==
  ASSUME RefsInv, NEW x \in Objects, NEW pattern \in Objects,
         NEW halves \in SUBSET {"model", "observer"}, ObserversCopy(x, pattern, halves)
  PROVE  RefsInv'
<1> DEFINE E1 == IF "model" \notin halves THEN {}
                 ELSE {[e EXCEPT !.model = x] : e \in observers[pattern]}
           M  == models[pattern] \cup {e \in E1 : e.observer = pattern}
           E2 == IF "observer" \notin halves THEN {}
                 ELSE {[e EXCEPT !.observer = x] : e \in M}
           own == {l \in {"observers"} : "model" \in halves}
                  \cup {l \in {"models"} : "observer" \in halves}
           Alive == \A e \in E1 \cup E2 : {e.model, e.observer} \subseteq alive
<1>0. Types /\ Mirror /\ NoDangling
  BY DEF RefsInv
<1>1. defined /\ x \in alive /\ pattern \in alive
  BY UsedAlive DEF ObserversCopy
<1>2. observers[pattern] \in SUBSET Edges /\ models[pattern] \in SUBSET Edges
  BY <1>0 DEF Types
<1>3. /\ E1 \in SUBSET Edges
      /\ \A e \in E1 : e.model = x /\ \E d \in observers[pattern] : e.observer = d.observer
  BY <1>2 DEF Edges
<1>4. /\ M \in SUBSET Edges
      /\ \A e \in M : e \in models[pattern] \/ e \in E1
  BY <1>2, <1>3
<1>5. /\ E2 \in SUBSET Edges
      /\ \A e \in E2 : e.observer = x /\ \E d \in M : e.model = d.model
  <2> HIDE DEF M
  <2> QED BY <1>4 DEF Edges
<1>6. CASE Alive
  <2>1. /\ Connect(E1 \cup E2)
        /\ handles' = [Listed(E1 \cup E2) EXCEPT ![pattern] = @ \cup own]
        /\ UNCHANGED <<alive, users, held, defined>>
    BY <1>6 DEF ObserversCopy
  <2>2. own \subseteq {"observers", "models"}
    OBVIOUS
  <2>3. E1 \cup E2 \in SUBSET Edges
    BY <1>3, <1>5
  <2> DEFINE E == E1 \cup E2
  <2>4. \A e \in E : {e.model, e.observer} \subseteq alive
    BY <1>6
  <2> HIDE DEF E1, E2, own, E
  <2>5. Listed(E) \in [Objects -> SUBSET {"observers", "models"}]
    BY <1>0, ListedType
  <2>6. handles' \in [Objects -> SUBSET {"observers", "models"}]
    BY <2>1, <2>2, <2>5 DEF E
  <2>7. Connect(E) /\ E \in SUBSET Edges
    BY <2>1, <2>3 DEF E
  <2> QED BY <1>1, <2>1, <2>4, <2>6, <2>7, ConnectStep
<1>7. CASE ~Alive
  <2>1. GoesWrong
    BY <1>7 DEF ObserversCopy
  <2>2. held # {}
    <3>1. SUFFICES ASSUME held = {} PROVE Alive
      BY <1>7
    <3>2. \A e \in observers[pattern] \cup models[pattern] : e.model \in alive /\ e.observer \in alive
      BY <1>0, <1>1, <3>1 DEF NoDangling
    <3>3. \A e \in E1 : e.model \in alive /\ e.observer \in alive
      BY <1>1, <1>3, <3>2
    <3>4. \A e \in M : e.model \in alive
      BY <1>4, <3>2, <3>3
    <3>5. \A e \in E2 : e.model \in alive /\ e.observer \in alive
      BY <1>1, <1>5, <3>4
    <3> QED BY <3>3, <3>5
  <2> QED BY <1>0, <2>1, <2>2, WrongStep DEF GoesWrong, lists, Types
<1> HIDE DEF Alive
<1> QED BY <1>6, <1>7

LEMMA ReleaseStep == ASSUME RefsInv, NEW x \in Objects, Release(x) PROVE RefsInv'
<1> DEFINE count == [ref_ EXCEPT ![x] = @ - 1]
           E1 == EndedObservers(x)
           E2 == EndedModels(x)
           Alive == \A e \in E1 \cup E2 : {e.model, e.observer} \subseteq alive
<1>0. Types /\ Mirror /\ RefsCounted /\ LivesWhileUsed /\ NoDangling
  BY DEF RefsInv
<1>1. defined /\ x \in alive /\ users[x] > 0 /\ users' = [users EXCEPT ![x] = @ - 1]
  BY UsedAlive DEF Release, Used
<1>2. \A y \in Objects : /\ models[y] \in SUBSET Edges /\ observers[y] \in SUBSET Edges
                        /\ Own(models[y], observers[y]) \in Nat
                        /\ ObservationCount(y) = Own(models[y], observers[y])
  <2>1. \A y \in Objects : models[y] \in SUBSET Edges /\ observers[y] \in SUBSET Edges
    BY <1>0 DEF Types
  <2>2. \A y \in Objects : Cardinality(models[y]) \in Nat /\ Cardinality(observers[y]) \in Nat
    BY <2>1, EdgesFinite
  <2> QED BY <1>0, <2>1, <2>2, CountsOwn DEF Own
<1>3. /\ users \in [Objects -> Nat] /\ users' \in [Objects -> Nat]
      /\ users'[x] = users[x] - 1 /\ \A y \in Objects \ {x} : users'[y] = users[y]
      /\ count \in [Objects -> Int]
      /\ count[x] = ref_[x] - 1 /\ \A y \in Objects \ {x} : count[y] = ref_[y]
  BY <1>0, <1>1 DEF Types
<1>4. \A y \in alive : count[y] = users'[y] + 2 * Own(models[y], observers[y])
  BY <1>0, <1>1, <1>2, <1>3 DEF RefsCounted, Types
<1>5. count[x] - 2 * ObservationCount(x) = users[x] - 1
  BY <1>1, <1>2, <1>3, <1>4
<1>6. CASE users[x] - 1 > 0
  <2>1. ref_' = count /\ UNCHANGED <<alive, observers, models, handles, held, defined>>
    BY <1>5, <1>6 DEF Release, lists
  <2>2. \A y \in Objects : ObservationCount(y)' = ObservationCount(y)
    BY <2>1 DEF ObservationCount
  <2>3. Types' /\ Mirror' /\ NoDangling'
    BY <1>0, <1>3, <2>1 DEF Types, Mirror, NoDangling
  <2>4. RefsCounted'
    BY <1>0, <1>2, <1>4, <2>1, <2>2 DEF RefsCounted, Types
  <2>5. LivesWhileUsed'
    BY <1>0, <1>1, <1>3, <1>6, <2>1 DEF LivesWhileUsed
  <2> QED BY <2>3, <2>4, <2>5 DEF RefsInv
<1>7. CASE ~(users[x] - 1 > 0)
  <2>0. users[x] = 1 /\ users'[x] = 0 /\ Destroy(x, count)
    <3>1. ~(count[x] - 2 * ObservationCount(x) > 0)
      BY <1>5, <1>7
    <3>2. users[x] = 1
      <4>1. users[x] \in Nat
        BY <1>3
      <4> QED BY <1>1, <1>7, <4>1
    <3>3. users'[x] = 0
      BY <1>3, <3>2
    <3> QED BY <3>1, <3>2, <3>3 DEF Release
  \* What the lists of x lead to.
  <2>1. \A e \in Edges :
          /\ e \in E1 <=> \/ e \in observers[x] /\ x \notin held
                          \/ /\ e.observer = x /\ e.model # x /\ e \in observers[e.model]
                             /\ \E d \in models[x] : d.model = e.model
          /\ e \in E2 <=> \/ e \in models[x]
                          \/ /\ x \notin held /\ e.model = x /\ e.observer # x
                             /\ e \in models[e.observer]
                             /\ \E d \in observers[x] : d.observer = e.observer
    BY <1>2 DEF EndedObservers, EndedModels, Pair, Edges
  <2>2. E1 \in SUBSET Edges /\ E2 \in SUBSET Edges
    BY <1>2 DEF EndedObservers, EndedModels, Pair, Edges
  <2> HIDE DEF E1, E2
  \* In the lists of a living object every entry has its counterpart.
  <2>3. /\ \A y \in Objects : \A e \in observers[y] : e.model = y
        /\ \A y \in Objects : \A e \in models[y] : e.observer = y
        /\ \A e \in Edges : e.observer \in alive =>
                               (e \in observers[e.model] <=> e \in models[e.observer])
        /\ \A e \in Edges : e.model \in Objects /\ e.observer \in Objects
        /\ alive \subseteq Objects
    BY <1>0, <1>1 DEF Mirror, Types, Edges
  <2>4. \A e \in Edges :
          /\ e \in E1 <=> \/ e \in observers[x] /\ x \notin held
                          \/ e.observer = x /\ e.model # x /\ e \in observers[e.model]
          /\ e.observer \in alive =>
               (e \in E2 <=> \/ e \in models[x]
                             \/ x \notin held /\ e \in observers[x] /\ e.observer # x)
    <3> SUFFICES ASSUME NEW e \in Edges
                 PROVE  /\ e \in E1 <=> \/ e \in observers[x] /\ x \notin held
                                        \/ e.observer = x /\ e.model # x /\ e \in observers[e.model]
                        /\ e.observer \in alive =>
                             (e \in E2 <=> \/ e \in models[x]
                                           \/ x \notin held /\ e \in observers[x] /\ e.observer # x)
      OBVIOUS
    <3>1. e.observer = x /\ e \in observers[e.model] => e \in models[x]
      BY <1>1, <2>3
    <3>2. e \in E1 <=> \/ e \in observers[x] /\ x \notin held
                       \/ e.observer = x /\ e.model # x /\ e \in observers[e.model]
      BY <2>1, <3>1
    <3>3. e \in observers[x] => e.model = x
      BY <2>3
    <3>4. e.observer \in alive => (e \in observers[e.model] <=> e \in models[e.observer])
      BY <2>3
    <3>5. e.observer \in alive =>
            (e \in E2 <=> \/ e \in models[x]
                          \/ x \notin held /\ e \in observers[x] /\ e.observer # x)
      BY <2>1, <3>3, <3>4
    <3> QED BY <3>2, <3>5
  <2>5. CASE Alive
    <3>1. /\ alive' = alive \ {x} /\ Disconnect(E1, E2, count)
          /\ handles' = [handles EXCEPT ![x] = {}] /\ UNCHANGED <<held, defined>>
      BY <2>0, <2>5 DEF Destroy, E1, E2
    <3>2. handles' \in [Objects -> SUBSET {"observers", "models"}]
      BY <1>0, <3>1 DEF Types
    <3>3. \A y \in Objects : y \in alive' <=> users'[y] > 0
      BY <1>0, <1>1, <1>3, <2>0, <3>1 DEF LivesWhileUsed
    <3>4. \A y \in alive' : count[y] = users'[y] + 2 * Own(models[y], observers[y])
      BY <1>4, <3>1
    <3>5. \A y \in alive' : /\ {e \in E1 : e.model = y} = observers[y] \cap E1
                            /\ {e \in E2 : e.model = y} = observers[y] \cap E1
                            /\ {e \in E1 : e.observer = y} = models[y] \cap E2
                            /\ {e \in E2 : e.observer = y} = models[y] \cap E2
      <4> SUFFICES ASSUME NEW y \in alive', NEW e \in Edges
                   PROVE  /\ e \in E1 /\ e.model = y <=> e \in observers[y] /\ e \in E1
                          /\ e \in E2 /\ e.model = y <=> e \in observers[y] /\ e \in E1
                          /\ e \in E1 /\ e.observer = y <=> e \in models[y] /\ e \in E2
                          /\ e \in E2 /\ e.observer = y <=> e \in models[y] /\ e \in E2
        BY <1>2, <2>2, <2>3, <3>1
      <4>1. y \in alive /\ y # x /\ y \in Objects
        BY <2>3, <3>1
      <4>2. e \in observers[y] => e.model = y
        BY <2>3, <4>1
      <4>3. e \in models[y] => e.observer = y
        BY <2>3, <4>1
      <4>4. e \in E1 /\ e.model = y => e \in observers[y] /\ e.observer = x /\ e \in models[x]
        BY <1>1, <2>3, <2>4, <4>1
      <4>5. e \in E2 /\ e.model = y => e \in models[x] /\ e.observer = x /\ e \in observers[y] /\ e \in E1
        BY <1>1, <2>1, <2>3, <2>4, <4>1
      <4>6. e \in E1 /\ e.observer = y => e \in E2 /\ e \in models[y]
        BY <1>1, <2>3, <2>4, <4>1
      <4>7. e \in E2 /\ e.observer = y => e \in E1 /\ e \in models[y]
        <5>1. e \in models[x] => e.observer = x
          BY <2>3
        <5>2. e \in observers[x] => e.model = x
          BY <2>3
        <5>3. e.observer \in alive => (e \in observers[e.model] <=> e \in models[e.observer])
          BY <2>3
        <5>4. e \in E2 /\ e.observer = y => x \notin held /\ e \in observers[x]
          BY <2>4, <4>1, <5>1
        <5> QED BY <2>4, <4>1, <5>2, <5>3, <5>4
      <4>8. e \in E1 /\ e.model = y => e \in E2
        BY <2>1, <4>4
      <4> QED BY <4>2, <4>3, <4>4, <4>5, <4>6, <4>7, <4>8
    <3>6. \A e \in Edges : e.observer \in alive' =>
             (e \in observers[e.model] \ E1 <=> e \in models[e.observer] \ E2)
      <4> SUFFICES ASSUME NEW e \in Edges, e.observer \in alive'
                   PROVE  e \in observers[e.model] \ E1 <=> e \in models[e.observer] \ E2
        OBVIOUS
      <4>1. e.observer \in alive /\ e.observer # x /\ (e \in observers[e.model] <=> e \in models[e.observer])
        BY <2>3, <3>1
      <4>2. e \notin models[x] /\ (e \in observers[x] => e.model = x)
        BY <2>3, <4>1
      <4>3. e \in E1 <=> e \in observers[x] /\ x \notin held
        BY <2>4, <4>1
      <4>4. e \in E2 <=> x \notin held /\ e \in observers[x]
        BY <2>4, <4>1, <4>2
      <4> QED BY <4>1, <4>3, <4>4
    <3>7. \A y \in alive' : \A e \in (observers[y] \ E1) \cup (models[y] \ E2) :
             {e.model, e.observer} \subseteq alive' \cup held
      <4> SUFFICES ASSUME NEW y \in alive', NEW e \in (observers[y] \ E1) \cup (models[y] \ E2)
                   PROVE  {e.model, e.observer} \subseteq alive' \cup held
        OBVIOUS
      <4>1. y \in alive /\ y # x /\ y \in Objects /\ e \in Edges
        BY <1>2, <2>3, <3>1
      <4>2. {e.model, e.observer} \subseteq alive \cup held
        BY <1>0, <1>1, <4>1 DEF NoDangling
      <4>3. e.observer # x
        BY <1>1, <2>3, <2>4, <4>1
      <4>4. e.model = x => x \in held
        BY <2>3, <2>4, <4>1, <4>3
      <4> QED BY <3>1, <4>2, <4>3, <4>4
    <3>8. alive' \subseteq alive
      BY <3>1
    <3> HIDE DEF count
    <3> QED BY <1>1, <1>3, <2>2, <3>1, <3>2, <3>3, <3>4, <3>5, <3>6, <3>7, <3>8, DisconnectStep
  <2>6. CASE ~Alive
    <3>1. defined' = FALSE /\ UNCHANGED <<alive, observers, models, ref_, handles, held>>
      BY <2>0, <2>6 DEF Destroy, lists, E1, E2
    <3>2. held # {}
      <4>1. SUFFICES ASSUME held = {} PROVE Alive
        BY <2>6
      <4>2. \A d \in observers[x] \cup models[x] : d.model \in alive /\ d.observer \in alive
        BY <1>0, <1>1, <4>1 DEF NoDangling
      <4>3. \A e \in E1 \cup E2 : e.model \in alive /\ e.observer \in alive
        BY <1>1, <2>1, <2>2, <4>2
      <4> QED BY <4>3
    <3> QED BY <1>3, <3>1, <3>2, WrongStep
  <2> HIDE DEF Alive
  <2> QED BY <2>5, <2>6
<1> HIDE DEF Alive
<1> QED BY <1>6, <1>7

LEMMA RefsStep == RefsInv /\ [Next]_vars => RefsInv'
<1> SUFFICES ASSUME RefsInv, [Next]_vars PROVE RefsInv'
  OBVIOUS
<1>1. CASE UNCHANGED vars
  <2>1. UNCHANGED <<alive, users, ref_, observers, models, handles, held, defined>>
    BY <1>1 DEF vars, lists
  <2>2. \A y \in Objects : ObservationCount(y)' = ObservationCount(y)
    BY <2>1 DEF ObservationCount
  <2> QED BY <2>1, <2>2 DEF RefsInv, Types, Mirror, RefsCounted, LivesWhileUsed, NoDangling
<1>2. CASE Next
  BY <1>2, CopyStep, ReleaseStep, HoldStep, AddStep, RemoveStep, ObserversCopyStep DEF Next
<1> QED BY <1>1, <1>2

LEMMA RefsInit == Init => RefsInv
<1> SUFFICES ASSUME Init PROVE RefsInv
  OBVIOUS
<1>1. Types /\ Mirror
  BY DEF Init, Types, Mirror, Edges
<1>2. \A x \in Objects : ObservationCount(x) = 0
  <2>1. \A x \in Objects : /\ {e \in models[x] : e.observer = x} = {}
                          /\ {e \in observers[x] : e.model = x} = {}
    BY DEF Init
  <2>2. Cardinality({}) = 0
    BY FS_EmptySet
  <2>3. \A x \in Objects : /\ Cardinality({e \in models[x] : e.observer = x}) = 0
                          /\ Cardinality({e \in observers[x] : e.model = x}) = 0
    BY <2>1, <2>2
  <2> QED BY <2>3 DEF ObservationCount
<1>3. RefsCounted
  BY <1>2 DEF Init, RefsCounted
<1>4. LivesWhileUsed /\ NoDangling
  BY DEF Init, LivesWhileUsed, NoDangling
<1> QED BY <1>1, <1>3, <1>4 DEF RefsInv

\* The inductive invariant of reference counts.
THEOREM RefsInvariant == Spec => []RefsInv
BY RefsInit, RefsStep, PTL DEF Spec

\* oyStruct_ObserverAdd(), Remove() and the end of objects keep both lists of an
\* edge in step, in any graph of observers.
THEOREM ListsMirror == Spec => []Mirror
BY RefsInvariant, PTL DEF RefsInv

\* ref_ counts the references of the program and two for each entry.
THEOREM ReferencesCounted == Spec => []RefsCounted
BY RefsInvariant, PTL DEF RefsInv

\* Whatever observes it or is observed by it, in cycles or alone, an object is
\* destroyed by oyX_Release() exactly with the last reference of the program.
THEOREM AliveWhileUsed == Spec => []LivesWhileUsed
BY RefsInvariant, PTL DEF RefsInv

\* Unless a list is held, no list leads to a destroyed object and none is used.
THEOREM NothingDangles == Spec => []NoDangling
BY RefsInvariant, PTL DEF RefsInv
==============================================================================
