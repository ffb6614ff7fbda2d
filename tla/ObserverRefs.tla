---------------------------- MODULE ObserverRefs ----------------------------
(***************************************************************************)
(* Reference counts of objects that observe each other.                    *)
(*                                                                         *)
(* A connection is kept twice: as an oyObserver_s in the observers list of *)
(* the model and as another one in the models list of the observer.  Each  *)
(* of the two references both objects.  These references must not keep an  *)
(* object alive, so oyX_Release() subtracts two for each entry of the      *)
(* object's own lists before it decides, and the entries of a destroyed    *)
(* object are to vanish from the lists of all others.                      *)
(*                                                                         *)
(* The lists contain no entry twice and their order matters to signals     *)
(* only (module ObserverSignals): here they are sets.                      *)
(***************************************************************************)
EXTENDS Integers, FiniteSets

CONSTANTS
  Objects,   \* the objects of the program, which exist from the beginning
  Signals,   \* signal functions
  AnySignal, \* the NULL signal function of oyStruct_ObserverRemove()
  MaxUsers   \* bound: references the program holds to one object

ASSUME RefsAssumption == /\ IsFiniteSet(Objects)
                         /\ IsFiniteSet(Signals)
                         /\ AnySignal \notin Signals
                         /\ MaxUsers \in Nat \ {0}

Edges == [model : Objects, observer : Objects, signal : Signals]

VARIABLES
  alive,     \* objects that are not destroyed
  users,     \* references the program itself holds to an object
  ref_,      \* oyObject_s::ref_
  observers, \* the observers list of a model
  models,    \* the models list of an observer
  handles,   \* which of the two lists an object has; {} is a NULL handles_
  held,      \* models whose observers list has a reference that nobody returns
  defined    \* FALSE when a destroyed object was used

lists == <<observers, models>>
vars  == <<alive, users, ref_, lists, handles, held, defined>>

Init == /\ alive = Objects
        /\ users = [x \in Objects |-> 1]
        /\ ref_ = [x \in Objects |-> 1]
        /\ observers = [x \in Objects |-> {}]
        /\ models = [x \in Objects |-> {}]
        /\ handles = [x \in Objects |-> {}]
        /\ held = {}
        /\ defined = TRUE

\* The references that one oyObserver_s for each edge of S has to x.
Ends(S, x) == Cardinality({e \in S : e.model = x})
              + Cardinality({e \in S : e.observer = x})

\* oyStruct_ObservationCount( x, 0 )
ObservationCount(x) == Cardinality({e \in models[x] : e.observer = x})
                       + Cardinality({e \in observers[x] : e.model = x})

Used(x) == defined /\ users[x] > 0

GoesWrong == /\ defined' = FALSE
             /\ UNCHANGED <<alive, users, ref_, lists, handles, held>>

-----------------------------------------------------------------------------
(* Edges come and go. *)

\* oyStruct_ObserverListGet_() makes a list that is missing.
Listed(E) == [x \in Objects |-> handles[x]
                \cup {l \in {"observers"} : \E e \in E : e.model = x}
                \cup {l \in {"models"} : \E e \in E : e.observer = x}]

\* Mutant: the model's entry is made without a look at the list.
MutConnect(E) ==
  LET E2 == {e \in E : e \notin models[e.observer]} IN
  /\ observers' = [x \in Objects |-> observers[x] \cup {e \in E : e.model = x}]
  /\ models' = [x \in Objects |-> models[x] \cup {e \in E2 : e.observer = x}]
  /\ ref_' = [x \in Objects |-> ref_[x] + Ends(E, x) + Ends(E2, x)]

\* oyStruct_ObserverAdd() of the edges in E, which looks into each list on its own.
Connect(E) ==
  LET E1 == {e \in E : e \notin observers[e.model]}
      E2 == {e \in E : e \notin models[e.observer]} IN
  /\ observers' = [x \in Objects |-> observers[x] \cup {e \in E1 : e.model = x}]
  /\ models' = [x \in Objects |-> models[x] \cup {e \in E2 : e.observer = x}]
  /\ ref_' = [x \in Objects |-> ref_[x] + Ends(E1, x) + Ends(E2, x)]

\* The oyObserver_s of E1 in observers lists and of E2 in models lists are
\* released; count is the reference count of each object before.
Disconnect(E1, E2, count) ==
  /\ observers' = [x \in Objects |-> observers[x] \ E1]
  /\ models' = [x \in Objects |-> models[x] \ E2]
  /\ ref_' = [x \in Objects |-> count[x] - Ends(E1, x) - Ends(E2, x)]

-----------------------------------------------------------------------------
(* The operations of the program on objects it has references to. *)

\* x->copy( x, 0 )
Copy(x) == /\ Used(x)
           /\ users[x] < MaxUsers
           /\ users' = [users EXCEPT ![x] = @ + 1]
           /\ ref_' = [ref_ EXCEPT ![x] = @ + 1]
           /\ UNCHANGED <<alive, lists, handles, held, defined>>

\* oyStruct_ObserverAdd( m, o, 0, f )
Add(m, o, f) == /\ Used(m)
                /\ Used(o)
                /\ LET E == {[model |-> m, observer |-> o, signal |-> f]}
                   IN Connect(E) /\ handles' = Listed(E)
                /\ UNCHANGED <<alive, users, held, defined>>

Pair(m, o) == {e \in Edges : e.model = m /\ e.observer = o}

\* Mutant: the entries in the observer's list stay.
MutRemove(m, o, f) ==
  /\ Used(m)
  /\ Used(o)
  /\ IF \E e \in Pair(m, o) \cap observers[m] : f \in {e.signal, AnySignal}
     THEN Disconnect(Pair(m, o) \cap observers[m], {}, ref_)
     ELSE UNCHANGED <<lists, ref_>>
  /\ UNCHANGED <<alive, users, handles, held, defined>>

\* oyStruct_ObserverRemove( m, o, f ): the release of the first entry that
\* matches calls oyStruct_ObserverRemove( m, o, NULL ) again.  A list that is
\* missing is made, unless the object has no handles_ at all.
Remove(m, o, f) ==
  /\ Used(m)
  /\ Used(o)
  /\ handles' = [x \in Objects |-> IF handles[x] = {} THEN {} ELSE Listed(Pair(m, o))[x]]
  /\ IF \E e \in Pair(m, o) \cap (observers[m] \cup models[o]) : f \in {e.signal, AnySignal}
     THEN Disconnect(Pair(m, o) \cap observers[m], Pair(m, o) \cap models[o], ref_)
     ELSE UNCHANGED <<lists, ref_>>
  /\ UNCHANGED <<alive, users, held, defined>>

\* oyStruct_ObserversCopy( x, pattern, flags ), its halves oyStruct_ObserverCopyModel()
\* and oyStruct_ObserverCopyObserver() one after the other or alone.
ObserversCopy(x, pattern, halves) ==
  LET E1 == IF "model" \notin halves THEN {}
            ELSE {[e EXCEPT !.model = x] : e \in observers[pattern]}
      M  == models[pattern] \cup {e \in E1 : e.observer = pattern}
      E2 == IF "observer" \notin halves THEN {}
            ELSE {[e EXCEPT !.observer = x] : e \in M}
      own == {l \in {"observers"} : "model" \in halves}
             \cup {l \in {"models"} : "observer" \in halves}
  IN /\ Used(x)
     /\ Used(pattern)
     /\ IF \A e \in E1 \cup E2 : {e.model, e.observer} \subseteq alive
        THEN /\ Connect(E1 \cup E2)
             /\ handles' = [Listed(E1 \cup E2) EXCEPT ![pattern] = @ \cup own]
             /\ UNCHANGED <<alive, users, held, defined>>
        ELSE GoesWrong

\* oyStruct_DisableSignalSend(), oyStruct_EnableSignalSend() and
\* oyStruct_IsObserved() with an observer do not return their references to the
\* option and its list.
Hold(m) == /\ Used(m)
           /\ "observers" \in handles[m]
           /\ held' = held \cup {m}
           /\ UNCHANGED <<alive, users, ref_, lists, handles, defined>>

-----------------------------------------------------------------------------
(* The release of a reference, and the end of an object. *)

\* The entries that end with x: those of its own lists, except for an observers
\* list that is held, and through oyObserver_Release__Members() those of the
\* pair in the list at the other end.  The own handles_ are NULL at that time.
EndedObservers(x) ==
  {e \in observers[x] : x \notin held}
    \cup UNION {observers[z] \cap Pair(z, x) : z \in {e.model : e \in models[x]} \ {x}}
MutEndedModels(x) == models[x] \* Mutant: the other end is forgotten

EndedModels(x) ==
  models[x] \cup
    (IF x \in held THEN {}
     ELSE UNION {models[y] \cap Pair(x, y) : y \in {e.observer : e \in observers[x]} \ {x}})

Destroy(x, count) ==
  LET E1 == EndedObservers(x)
      E2 == EndedModels(x)
  IN IF \A e \in E1 \cup E2 : {e.model, e.observer} \subseteq alive
     THEN /\ alive' = alive \ {x}
          /\ Disconnect(E1, E2, count)
          /\ handles' = [handles EXCEPT ![x] = {}]
          /\ UNCHANGED <<held, defined>>
     ELSE /\ defined' = FALSE
          /\ UNCHANGED <<alive, lists, ref_, handles, held>>

\* Mutant: each entry is taken for one reference.
MutRelease(x) ==
  /\ Used(x)
  /\ users' = [users EXCEPT ![x] = @ - 1]
  /\ LET count == [ref_ EXCEPT ![x] = @ - 1] IN
     IF count[x] - ObservationCount(x) > 0
     THEN ref_' = count /\ UNCHANGED <<alive, lists, handles, held, defined>>
     ELSE Destroy(x, count)

\* oyX_Release( &x ), the same code for every class
Release(x) ==
  /\ Used(x)
  /\ users' = [users EXCEPT ![x] = @ - 1]
  /\ LET count == [ref_ EXCEPT ![x] = @ - 1] IN
     IF count[x] - 2 * ObservationCount(x) > 0
     THEN ref_' = count /\ UNCHANGED <<alive, lists, handles, held, defined>>
     ELSE Destroy(x, count)

Next == \E x \in Objects :
          \/ Copy(x) \/ Release(x) \/ Hold(x)
          \/ \E y \in Objects :
               \/ \E f \in Signals : Add(x, y, f)
               \/ \E f \in Signals \cup {AnySignal} : Remove(x, y, f)
               \/ \E halves \in SUBSET {"model", "observer"} : ObserversCopy(x, y, halves)

Spec == Init /\ [][Next]_vars

-----------------------------------------------------------------------------
(* Properties. *)

\* The lists of an object hold edges of its own, and the models list of an
\* observer is a clone of what the models have: as long as the observer lives,
\* an edge is in both lists or in none.
Mirror ==
  /\ \A x \in Objects : /\ \A e \in observers[x] : e.model = x
                        /\ \A e \in models[x] : e.observer = x
  /\ defined => \A e \in Edges : e.observer \in alive =>
                  (e \in observers[e.model] <=> e \in models[e.observer])

\* The reference count is the number of references of the program, and two for
\* each entry of the object's own lists.
RefsCounted == defined => \A x \in alive : ref_[x] = users[x] + 2 * ObservationCount(x)

\* An object lives exactly as long as the program has a reference to it; to
\* observe or to be observed neither keeps it nor ends it.
LivesWhileUsed == defined => \A x \in Objects : x \in alive <=> users[x] > 0

\* No list of a living object leads to a destroyed one, unless that one's
\* observers list is held; and without such lists nothing goes wrong.
NoDangling ==
  /\ defined => \A x \in alive : \A e \in observers[x] \cup models[x] :
                  {e.model, e.observer} \subseteq alive \cup held
  /\ held = {} => defined
==============================================================================
