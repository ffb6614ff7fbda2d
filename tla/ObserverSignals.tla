--------------------------- MODULE ObserverSignals ---------------------------
(***************************************************************************)
(* The delivery of signals to the observers of a model.                    *)
(*                                                                         *)
(* oyStruct_ObserverSignal() walks over the observers list of the model    *)
(* with an index and the count from the beginning, and calls the signal    *)
(* function of each entry.  That is oyStructSignalForward_(), which calls  *)
(* oyStruct_ObserverSignal() for the observer, or a handler of the         *)
(* program, which may do what it likes, also to the list under way.  The   *)
(* calls are kept in a stack of frames.                                    *)
(*                                                                         *)
(* The objects live on during the calls; ObserverRefs is about their end.  *)
(***************************************************************************)
EXTENDS Integers, Sequences, FiniteSets, SequencesExt

CONSTANTS
  Objects,     \* the models and observers
  Handlers,    \* signal functions of the program
  Forward,     \* oyStructSignalForward_()
  Connections, \* edges <<model, observer, signal function>> the program makes
  MaxDisabled, \* bound: nested calls of oyStruct_DisableSignalSend()
  MaxNested,   \* bound: signals emitted in handlers of signals
  MaxDepth     \* bound: frames on the stack

ASSUME SignalsAssumption ==
  /\ Forward \notin Handlers
  /\ Connections \subseteq Objects \X Objects \X (Handlers \cup {Forward})
  /\ MaxDisabled \in Nat /\ MaxNested \in Nat /\ MaxDepth \in Nat

Models == {edge[1] : edge \in Connections}

VARIABLES
  observers,         \* the observers list of each model
  oy_observer_flags, \* are signals blocked everywhere?
  stack,             \* the running calls of oyStruct_ObserverSignal()
  disabled           \* history: calls of DisableSignalSend() without an Enable

vars == <<observers, oy_observer_flags, stack, disabled>>

Key(entry) == <<entry.observer, entry.signal>>
Keys(list) == [i \in 1 .. Len(list) |-> Key(list[i])]

\* start: the list at the beginning, so that n is its length; i: entries done;
\* served: those that oyObserver_SignalSend() was called for; gone: those removed
\* meanwhile; at: what the call is waiting for.
NewFrame(m) == [model |-> m, start |-> Keys(observers[m]), i |-> 0,
                served |-> << >>, gone |-> {}, at |-> "next"]

Init == /\ observers = [m \in Objects |-> << >>]
        /\ oy_observer_flags = FALSE
        /\ stack = << >>
        /\ disabled = [m \in Objects |-> 0]

Top == stack[Len(stack)]
WithTop(frame) == [stack EXCEPT ![Len(stack)] = frame]

\* The program runs when no signal is under way, or in a handler.
Running == stack # << >> => Top.at = "handler"

\* Calls of oyStruct_ObserverSignal() that the program made.
Nested == Cardinality({d \in 1 .. Len(stack) : d = 1 \/ stack[d - 1].at = "handler"})

-----------------------------------------------------------------------------
(* What the program does, in handlers or outside. *)

\* oyStruct_ObserverAdd(): an edge is in the list once.
ObserverAdd(m, o, f) ==
  /\ Running
  /\ <<m, o, f>> \in Connections
  /\ <<o, f>> \notin ToSet(Keys(observers[m]))
  /\ observers' = [observers EXCEPT ![m] =
                     Append(@, [observer |-> o, signal |-> f, disable_ref |-> 0])]
  /\ UNCHANGED <<oy_observer_flags, stack, disabled>>

\* oyStruct_ObserverRemove_(): the list without the entries of an observer.  It is
\* written as a function of the first entries, by which the proofs take it apart.
Without(list, o) ==
  LET kept[i \in 0 .. Len(list)] ==
        IF i = 0 THEN << >>
        ELSE IF list[i].observer = o THEN kept[i - 1] ELSE Append(kept[i - 1], list[i])
  IN  kept[Len(list)]

\* oyStruct_ObserverRemove(): all signal functions of the pair, see ObserverRefs.
ObserverRemove(m, o) ==
  /\ Running
  /\ \E k \in ToSet(Keys(observers[m])) : k[1] = o
  /\ observers' = [observers EXCEPT ![m] = Without(@, o)]
  /\ stack' = [d \in 1 .. Len(stack) |->
                 IF stack[d].model # m THEN stack[d]
                 ELSE [stack[d] EXCEPT !.gone =
                         @ \cup {k \in ToSet(Keys(observers[m])) : k[1] = o}]]
  /\ UNCHANGED <<oy_observer_flags, disabled>>

\* Each entry of a list is disabled once more.
AllDisabled(list) == [i \in DOMAIN list |-> [list[i] EXCEPT !.disable_ref = @ + 1]]

\* oyStruct_DisableSignalSend()
Disable(m) ==
  /\ Running
  /\ disabled[m] < MaxDisabled
  /\ disabled' = [disabled EXCEPT ![m] = @ + 1]
  /\ observers' = [observers EXCEPT ![m] = AllDisabled(@)]
  /\ UNCHANGED <<oy_observer_flags, stack>>

MutOneLess(n) == n - 1 \* Mutant: below zero

\* --disable_ref, and zero if it is negative then ("Already enabled")
OneLess(n) == IF n = 0 THEN 0 ELSE n - 1

AllEnabled(list) == [i \in DOMAIN list |-> [list[i] EXCEPT !.disable_ref = OneLess(@)]]

\* oyStruct_EnableSignalSend(), which may be called once too often.
Enable(m) ==
  /\ Running
  /\ disabled' = [disabled EXCEPT ![m] = IF @ = 0 THEN 0 ELSE @ - 1]
  /\ observers' = [observers EXCEPT ![m] = AllEnabled(@)]
  /\ UNCHANGED <<oy_observer_flags, stack>>

\* oyObserverSetFlags()
SetFlags(block) ==
  /\ Running
  /\ oy_observer_flags' = block
  /\ UNCHANGED <<observers, stack, disabled>>

\* oyStruct_ObserverSignal() for a model that has a list.
Signal(m) ==
  /\ Running
  /\ ~oy_observer_flags
  /\ observers[m] # << >>
  /\ Nested < MaxNested /\ Len(stack) < MaxDepth
  /\ stack' = Append(stack, NewFrame(m))
  /\ UNCHANGED <<observers, oy_observer_flags, disabled>>

\* A call goes on with the next entry.
Continued(frame) == [frame EXCEPT !.at = "next", !.i = @ + 1]

\* Mutant: the loop looks at the same entry again.
MutHandlerReturns ==
  /\ stack # << >>
  /\ Top.at = "handler"
  /\ stack' = WithTop([Top EXCEPT !.at = "next"])
  /\ UNCHANGED <<observers, oy_observer_flags, disabled>>

HandlerReturns ==
  /\ stack # << >>
  /\ Top.at = "handler"
  /\ stack' = WithTop(Continued(Top))
  /\ UNCHANGED <<observers, oy_observer_flags, disabled>>

-----------------------------------------------------------------------------
(* The loop of oyStruct_ObserverSignal(). *)

InLoop == /\ stack # << >>
          /\ Top.at = "next"
          /\ Top.i < Len(Top.start)

Entry == observers[Top.model][Top.i + 1]

\* The frame after oyObserver_SignalSend() for the entry.
Served(at) == [Top EXCEPT !.served = Append(@, Key(Entry)), !.at = at,
                          !.i = IF at = "next" THEN @ + 1 ELSE @]

\* Mutant: the loop goes on without the next index.
MutNoEntry ==
  /\ InLoop
  /\ Top.i >= Len(observers[Top.model])
  /\ UNCHANGED vars

\* oyStructList_GetType() finds nothing: the list is shorter by now.
NoEntry ==
  /\ InLoop
  /\ Top.i >= Len(observers[Top.model])
  /\ stack' = WithTop([Top EXCEPT !.i = @ + 1])
  /\ UNCHANGED <<observers, oy_observer_flags, disabled>>

HasEntry == InLoop /\ Top.i < Len(observers[Top.model])
Silent   == oy_observer_flags \/ Entry.disable_ref > 0

\* Blocked or disabled, or nobody to forward to.
SendNothing ==
  /\ HasEntry
  /\ Silent \/ (Entry.signal = Forward /\ observers[Entry.observer] = << >>)
  /\ stack' = WithTop(Served("next"))
  /\ UNCHANGED <<observers, oy_observer_flags, disabled>>

SendHandler ==
  /\ HasEntry
  /\ ~Silent
  /\ Entry.signal \in Handlers
  /\ stack' = WithTop(Served("handler"))
  /\ UNCHANGED <<observers, oy_observer_flags, disabled>>

\* oyStructSignalForward_()
SendForward ==
  /\ HasEntry
  /\ ~Silent
  /\ Entry.signal = Forward
  /\ observers[Entry.observer] # << >>
  /\ Len(stack) < MaxDepth
  /\ stack' = Append(WithTop(Served("forward")), NewFrame(Entry.observer))
  /\ UNCHANGED <<observers, oy_observer_flags, disabled>>

\* The end of the loop, and of the forward that called.
Return ==
  /\ stack # << >>
  /\ Top.at = "next"
  /\ Top.i = Len(Top.start)
  /\ LET below == Front(stack) IN
     stack' = IF below = << >> \/ Last(below).at = "handler" THEN below
              ELSE [below EXCEPT ![Len(below)] = Continued(@)]
  /\ UNCHANGED <<observers, oy_observer_flags, disabled>>

-----------------------------------------------------------------------------
Program == \/ \E m, o \in Objects : ObserverRemove(m, o) \/ \E f \in Handlers \cup {Forward} : ObserverAdd(m, o, f)
           \/ \E m \in Models : Disable(m) \/ Enable(m) \/ Signal(m)
           \/ \E block \in BOOLEAN : SetFlags(block)

Loop == NoEntry \/ SendNothing \/ SendHandler \/ SendForward \/ Return

Next == Program \/ HandlerReturns \/ Loop

Spec == Init /\ [][Next]_vars

\* The loop runs on, and each handler returns after the signals it has sent.
FairSpec == /\ Spec
            /\ WF_vars(Loop)
            /\ \A depth \in 1 .. MaxDepth : SF_vars(Len(stack) = depth /\ HandlerReturns)

-----------------------------------------------------------------------------
(* Properties. *)

Frames == ToSet(stack)

\* As long as nothing is removed from the list under way each observer of the
\* beginning is served once, in the order of the list, whatever handlers add,
\* disable, block or signal meanwhile; nobody is in a list twice.
ServesInOrder ==
  /\ \A m \in Objects : IsInjective(Keys(observers[m]))
  /\ \A frame \in Frames : frame.gone = {} =>
       frame.served = SubSeq(frame.start, 1, IF frame.at = "next" THEN frame.i ELSE frame.i + 1)

\* When disabling and enabling is even nobody remains silent, and nobody is left
\* with a debt that would turn the next Enable into a Disable.
EnabledAgain ==
  \A m \in Objects : \A entry \in ToSet(observers[m]) : entry.disable_ref \in 0 .. disabled[m]

\* A signal comes to an end when the forwarding edges have no cycle, in
\* particular when handlers change the lists.
SignalReturns == stack # << >> ~> stack = << >>
==============================================================================
