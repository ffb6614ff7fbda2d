----------------------------- MODULE SharedLists -----------------------------
(***************************************************************************)
(* What lists of shared objects promise: sequences without gaps, and an    *)
(* object exists as long as the program or a list has it.                  *)
(***************************************************************************)
EXTENDS Naturals, Sequences, SequencesExt

CONSTANTS Lists, Objects

VARIABLES
  lists,   \* a sequence of objects for each list
  handles, \* number of references the program holds itself
  alive,   \* objects that exist
  broken   \* what went wrong: until then the promise holds

vars == <<lists, handles, alive, broken>>

Owned(L, H) == {o \in Objects : H[o] > 0 \/ \E l \in Lists : o \in ToSet(L[l])}

Init == /\ lists = [l \in Lists |-> << >>]
        /\ handles = [o \in Objects |-> 1]
        /\ alive = Objects
        /\ broken = {}

\* Every operation ends with the objects that nobody has any more.
Leaves(L, H) == /\ lists' = L
                /\ handles' = H
                /\ alive' = Owned(L, H)
                /\ broken' = broken

With(l, s) == [lists EXCEPT ![l] = s]
More(o)    == [handles EXCEPT ![o] = @ + 1]
Less(o)    == [handles EXCEPT ![o] = @ - 1]

Take(o)         == o \in alive /\ Leaves(lists, More(o))
Drop(o)         == handles[o] > 0 /\ Leaves(lists, Less(o))
Insert(l, o, i) == handles[o] > 0 /\ Leaves(With(l, InsertAt(lists[l], i, o)), Less(o))
Delete(l, i)    == Leaves(With(l, RemoveAt(lists[l], i)), handles)
Clear(l)        == Leaves(With(l, << >>), handles)
Assign(l, m)    == Leaves(With(l, IF l = m THEN << >> ELSE lists[m]), handles)

\* The entries in another order.
Permute(l) == \E p \in [DOMAIN lists[l] -> DOMAIN lists[l]] :
                /\ IsInjective(p)
                /\ Leaves(With(l, [i \in DOMAIN p |-> lists[l][p[i]]]), handles)

Next == \/ \E o \in Objects : Take(o) \/ Drop(o)
        \/ \E l \in Lists :
             \/ \E o \in Objects, i \in 1 .. Len(lists[l]) + 1 : Insert(l, o, i)
             \/ \E i \in DOMAIN lists[l] : Delete(l, i)
             \/ \E m \in Lists : Assign(l, m)
             \/ Clear(l)
             \/ Permute(l)
        \/ broken' # {}

Spec == Init /\ [][Next]_vars
==============================================================================
