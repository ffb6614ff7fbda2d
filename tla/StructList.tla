------------------------------ MODULE StructList ------------------------------
(***************************************************************************)
(* oyStructList_s: a list of references to objects, in memory that grows.  *)
(*                                                                         *)
(* A list owns one reference for each entry.  MoveIn takes one over from   *)
(* its caller, ReleaseAt gives one back, and copies make new ones.  A slot *)
(* may be empty; Sort leaves slots empty and MoveIn fills them.  What is   *)
(* beyond the promise of a list is noted in broken.                        *)
(*                                                                         *)
(* Positions count from 0 as in the source; each operation runs under the  *)
(* lock of its list.  Observers of a list are the matter of ObserverRefs.  *)
(***************************************************************************)
EXTENDS Integers, Sequences, FiniteSets, SequencesExt

CONSTANTS
  Lists,      \* oyStructList_s objects
  Objects,    \* entries, each with copy() and release()
  Empty,      \* the NULL pointer
  Ranks,      \* values in a rank_list
  MinRank,    \* INT32_MIN
  Small,      \* the length, 7, from which on a list grows by half
  First,      \* the capacity, 10, of a small one
  MaxLength,  \* bound: length of a list
  MaxRefs     \* bound: references to one object

ASSUME ListAssumption == /\ Empty \notin Objects
                         /\ IsFiniteSet(Lists)
                         /\ Ranks \subseteq Int /\ MinRank \in Int
                         /\ \A r \in Ranks : r >= MinRank
                         /\ First \in Nat /\ Small \in 2 .. First
                         /\ MaxLength \in Nat /\ MaxRefs \in Nat

VARIABLES
  list,    \* the members of each list, and its room: the pointers really allocated
  handles, \* references the program holds to an object
  ref_,    \* oyObject_s::ref_
  broken   \* history: an allocation failed, a rank was the lowest, NULL was used

vars == <<list, handles, ref_, broken>>

New == [ptr_ |-> << >>, n_reserved_ |-> 0, room |-> 0]

Init == /\ list = [l \in Lists |-> New]
        /\ handles = [o \in Objects |-> 1]
        /\ ref_ = [o \in Objects |-> 1]
        /\ broken = {}

n_(s) == Len(s.ptr_)

\* Entries of a sequence of slots that are o.
Count(slots, o) == Cardinality({i \in DOMAIN slots : slots[i] = o})

\* ref_ after the references of some slots are made and those of others given back.
Refs(made, released) ==
  [o \in Objects |-> ref_[o] + Count(made, o) - Count(released, o)]

Fits(n) == n <= MaxLength
Few(refs) == \A o \in Objects : refs[o] <= MaxRefs

Breaks(how) == broken' = broken \cup {how}

UsesNull == /\ Breaks("null")
 /\ UNCHANGED <<list, handles, ref_>>

-----------------------------------------------------------------------------
(* The program's own references. *)

\* o->copy( o, 0 )
Copy(o) == /\ handles[o] > 0
           /\ handles' = [handles EXCEPT ![o] = @ + 1]
           /\ ref_' = Refs(<<o>>, << >>) /\ Few(ref_')
           /\ UNCHANGED <<list, broken>>

\* o->release( &o )
Release(o) == /\ handles[o] > 0
              /\ handles' = [handles EXCEPT ![o] = @ - 1]
              /\ ref_' = Refs(<< >>, <<o>>)
              /\ UNCHANGED <<list, broken>>

-----------------------------------------------------------------------------
(* One entry. *)

\* The capacity after the list was full.
MutMult(n) == n \* Mutant: no growth for a longer list
Mult(n) == IF n < Small THEN First ELSE (n * 3) \div 2

Full(s) == n_(s) >= s.n_reserved_
Reserved(s) == IF Full(s) THEN [s EXCEPT !.n_reserved_ = Mult(n_(s)), !.room = Mult(n_(s))]
               ELSE s

\* The capacity is noted before the allocation fails.
NotReserved(s) == [s EXCEPT !.n_reserved_ = Mult(n_(s))]

At(s, pos) == pos \in 0 .. n_(s) - 1
Fills(s, pos) == ~At(s, pos) /\ Empty \in ToSet(s.ptr_)

\* Mutant: the entries behind are not moved.
MutInserted(s, o, pos) ==
  IF At(s, pos) THEN [s EXCEPT !.ptr_ = ReplaceAt(@, pos + 1, o)]
  ELSE [Reserved(s) EXCEPT !.ptr_ = Append(@, o)]

Inserted(s, o, pos) ==
  [Reserved(s) EXCEPT !.ptr_ = InsertAt(@, (IF At(s, pos) THEN pos ELSE n_(s)) + 1, o)]

\* The list after oyStructList_MoveIn( list, &o, pos, 0 ); all empty slots are filled.
MovedIn(s, o, pos) ==
  IF Fills(s, pos) THEN [s EXCEPT !.ptr_ = [i \in DOMAIN @ |-> IF @[i] = Empty THEN o ELSE @[i]]]
  ELSE Inserted(s, o, pos)

\* When it filled slots the handle is not reset, and the caller still has it.
MoveIn(l, o, pos) ==
  /\ handles[o] > 0
  /\ Fits(n_(list[l]) + 1)
  /\ handles' = IF Fills(list[l], pos) THEN handles ELSE [handles EXCEPT ![o] = @ - 1]
  /\ \/ /\ list' = [list EXCEPT ![l] = MovedIn(@, o, pos)]
        /\ UNCHANGED broken
     \/ /\ Full(list[l]) /\ ~Fills(list[l], pos)
        /\ list' = [list EXCEPT ![l] = NotReserved(@)]
        /\ Breaks("memory")
  /\ UNCHANGED ref_

Released(s, pos) == [s EXCEPT !.ptr_ = RemoveAt(@, pos + 1)]

\* Mutant: the entry is not released.
MutReleaseAt(l, pos) ==
  /\ At(list[l], pos)
  /\ list' = [list EXCEPT ![l] = Released(@, pos)]
  /\ UNCHANGED <<handles, ref_, broken>>

\* oyStructList_ReleaseAt(): "release and shrink"
ReleaseAt(l, pos) ==
  /\ At(list[l], pos)
  /\ list' = [list EXCEPT ![l] = Released(@, pos)]
  /\ ref_' = Refs(<< >>, <<list[l].ptr_[pos + 1]>>)
  /\ UNCHANGED <<handles, broken>>

\* oyStructList_GetRef()
GetRef(l, pos) ==
  /\ At(list[l], pos)
  /\ LET o == list[l].ptr_[pos + 1] IN
     /\ o # Empty
     /\ handles' = [handles EXCEPT ![o] = @ + 1]
     /\ ref_' = Refs(<<o>>, << >>) /\ Few(ref_')
  /\ UNCHANGED <<list, broken>>

\* Mutant: the position of the entry is not taken out of the account.
MutMoveTo(l, pos, new_pos) ==
  /\ At(list[l], pos) /\ At(list[l], new_pos)
  /\ pos # new_pos
  /\ LET e == list[l].ptr_[pos + 1]
         to == IF new_pos > pos THEN new_pos - 1 ELSE new_pos IN
     list' = [list EXCEPT ![l] = IF e = Empty THEN Released(@, pos)
                                 ELSE MovedIn(Released(@, pos), e, to)]
  /\ UNCHANGED <<handles, ref_, broken>>

\* oyStructList_MoveTo(): a reference, ReleaseAt and MoveIn, which may put the
\* entry into an empty slot and then leave the reference to nobody.
MoveTo(l, pos, new_pos) ==
  /\ At(list[l], pos) /\ At(list[l], new_pos)
  /\ pos # new_pos
  /\ LET e == list[l].ptr_[pos + 1] IN
     list' = [list EXCEPT ![l] = IF e = Empty THEN Released(@, pos)
                                 ELSE MovedIn(Released(@, pos), e, new_pos)]
  /\ UNCHANGED <<handles, ref_, broken>>

-----------------------------------------------------------------------------
(* The whole list. *)

\* oyStructList_Clear()
Clear(l) ==
  /\ list' = [list EXCEPT ![l].ptr_ = << >>]
  /\ ref_' = Refs(<< >>, list[l].ptr_)
  /\ UNCHANGED <<handles, broken>>

\* oyStructList_Release() of the last reference, so that the name is free again.
ReleaseList(l) ==
  /\ list' = [list EXCEPT ![l] = New]
  /\ ref_' = Refs(<< >>, list[l].ptr_)
  /\ UNCHANGED <<handles, broken>>

\* A list after MoveIn of the first slots of another one, by their number.
CopiedInto(cleared, slots) ==
  LET after[k \in 0 .. Len(slots)] ==
        IF k = 0 THEN cleared ELSE MovedIn(after[k - 1], slots[k], -1)
  IN  after

\* oyStructList_CopyFrom(): Clear, and MoveIn of a new reference to each entry of
\* the other list.  The k-th MoveIn may fail, and ends the copying.
CopyFrom(l, from) ==
  LET slots == IF l = from THEN << >> ELSE list[from].ptr_
      after == CopiedInto([list[l] EXCEPT !.ptr_ = << >>], slots)
  IN IF Empty \in ToSet(slots) THEN UsesNull
     ELSE /\ \/ /\ list' = [list EXCEPT ![l] = after[Len(slots)]]
                /\ ref_' = Refs(slots, list[l].ptr_) /\ Few(ref_')
                /\ UNCHANGED broken
             \/ \E k \in 0 .. Len(slots) - 1 :
                  /\ Full(after[k])
                  /\ list' = [list EXCEPT ![l] = NotReserved(after[k])]
                  /\ ref_' = Refs(SubSeq(slots, 1, k + 1), list[l].ptr_)
                  /\ Breaks("memory")
          /\ UNCHANGED handles

\* oyStructList_Copy( from, object ): l is the new list.
CopyList(l, from) ==
  LET s == list[from]
      capacity == IF n_(s) > First THEN (n_(s) * 3) \div 2 ELSE First
  IN /\ list[l] = New /\ l # from
     /\ IF Empty \in ToSet(s.ptr_) THEN UsesNull
        ELSE \/ /\ list' = [list EXCEPT ![l] = [ptr_ |-> s.ptr_, n_reserved_ |-> capacity, room |-> capacity]]
                /\ ref_' = Refs(s.ptr_, << >>) /\ Few(ref_')
                /\ UNCHANGED <<handles, broken>>
             \/ UsesNull

\* Some positions up to n, in their order, behind others.
Behind(sorted, best, n) ==
  LET moved[i \in 0 .. n] == IF i = 0 THEN sorted
                             ELSE IF i \in best THEN Append(moved[i - 1], i) ELSE moved[i - 1]
  IN  moved[n]

\* One round of oyStructList_Sort(): the positions of the highest rank among those
\* left move behind the sorted ones; those of the lowest rank there is are not found.
SortRound(st, rank) ==
  LET found == {rank[i] : i \in st.left} \ {MinRank}
      max   == CHOOSE m \in found : \A r \in found : r <= m
      best  == {i \in st.left : rank[i] = max}
  IN  IF found = {} THEN st
      ELSE [left |-> st.left \ best, sorted |-> Behind(st.sorted, best, Len(rank))]

\* As many rounds as there are slots.
Rounds(slots, rank) ==
  LET after[j \in 0 .. Len(slots)] ==
        IF j = 0 THEN [left |-> {i \in DOMAIN slots : slots[i] # Empty}, sorted |-> << >>]
        ELSE SortRound(after[j - 1], rank)
  IN  after

Sorted(slots, rank) ==
  LET order == Rounds(slots, rank)[Len(slots)].sorted
  IN  [i \in DOMAIN slots |-> IF i <= Len(order) THEN slots[order[i]] ELSE Empty]

Lost(slots, rank) == \E i \in DOMAIN slots : slots[i] # Empty /\ rank[i] = MinRank

\* Mutant: a sort that begins with the lowest rank
MutSort(l, rank) == /\ list' = [list EXCEPT ![l].ptr_ = Reverse(Sorted(Reverse(@), Reverse(rank)))]
                    /\ IF Lost(list[l].ptr_, rank) THEN Breaks("rank") ELSE UNCHANGED broken
                    /\ UNCHANGED <<handles, ref_>>

\* oyStructList_Sort( list, rank ); that the ranks are sorted too, for the caller, is
\* left out.
Sort(l, rank) == /\ list' = [list EXCEPT ![l].ptr_ = Sorted(@, rank)]
                 /\ IF Lost(list[l].ptr_, rank) THEN Breaks("rank") ELSE UNCHANGED broken
                 /\ UNCHANGED <<handles, ref_>>

\* Without memory for the ordered copy it returns, and leaves the list locked.
SortFails(l) == /\ n_(list[l]) > 0
                /\ Breaks("memory")
                /\ UNCHANGED <<list, handles, ref_>>

-----------------------------------------------------------------------------
\* A destroyed object in a list or in the hands of the program.
Dangling == \E o \in Objects :
              ref_[o] = 0 /\ (handles[o] > 0 \/ \E l \in Lists : o \in ToSet(list[l].ptr_))

\* Nothing is said of a program that goes on without memory or uses what is gone.
Next ==
  /\ broken \subseteq {"rank"} /\ ~Dangling
  /\ \/ \E o \in Objects : Copy(o) \/ Release(o)
     \/ \E l \in Lists :
          \/ \E pos \in -1 .. n_(list[l]) - 1 :
               \/ \E o \in Objects : MoveIn(l, o, pos)
               \/ ReleaseAt(l, pos) \/ GetRef(l, pos)
               \/ \E new_pos \in 0 .. n_(list[l]) - 1 : MoveTo(l, pos, new_pos)
          \/ \E from \in Lists : CopyFrom(l, from) \/ CopyList(l, from)
          \/ \E rank \in [1 .. n_(list[l]) -> Ranks] : Sort(l, rank)
          \/ SortFails(l) \/ Clear(l) \/ ReleaseList(l)

Spec == Init /\ [][Next]_vars

-----------------------------------------------------------------------------
(* Properties. *)

\* Every pointer a list writes or reads is inside of its memory, and n_reserved_
\* tells how much that is; a slot is empty only after a rank was the lowest.
InsideRoom ==
  \A l \in Lists :
    /\ "memory" \notin broken =>
         n_(list[l]) <= list[l].n_reserved_ /\ list[l].n_reserved_ = list[l].room
    /\ "rank" \notin broken => Empty \notin ToSet(list[l].ptr_)

\* The entries of all lists that are o.
Places(o) == {p \in Lists \X (1 .. MaxLength) :
                p[2] <= n_(list[p[1]]) /\ list[p[1]].ptr_[p[2]] = o}

\* Each reference has one owner: ref_ is what the program and the lists hold.
OneOwner == broken = {} => \A o \in Objects : ref_[o] = handles[o] + Cardinality(Places(o))

\* oyStructList_MoveTo() puts the entry where it shall be, before or behind its old
\* place, and keeps the others in their order.
MovesToPlace ==
  [][\A l \in Lists : \A pos, new_pos \in 0 .. n_(list[l]) - 1 :
       broken = {} /\ MoveTo(l, pos, new_pos) =>
         LET old == list[l].ptr_
             new == list'[l].ptr_
         IN /\ new[new_pos + 1] = old[pos + 1]
            /\ RemoveAt(new, new_pos + 1) = RemoveAt(old, pos + 1)]_vars

\* Positions in the order of descending rank, and as before among equals.
Before(rank, i, j) == rank[i] > rank[j] \/ (rank[i] = rank[j] /\ i < j)

InOrder(order, rank) ==
  \A i, j \in DOMAIN order : i < j => Before(rank, order[i], order[j])

\* oyStructList_Sort() is a stable sort by descending rank.
SortsByRank ==
  [][\A l \in Lists : \A rank \in [1 .. n_(list[l]) -> Ranks \ {MinRank}] :
       broken = {} /\ Sort(l, rank) =>
         \E order \in [DOMAIN rank -> DOMAIN rank] :
           /\ InOrder(order, rank)
           /\ list'[l].ptr_ = [i \in DOMAIN order |-> list[l].ptr_[order[i]]]]_vars

\* Lists implement sequences of shared objects, until something is broken.
Promise == INSTANCE SharedLists WITH
             lists <- [l \in Lists |-> list[l].ptr_],
             alive <- {o \in Objects : ref_[o] > 0}
RefinesLists == Promise!Spec
==============================================================================
