------------------------ MODULE ObserverSignals_proofs ------------------------
(***************************************************************************)
(* The signals of module ObserverSignals, for any objects, handlers and    *)
(* edges, forwarding edges in a cycle included, and for any number of      *)
(* signals that handlers send.                                             *)
(***************************************************************************)
EXTENDS ObserverSignals, WellFoundedInduction, SequenceTheorems, TLAPS

-----------------------------------------------------------------------------
(* Loops of the code over lists are functions of the number of rounds, defined *)
(* by recursion.  The library's theorems on induction and recursion have       *)
(* operators as parameters; here they have sets and functions in their place.  *)

LEMMA NatIsWellFounded == IsWellFoundedOn({p \in Nat \X Nat : p[1] < p[2]}, Nat)
BY NatLessThanWellFounded DEF OpToRel

\* A set with 0 and the successor of each member has all natural numbers.
LEMMA SetInduction ==
  ASSUME NEW S \in SUBSET Nat, 0 \in S, \A n \in S : n + 1 \in S
  PROVE  S = Nat
<1> DEFINE R == {p \in Nat \X Nat : p[1] < p[2]}
<1>1. SUFFICES ASSUME Nat \ S # {} PROVE FALSE
  OBVIOUS
<1>2. IsWellFoundedOn(R, Nat)
  BY NatIsWellFounded
<1> HIDE DEF R
<1>3. PICK n \in Nat \ S : \A m \in Nat \ S : ~ (<<m, n>> \in R)
  BY <1>1, <1>2, WFMin
<1>4. n # 0 /\ n - 1 \in Nat
  OBVIOUS
<1>5. <<n - 1, n>> \in R
  BY <1>4 DEF R
<1>6. n - 1 \in S
  BY <1>3, <1>4, <1>5
<1> QED BY <1>4, <1>6

\* The values g of n rounds that begin with base, where round k makes Step[<<k, x>>]
\* of x.
AreRounds(g, n, base, Step) ==
  g = [k \in 0 .. n |-> IF k = 0 THEN base ELSE Step[<<k, g[k - 1]>>]]

\* There are such values, in the set that the rounds do not leave.
LEMMA RoundsExist ==
  ASSUME NEW X, NEW base \in X, NEW n \in Nat, NEW Step \in [(1 .. n) \X X -> X]
  PROVE  \E g \in [0 .. n -> X] : AreRounds(g, n, base, Step)
<1> DEFINE Solves(g, m) == /\ g \in [0 .. m -> X]
                           /\ g[0] = base
                           /\ \A k \in 1 .. m : g[k] = Step[<<k, g[k - 1]>>]
           S == {m \in Nat : m <= n => \E g : Solves(g, m)}
<1>1. 0 \in S
  <2>1. Solves([k \in 0 .. 0 |-> base], 0)
    OBVIOUS
  <2> QED BY <2>1
<1>2. ASSUME NEW m \in S, m + 1 <= n PROVE m + 1 \in S
  <2>1. PICK g : Solves(g, m)
    BY <1>2
  <2> DEFINE h == [k \in 0 .. (m + 1) |-> IF k <= m THEN g[k] ELSE Step[<<m + 1, g[m]>>]]
  <2>2. m \in Nat /\ m + 1 \in 1 .. n /\ g[m] \in X
    BY <1>2, <2>1
  <2>3. Step[<<m + 1, g[m]>>] \in X
    BY <2>2
  <2>4. h \in [0 .. (m + 1) -> X] /\ h[0] = base
    BY <2>1, <2>2, <2>3
  <2>5. ASSUME NEW k \in 1 .. (m + 1) PROVE h[k] = Step[<<k, h[k - 1]>>]
    <3>1. k - 1 \in 0 .. m /\ h[k - 1] = g[k - 1]
      BY <2>2
    <3>2. CASE k <= m
      <4>1. h[k] = g[k] /\ k \in 1 .. m
        BY <2>2, <3>2
      <4> QED BY <2>1, <3>1, <4>1
    <3>3. CASE k = m + 1
      <4>1. h[k] = Step[<<m + 1, g[m]>>] /\ k - 1 = m
        BY <2>2, <3>3
      <4> QED BY <3>1, <3>3, <4>1
    <3> QED BY <2>2, <3>2, <3>3
  <2>6. Solves(h, m + 1)
    BY <2>4, <2>5
  <2> HIDE DEF Solves
  <2> QED BY <2>2, <2>6
<1>3. S = Nat
  <2>1. \A m \in S : m + 1 \in S
    <3>1. ASSUME NEW m \in S, ~ (m + 1 <= n) PROVE m + 1 \in S
      BY <3>1
    <3> HIDE DEF S
    <3> QED BY <1>2, <3>1
  <2>2. S \in SUBSET Nat
    OBVIOUS
  <2> HIDE DEF S
  <2> QED BY <1>1, <2>1, <2>2, SetInduction
<1>4. PICK g : Solves(g, n)
  <2>1. n \in S
    BY <1>3
  <2> QED BY <2>1
<1>5. \A k \in 0 .. n : g[k] = IF k = 0 THEN base ELSE Step[<<k, g[k - 1]>>]
  BY <1>4
<1>6. g = [k \in 0 .. n |-> IF k = 0 THEN base ELSE Step[<<k, g[k - 1]>>]]
  <2>1. g = [k \in 0 .. n |-> g[k]]
    BY <1>4
  <2> QED BY <1>5, <2>1
<1> QED BY <1>4, <1>6 DEF AreRounds

-----------------------------------------------------------------------------

SignalFunctions == Handlers \cup {Forward}

EdgeKeys == Objects \X SignalFunctions

Entries == [observer : Objects, signal : SignalFunctions, disable_ref : Nat]

FrameRecords == [model : Objects, start : Seq(EdgeKeys), i : Nat, served : Seq(EdgeKeys),
                 gone : SUBSET EdgeKeys, at : {"next", "handler", "forward"}]

Types == /\ observers \in [Objects -> Seq(Entries)]
         /\ oy_observer_flags \in BOOLEAN
         /\ stack \in Seq(FrameRecords)
         /\ disabled \in [Objects -> Nat]

\* Nobody is in a list twice.
NoDoubles(list) ==
  \A p, q \in 1 .. Len(list) : Key(list[p]) = Key(list[q]) => p = q

\* The number of entries that a frame is through with, or waits for.
Position(f) == IF f.at = "next" THEN f.i ELSE f.i + 1

\* As long as nothing is removed the list of the beginning is the head of the
\* present one, and those served are the head of it.
GoodFrame(f, lists) ==
  /\ Position(f) <= Len(f.start)
  /\ f.gone = {} =>
       /\ Len(f.start) <= Len(lists[f.model])
       /\ \A k \in 1 .. Len(f.start) : f.start[k] = Key(lists[f.model][k])
       /\ Len(f.served) = Position(f)
       /\ \A k \in 1 .. Position(f) : f.served[k] = f.start[k]

\* Only the last frame may be between two entries, the others wait for a handler
\* or for the signal that they forwarded.
CallersWait == \A d \in 1 .. Len(stack) - 1 : stack[d].at # "next"

StackGood == CallersWait /\ \A d \in 1 .. Len(stack) : GoodFrame(stack[d], observers)

SignalsInv == Types /\ StackGood /\ \A m \in Objects : NoDoubles(observers[m])

DisableInv ==
  /\ Types
  /\ \A m \in Objects : \A k \in 1 .. Len(observers[m]) :
       observers[m][k].disable_ref <= disabled[m]

-----------------------------------------------------------------------------
(* A list without an observer.                                                *)

\* One step of the function kept of Without().
Kept(list, o, g, i) ==
  IF i = 0 THEN << >>
  ELSE IF list[i].observer = o THEN g[i - 1] ELSE Append(g[i - 1], list[i])

\* Without() is the last value of that function, which exists.
LEMMA WithoutIsKept ==
  ASSUME NEW list \in Seq(Entries), NEW o
  PROVE  \E g : /\ g = [i \in 0 .. Len(list) |-> Kept(list, o, g, i)]
                /\ Without(list, o) = g[Len(list)]
<1> DEFINE n == Len(list)
           X == Seq(Entries)
           Step == [p \in (1 .. n) \X X |->
                      IF list[p[1]].observer = o THEN p[2] ELSE Append(p[2], list[p[1]])]
<1>1. n \in Nat /\ << >> \in X /\ \A k \in 1 .. n : list[k] \in Entries
  BY ElementOfSeq
<1>2. Step \in [(1 .. n) \X X -> X]
  <2>1. ASSUME NEW p \in (1 .. n) \X X
        PROVE  (IF list[p[1]].observer = o THEN p[2] ELSE Append(p[2], list[p[1]])) \in X
    <3>1. p[1] \in 1 .. n /\ p[2] \in X
      OBVIOUS
    <3> QED BY <1>1, <3>1, AppendProperties
  <2> HIDE DEF n, X
  <2> QED BY <2>1
<1>3. PICK f \in [0 .. n -> X] : AreRounds(f, n, << >>, Step)
  <2>1. n \in Nat /\ << >> \in X
    BY <1>1
  <2> HIDE DEF n, X, Step
  <2> QED BY <2>1, <1>2, RoundsExist
<1>4. f = [i \in 0 .. n |-> Kept(list, o, f, i)]
  <2>1. ASSUME NEW i \in 0 .. n
        PROVE  (IF i = 0 THEN << >> ELSE Step[<<i, f[i - 1]>>]) = Kept(list, o, f, i)
    <3>1. CASE i = 0
      BY <3>1 DEF Kept
    <3>2. CASE i # 0
      <4>1. i \in 1 .. n /\ i - 1 \in 0 .. n
        BY <1>1, <3>2
      <4>2. f[i - 1] \in X
        BY <1>3, <4>1
      <4>3. <<i, f[i - 1]>> \in (1 .. n) \X X
        BY <4>1, <4>2
      <4>4. Step[<<i, f[i - 1]>>] = IF list[i].observer = o THEN f[i - 1]
                                    ELSE Append(f[i - 1], list[i])
        BY <4>3
      <4> QED BY <3>2, <4>4 DEF Kept
    <3> QED BY <3>1, <3>2
  <2> HIDE DEF n, X, Step
  <2> QED BY <1>3, <2>1 DEF AreRounds
<1> DEFINE g == CHOOSE h : h = [i \in 0 .. n |-> Kept(list, o, h, i)]
<1>5. g = [i \in 0 .. n |-> Kept(list, o, g, i)]
  BY <1>4
<1>6. Without(list, o) = g[n]
  BY DEF Without, Kept
<1> HIDE DEF g
<1> QED BY <1>5, <1>6

\* Entries that remain are entries of the list, and nobody is in it twice if
\* nobody was before.
LEMMA WithoutProperties ==
  ASSUME NEW list \in Seq(Entries), NEW o
  PROVE  /\ Without(list, o) \in Seq(Entries)
         /\ \A k \in 1 .. Len(Without(list, o)) :
              \E l \in 1 .. Len(list) : Without(list, o)[k] = list[l]
         /\ NoDoubles(list) => NoDoubles(Without(list, o))
<1> DEFINE N == Len(list)
<1>1. N \in Nat
  OBVIOUS
<1>2. PICK g : /\ g = [i \in 0 .. N |-> Kept(list, o, g, i)]
              /\ Without(list, o) = g[N]
  BY WithoutIsKept
<1> DEFINE From(n) == /\ g[n] \in Seq(Entries)
                      /\ \A k \in 1 .. Len(g[n]) : \E l \in 1 .. n : g[n][k] = list[l]
                      /\ NoDoubles(list) => NoDoubles(g[n])
           S == {n \in Nat : n <= N => From(n)}
<1>3. 0 \in S
  <2>1. g[0] = << >>
    BY <1>1, <1>2 DEF Kept
  <2>2. g[0] \in Seq(Entries) /\ Len(g[0]) = 0
    BY <2>1
  <2> QED BY <2>2 DEF NoDoubles
<1>4. ASSUME NEW n \in S PROVE n + 1 \in S
  <2> SUFFICES ASSUME n + 1 <= N PROVE From(n + 1)
    OBVIOUS
  <2>1. /\ g[n] \in Seq(Entries)
        /\ \A k \in 1 .. Len(g[n]) : \E l \in 1 .. n : g[n][k] = list[l]
        /\ NoDoubles(list) => NoDoubles(g[n])
    BY <1>1
  <2>2. g[n + 1] = IF list[n + 1].observer = o THEN g[n] ELSE Append(g[n], list[n + 1])
    <3>1. n + 1 \in 0 .. N /\ n + 1 # 0 /\ (n + 1) - 1 = n
      BY <1>1
    <3>2. g[n + 1] = Kept(list, o, g, n + 1)
      <4> HIDE DEF N
      <4> QED BY <1>2, <3>1
    <3> QED BY <3>1, <3>2 DEF Kept
  <2>3. CASE list[n + 1].observer = o
    BY <2>1, <2>2, <2>3
  <2>4. CASE list[n + 1].observer # o
    <3> DEFINE s == g[n]
               t == g[n + 1]
               e == list[n + 1]
    <3>1. e \in Entries
      BY <1>1, ElementOfSeq
    <3>2. t = Append(s, e)
      BY <2>2, <2>4
    <3> HIDE DEF s, t, e
    <3>3. s \in Seq(Entries)
      BY <2>1 DEF s
    <3>4. /\ t \in Seq(Entries) /\ Len(t) = Len(s) + 1 /\ Len(s) \in Nat
          /\ \A k \in 1 .. Len(s) : t[k] = s[k]
          /\ t[Len(s) + 1] = e
      BY <3>1, <3>2, <3>3, AppendProperties
    <3>5. \A k \in 1 .. Len(s) : \E l \in 1 .. n : s[k] = list[l]
      BY <2>1 DEF s
    <3>6. \A k \in 1 .. Len(t) : \E l \in 1 .. (n + 1) : t[k] = list[l]
      <4> SUFFICES ASSUME NEW k \in 1 .. Len(t) PROVE \E l \in 1 .. (n + 1) : t[k] = list[l]
        OBVIOUS
      <4>1. CASE k \in 1 .. Len(s)
        <5>1. PICK l \in 1 .. n : s[k] = list[l]
          BY <3>5, <4>1
        <5>2. t[k] = s[k]
          BY <3>4, <4>1
        <5> QED BY <5>1, <5>2
      <4>2. CASE k = Len(s) + 1
        BY <3>4, <4>2 DEF e
      <4> QED BY <3>4, <4>1, <4>2
    <3>7. ASSUME NoDoubles(list) PROVE NoDoubles(t)
      <4>1. \A k \in 1 .. Len(s) : Key(s[k]) # Key(e)
        <5> SUFFICES ASSUME NEW k \in 1 .. Len(s), Key(s[k]) = Key(e) PROVE FALSE
          OBVIOUS
        <5>1. PICK l \in 1 .. n : s[k] = list[l]
          BY <3>5
        <5>2. /\ l \in 1 .. Len(list) /\ n + 1 \in 1 .. Len(list)
              /\ Key(list[l]) = Key(list[n + 1])
          BY <5>1, <1>1 DEF e
        <5>3. l = n + 1
          BY <3>7, <5>2 DEF NoDoubles
        <5> QED BY <5>3
      <4>2. NoDoubles(s)
        BY <2>1, <3>7 DEF s
      <4> SUFFICES ASSUME NEW p \in 1 .. Len(t), NEW q \in 1 .. Len(t), Key(t[p]) = Key(t[q])
                   PROVE  p = q
        BY DEF NoDoubles
      <4>3. p \in 1 .. Len(s) \/ p = Len(s) + 1
        BY <3>4
      <4>4. q \in 1 .. Len(s) \/ q = Len(s) + 1
        BY <3>4
      <4> QED BY <3>4, <4>1, <4>2, <4>3, <4>4 DEF NoDoubles
    <3> QED BY <3>4, <3>6, <3>7 DEF t
  <2> QED BY <2>3, <2>4
<1>5. S = Nat
  <2> HIDE DEF From
  <2> QED BY <1>3, <1>4, SetInduction
<1>6. From(N)
  BY <1>1, <1>5
<1> QED BY <1>2, <1>6

-----------------------------------------------------------------------------
(* Types.                                                                     *)

LEMMA KeyTyped == \A e \in Entries : Key(e) \in EdgeKeys
BY DEF Entries, EdgeKeys, Key

\* The keys of a list.
LEMMA KeysProperties ==
  ASSUME NEW list \in Seq(Entries)
  PROVE  /\ Keys(list) \in Seq(EdgeKeys)
         /\ Len(Keys(list)) = Len(list)
         /\ \A k \in 1 .. Len(list) : Keys(list)[k] = Key(list[k])
<1>1. /\ Len(list) \in Nat
      /\ \A k \in 1 .. Len(list) : list[k] \in Entries
  BY ElementOfSeq
<1>2. Keys(list) = [k \in 1 .. Len(list) |-> Key(list[k])]
  BY DEF Keys
<1>3. \A k \in 1 .. Len(list) : Key(list[k]) \in EdgeKeys
  BY <1>1, KeyTyped
<1> QED BY <1>1, <1>2, <1>3, IsASeq

\* The stack with another last frame.
LEMMA WithTopProperties ==
  ASSUME Types, stack # << >>, NEW f \in FrameRecords
  PROVE  /\ Len(stack) \in Nat \ {0}
         /\ Top \in FrameRecords
         /\ WithTop(f) \in Seq(FrameRecords)
         /\ Len(WithTop(f)) = Len(stack)
         /\ \A d \in 1 .. Len(stack) :
              WithTop(f)[d] = IF d = Len(stack) THEN f ELSE stack[d]
<1>1. stack \in Seq(FrameRecords)
  BY DEF Types
<1>2. Len(stack) \in Nat \ {0} /\ Len(stack) \in 1 .. Len(stack)
  BY <1>1, EmptySeq
<1>3. Top \in FrameRecords
  BY <1>1, <1>2, ElementOfSeq DEF Top
<1>4. /\ WithTop(f) \in Seq(FrameRecords)
      /\ Len(WithTop(f)) = Len(stack)
      /\ \A d \in 1 .. Len(stack) : WithTop(f)[d] = IF d = Len(stack) THEN f ELSE stack[d]
  BY <1>1, <1>2, ExceptSeq DEF WithTop
<1> QED BY <1>2, <1>3, <1>4

\* The new frame of a signal.
LEMMA NewFrameTyped ==
  ASSUME Types, NEW m \in Objects
  PROVE  NewFrame(m) \in FrameRecords
<1>1. Keys(observers[m]) \in Seq(EdgeKeys)
  BY KeysProperties DEF Types
<1> QED BY <1>1 DEF NewFrame, FrameRecords

\* The entry that the loop is at, and the frame after it.
LEMMA ServedProperties ==
  ASSUME Types, HasEntry, NEW at \in {"next", "handler", "forward"}
  PROVE  /\ stack # << >>
         /\ Top.i + 1 \in 1 .. Len(observers[Top.model])
         /\ Entry \in Entries
         /\ Key(Entry) \in EdgeKeys
         /\ Served(at) \in FrameRecords
<1>1. stack # << >> /\ Top \in FrameRecords
  <2>1. stack # << >>
    BY DEF HasEntry, InLoop
  <2>2. Len(stack) \in 1 .. Len(stack)
    BY <2>1, EmptySeq DEF Types
  <2> QED BY <2>1, <2>2, ElementOfSeq DEF Top, Types
<1>2. Top.i \in Nat /\ Top.model \in Objects /\ Top.served \in Seq(EdgeKeys)
  BY <1>1 DEF FrameRecords
<1>3. observers[Top.model] \in Seq(Entries)
  BY <1>2 DEF Types
<1>4. Top.i + 1 \in 1 .. Len(observers[Top.model])
  BY <1>2, <1>3 DEF HasEntry
<1>5. Entry \in Entries
  BY <1>3, <1>4, ElementOfSeq DEF Entry
<1>6. Key(Entry) \in EdgeKeys
  BY <1>5, KeyTyped
<1>7. Append(Top.served, Key(Entry)) \in Seq(EdgeKeys)
  BY <1>2, <1>6, AppendProperties
<1>8. Served(at) \in FrameRecords
  <2> DEFINE f == Top
             next == Append(Top.served, Key(Entry))
             j == IF at = "next" THEN Top.i + 1 ELSE Top.i
  <2>1. f \in FrameRecords /\ next \in Seq(EdgeKeys) /\ j \in Nat
    BY <1>1, <1>2, <1>7
  <2>2. Served(at) = [f EXCEPT !.served = next, !.at = at, !.i = j]
    BY DEF Served
  <2> HIDE DEF f, next, j
  <2> QED BY <2>1, <2>2 DEF FrameRecords
<1> QED BY <1>1, <1>4, <1>5, <1>6, <1>8

\* The stack that a return leaves.
Below == SubSeq(stack, 1, Len(stack) - 1)

LEMMA BelowProperties ==
  ASSUME Types, stack # << >>
  PROVE  /\ Below \in Seq(FrameRecords)
         /\ Front(stack) = Below
         /\ Len(stack) \in Nat \ {0}
         /\ Len(Below) = Len(stack) - 1
         /\ \A d \in 1 .. Len(Below) : Below[d] = stack[d] /\ stack[d] \in FrameRecords
<1>1. stack \in Seq(FrameRecords) /\ Len(stack) \in Nat \ {0}
  BY EmptySeq DEF Types
<1>2. /\ Below \in Seq(FrameRecords)
      /\ Len(Below) = Len(stack) - 1
      /\ \A d \in 1 .. Len(Below) : Below[d] = stack[d]
  <2> DEFINE n == Len(stack) - 1
  <2>1. n \in Nat /\ 1 \in Int /\ n \in Int
    BY <1>1
  <2>2. \A d \in 1 .. n : stack[d] \in FrameRecords
    BY <1>1, ElementOfSeq
  <2> HIDE DEF n
  <2>3. /\ SubSeq(stack, 1, n) \in Seq(FrameRecords)
        /\ Len(SubSeq(stack, 1, n)) = IF 1 <= n THEN n - 1 + 1 ELSE 0
        /\ \A d \in 1 .. n - 1 + 1 : SubSeq(stack, 1, n)[d] = stack[1 + d - 1]
    BY <2>1, <2>2, SubSeqProperties
  <2>4. n - 1 + 1 = n /\ \A d \in 1 .. n : 1 + d - 1 = d
    BY <2>1
  <2>5. Below = SubSeq(stack, 1, n)
    BY DEF Below, n
  <2> QED BY <2>1, <2>3, <2>4, <2>5 DEF n
<1>3. \A d \in 1 .. Len(Below) : stack[d] \in FrameRecords
  BY <1>1, <1>2, ElementOfSeq
<1> QED BY <1>1, <1>2, <1>3 DEF Front, Below

\* ObserverRemove() notes the removed edges in the frames of the model.
RemovedFrame(f, m, keys) ==
  IF f.model # m THEN f ELSE [f EXCEPT !.gone = @ \cup keys]

RemovedKeys(m, o) == {k \in ToSet(Keys(observers[m])) : k[1] = o}

LEMMA RemoveProperties ==
  ASSUME Types, NEW m \in Objects, NEW o \in Objects, ObserverRemove(m, o)
  PROVE  /\ RemovedKeys(m, o) \subseteq EdgeKeys
         /\ RemovedKeys(m, o) # {}
         /\ stack' \in Seq(FrameRecords)
         /\ Len(stack') = Len(stack)
         /\ \A d \in 1 .. Len(stack) :
              /\ stack[d] \in FrameRecords
              /\ stack'[d] = RemovedFrame(stack[d], m, RemovedKeys(m, o))
<1> DEFINE keys == RemovedKeys(m, o)
<1>1. keys \subseteq EdgeKeys /\ keys # {}
  <2>1. Keys(observers[m]) \in Seq(EdgeKeys)
    BY KeysProperties DEF Types
  <2>2. ToSet(Keys(observers[m])) \subseteq EdgeKeys
    BY <2>1, ElementOfSeq DEF ToSet
  <2> QED BY <2>2 DEF RemovedKeys, ObserverRemove
<1>2. stack \in Seq(FrameRecords) /\ Len(stack) \in Nat
  BY DEF Types
<1>3. \A d \in 1 .. Len(stack) : stack[d] \in FrameRecords
  BY <1>2, ElementOfSeq
<1>4. stack' = [d \in 1 .. Len(stack) |-> RemovedFrame(stack[d], m, keys)]
  BY DEF ObserverRemove, RemovedFrame, RemovedKeys
<1> HIDE DEF keys
<1>5. \A d \in 1 .. Len(stack) : RemovedFrame(stack[d], m, keys) \in FrameRecords
  BY <1>1, <1>3 DEF RemovedFrame, FrameRecords
<1>6. stack' \in Seq(FrameRecords)
  BY <1>2, <1>4, <1>5, IsASeq
<1>7. Len(stack') = Len(stack)
  BY <1>2, <1>4
<1> QED BY <1>1, <1>3, <1>4, <1>6, <1>7 DEF keys

\* Disable() and Enable() change the counts of a list and nothing else.
LEMMA DisableProperties ==
  ASSUME Types, NEW m \in Objects, Disable(m) \/ Enable(m)
  PROVE  /\ \A x \in Objects : /\ observers'[x] \in Seq(Entries)
                               /\ Len(observers'[x]) = Len(observers[x])
                               /\ x # m => observers'[x] = observers[x]
         /\ \A k \in 1 .. Len(observers[m]) :
              /\ observers[m][k] \in Entries
              /\ Key(observers'[m][k]) = Key(observers[m][k])
              /\ observers'[m][k].disable_ref =
                   IF disabled'[m] = disabled[m] + 1 THEN observers[m][k].disable_ref + 1
                   ELSE OneLess(observers[m][k].disable_ref)
         /\ observers' \in [Objects -> Seq(Entries)]
<1> DEFINE list == observers[m]
           next == observers'[m]
<1>1. list \in Seq(Entries) /\ Len(list) \in Nat /\ DOMAIN list = 1 .. Len(list)
  BY DEF Types
<1>2. \A k \in 1 .. Len(list) : list[k] \in Entries
  BY <1>1, ElementOfSeq
<1>3. disabled \in [Objects -> Nat] /\ observers \in [Objects -> Seq(Entries)]
  BY DEF Types
<1>4. /\ \A x \in Objects : x # m => observers'[x] = observers[x]
      /\ DOMAIN observers' = Objects /\ observers' = [x \in Objects |-> observers'[x]]
  BY <1>3 DEF Disable, Enable
<1>5. ASSUME Disable(m)
      PROVE  /\ next = [k \in 1 .. Len(list) |->
                          [list[k] EXCEPT !.disable_ref = list[k].disable_ref + 1]]
             /\ disabled'[m] = disabled[m] + 1
  <2>1. next = AllDisabled(list) /\ disabled'[m] = disabled[m] + 1
    BY <1>3, <1>5 DEF Disable
  <2> QED BY <1>1, <2>1 DEF AllDisabled
<1>6. ASSUME Enable(m)
      PROVE  /\ next = [k \in 1 .. Len(list) |->
                          [list[k] EXCEPT !.disable_ref = OneLess(list[k].disable_ref)]]
             /\ disabled'[m] # disabled[m] + 1
  <2>1. next = AllEnabled(list) /\ disabled'[m] # disabled[m] + 1
    BY <1>3, <1>6 DEF Enable
  <2> QED BY <1>1, <2>1 DEF AllEnabled
<1> DEFINE count(k) == IF disabled'[m] = disabled[m] + 1 THEN list[k].disable_ref + 1
                       ELSE OneLess(list[k].disable_ref)
           entry(k) == [list[k] EXCEPT !.disable_ref = count(k)]
<1>7. next = [k \in 1 .. Len(list) |-> entry(k)]
  BY <1>5, <1>6
<1> HIDE DEF next
<1>8. \A k \in 1 .. Len(list) :
        entry(k) \in Entries /\ Key(entry(k)) = Key(list[k]) /\ entry(k).disable_ref = count(k)
  <2> SUFFICES ASSUME NEW k \in 1 .. Len(list)
               PROVE  /\ entry(k) \in Entries
                      /\ Key(entry(k)) = Key(list[k])
                      /\ entry(k).disable_ref = count(k)
    OBVIOUS
  <2>1. list[k] \in Entries
    BY <1>2
  <2>2. count(k) \in Nat
    BY <2>1 DEF Entries, OneLess
  <2> HIDE DEF list, count
  <2> QED BY <2>1, <2>2 DEF Entries, Key
<1>9. next \in Seq(Entries) /\ Len(next) = Len(list)
  <2>1. \A k \in 1 .. Len(list) : entry(k) \in Entries
    BY <1>8
  <2> HIDE DEF list, entry
  <2> QED BY <1>1, <1>7, <2>1, IsASeq
<1>10. \A x \in Objects : observers'[x] \in Seq(Entries) /\ Len(observers'[x]) = Len(observers[x])
  BY <1>3, <1>4, <1>9 DEF next
<1>11. observers' \in [Objects -> Seq(Entries)]
  BY <1>4, <1>10
<1> HIDE DEF list, entry, count
<1>12. \A k \in 1 .. Len(list) : next[k] = entry(k)
  BY <1>7
<1>13. \A k \in 1 .. Len(list) : Key(next[k]) = Key(list[k]) /\ next[k].disable_ref = count(k)
  BY <1>8, <1>12
<1> USE DEF list, count
<1> QED BY <1>2, <1>4, <1>10, <1>11, <1>13 DEF next

\* A call of the program or a step of the loop, one by one.
LEMMA NextCases ==
  ASSUME Next
  PROVE  \/ \E m, o \in Objects : ObserverRemove(m, o)
         \/ \E m, o \in Objects, f \in SignalFunctions : ObserverAdd(m, o, f)
         \/ \E m \in Objects : Disable(m) \/ Enable(m)
         \/ \E m \in Objects : Signal(m)
         \/ \E block \in BOOLEAN : SetFlags(block)
         \/ HandlerReturns \/ NoEntry \/ SendNothing \/ SendHandler \/ SendForward \/ Return
<1>1. Models \subseteq Objects
  BY SignalsAssumption DEF Models
<1> QED BY <1>1 DEF Next, Program, Loop, SignalFunctions

\* The list that ObserverAdd() makes.
LEMMA AddProperties ==
  ASSUME Types, NEW m \in Objects, NEW o \in Objects, NEW f \in SignalFunctions,
         ObserverAdd(m, o, f)
  PROVE  /\ observers' \in [Objects -> Seq(Entries)]
         /\ \A x \in Objects : x # m => observers'[x] = observers[x]
         /\ Len(observers'[m]) = Len(observers[m]) + 1
         /\ \A k \in 1 .. Len(observers[m]) : observers'[m][k] = observers[m][k]
         /\ observers'[m][Len(observers[m]) + 1] = [observer |-> o, signal |-> f, disable_ref |-> 0]
<1> DEFINE e == [observer |-> o, signal |-> f, disable_ref |-> 0]
<1>1. e \in Entries
  BY DEF Entries
<1>2. observers \in [Objects -> Seq(Entries)] /\ observers[m] \in Seq(Entries)
  BY DEF Types
<1>3. observers' = [observers EXCEPT ![m] = Append(observers[m], e)]
  BY DEF ObserverAdd
<1> HIDE DEF e
<1>4. /\ Append(observers[m], e) \in Seq(Entries)
      /\ Len(Append(observers[m], e)) = Len(observers[m]) + 1
      /\ \A k \in 1 .. Len(observers[m]) : Append(observers[m], e)[k] = observers[m][k]
      /\ Append(observers[m], e)[Len(observers[m]) + 1] = e
  BY <1>1, <1>2, AppendProperties
<1>5. observers'[m] = Append(observers[m], e)
  BY <1>2, <1>3
<1>6. \A x \in Objects : x # m => observers'[x] = observers[x]
  BY <1>2, <1>3
<1>7. observers' \in [Objects -> Seq(Entries)]
  BY <1>2, <1>3, <1>4
<1> QED BY <1>4, <1>5, <1>6, <1>7 DEF e

\* A frame that goes on is a frame.
LEMMA ContinuedTyped ==
  ASSUME NEW f \in FrameRecords
  PROVE  Continued(f) \in FrameRecords
<1> DEFINE j == f.i + 1
<1>1. j \in Nat
  BY DEF FrameRecords
<1>2. Continued(f) = [f EXCEPT !.at = "next", !.i = j]
  BY DEF Continued
<1> HIDE DEF j
<1> QED BY <1>1, <1>2 DEF FrameRecords

LEMMA InitTyped ==
  ASSUME Init
  PROVE  Types /\ stack = << >> /\ \A m \in Objects : Len(observers[m]) = 0
<1>1. \A m \in Objects : observers[m] = << >>
  BY DEF Init
<1>2. << >> \in Seq(Entries) /\ << >> \in Seq(FrameRecords) /\ Len(<< >>) = 0
  OBVIOUS
<1>3. observers \in [Objects -> Seq(Entries)]
  BY <1>2 DEF Init
<1> QED BY <1>1, <1>2, <1>3 DEF Init, Types

LEMMA TypesStep ==
  ASSUME Types, Next
  PROVE  Types'
<1>0. /\ observers \in [Objects -> Seq(Entries)] /\ oy_observer_flags \in BOOLEAN
      /\ stack \in Seq(FrameRecords) /\ disabled \in [Objects -> Nat]
  BY DEF Types
<1>1. ASSUME NEW m \in Objects, NEW o \in Objects, ObserverRemove(m, o) PROVE Types'
  <2>1. observers' = [observers EXCEPT ![m] = Without(observers[m], o)]
    BY <1>1 DEF ObserverRemove
  <2>2. Without(observers[m], o) \in Seq(Entries)
    BY <1>0, WithoutProperties
  <2>3. observers' \in [Objects -> Seq(Entries)]
    BY <1>0, <2>1, <2>2
  <2>4. stack' \in Seq(FrameRecords)
    BY <1>1, RemoveProperties
  <2> QED BY <1>0, <1>1, <2>3, <2>4 DEF Types, ObserverRemove
<1>2. ASSUME NEW m \in Objects, NEW o \in Objects, NEW f \in SignalFunctions, ObserverAdd(m, o, f)
      PROVE  Types'
  BY <1>0, <1>2, AddProperties DEF Types, ObserverAdd
<1>3. ASSUME NEW m \in Objects, Disable(m) \/ Enable(m) PROVE Types'
  <2>1. observers' \in [Objects -> Seq(Entries)]
    BY <1>3, DisableProperties
  <2>2. disabled' \in [Objects -> Nat]
    <3>1. ASSUME Disable(m) PROVE disabled' \in [Objects -> Nat]
      <4>1. disabled' = [disabled EXCEPT ![m] = disabled[m] + 1] /\ disabled[m] + 1 \in Nat
        BY <1>0, <3>1 DEF Disable
      <4> QED BY <1>0, <4>1
    <3>2. ASSUME Enable(m) PROVE disabled' \in [Objects -> Nat]
      <4> DEFINE n == IF disabled[m] = 0 THEN 0 ELSE disabled[m] - 1
      <4>1. disabled' = [disabled EXCEPT ![m] = n] /\ n \in Nat
        BY <1>0, <3>2 DEF Enable
      <4> HIDE DEF n
      <4> QED BY <1>0, <4>1
    <3> QED BY <1>3, <3>1, <3>2
  <2> QED BY <1>0, <1>3, <2>1, <2>2 DEF Types, Disable, Enable
<1>4. ASSUME NEW m \in Objects, Signal(m) PROVE Types'
  <2>1. stack' \in Seq(FrameRecords)
    BY <1>0, <1>4, NewFrameTyped, AppendProperties DEF Signal
  <2> QED BY <1>0, <1>4, <2>1 DEF Types, Signal
<1>5. ASSUME NEW block \in BOOLEAN, SetFlags(block) PROVE Types'
  BY <1>0, <1>5 DEF Types, SetFlags
<1>6. ASSUME HandlerReturns PROVE Types'
  <2>1. Top \in FrameRecords
    BY <1>6, WithTopProperties, ElementOfSeq, EmptySeq DEF HandlerReturns, Top, Types
  <2>2. stack' \in Seq(FrameRecords)
    BY <1>6, <2>1, ContinuedTyped, WithTopProperties DEF HandlerReturns
  <2> QED BY <1>0, <1>6, <2>2 DEF Types, HandlerReturns
<1>7. ASSUME NoEntry PROVE Types'
  <2>1. Top \in FrameRecords /\ stack # << >>
    BY <1>7, ElementOfSeq, EmptySeq DEF NoEntry, InLoop, Top, Types
  <2>2. [Top EXCEPT !.i = @ + 1] \in FrameRecords
    BY <2>1 DEF FrameRecords
  <2>3. stack' \in Seq(FrameRecords)
    BY <1>7, <2>1, <2>2, WithTopProperties DEF NoEntry
  <2> QED BY <1>0, <1>7, <2>3 DEF Types, NoEntry
<1>8. ASSUME SendNothing PROVE Types'
  <2>1. stack' \in Seq(FrameRecords)
    BY <1>8, ServedProperties, WithTopProperties DEF SendNothing
  <2> QED BY <1>0, <1>8, <2>1 DEF Types, SendNothing
<1>9. ASSUME SendHandler PROVE Types'
  <2>1. stack' \in Seq(FrameRecords)
    BY <1>9, ServedProperties, WithTopProperties DEF SendHandler
  <2> QED BY <1>0, <1>9, <2>1 DEF Types, SendHandler
<1>10. ASSUME SendForward PROVE Types'
  <2>1. HasEntry /\ Entry \in Entries
    BY <1>10, ServedProperties DEF SendForward
  <2>2. WithTop(Served("forward")) \in Seq(FrameRecords)
    BY <2>1, ServedProperties, WithTopProperties
  <2>3. NewFrame(Entry.observer) \in FrameRecords
    BY <2>1, NewFrameTyped DEF Entries
  <2>4. stack' \in Seq(FrameRecords)
    BY <1>10, <2>2, <2>3, AppendProperties DEF SendForward
  <2> QED BY <1>0, <1>10, <2>4 DEF Types, SendForward
<1>11. ASSUME Return PROVE Types'
  <2>1. /\ Below \in Seq(FrameRecords) /\ Front(stack) = Below
        /\ Below # << >> => Len(Below) \in 1 .. Len(Below) /\ Below[Len(Below)] \in FrameRecords
    <3>1. stack # << >>
      BY <1>11 DEF Return
    <3>2. Below \in Seq(FrameRecords) /\ Front(stack) = Below
      BY <3>1, BelowProperties
    <3>3. Below # << >> => Len(Below) \in 1 .. Len(Below)
      BY <3>2, EmptySeq
    <3> QED BY <3>2, <3>3, ElementOfSeq
  <2>2. stack' = IF Below = << >> \/ Last(Below).at = "handler" THEN Below
                 ELSE [Below EXCEPT ![Len(Below)] = Continued(Below[Len(Below)])]
    BY <1>11, <2>1 DEF Return
  <2>3. stack' \in Seq(FrameRecords)
    BY <2>1, <2>2, ContinuedTyped, ExceptSeq
  <2> QED BY <1>0, <1>11, <2>3 DEF Types, Return
<1> QED BY <1>1, <1>2, <1>3, <1>4, <1>5, <1>6, <1>7, <1>8, <1>9, <1>10, <1>11, NextCases

-----------------------------------------------------------------------------
(* Disabling and enabling.                                                    *)

LEMMA DisableStep ==
  ASSUME DisableInv, Next
  PROVE  DisableInv'
<1>0. Types /\ Types'
  BY TypesStep DEF DisableInv
<1>1. \A x \in Objects : \A k \in 1 .. Len(observers[x]) :
        observers[x][k].disable_ref <= disabled[x]
  BY DEF DisableInv
<1>2. /\ disabled \in [Objects -> Nat] /\ disabled' \in [Objects -> Nat]
      /\ \A x \in Objects : observers[x] \in Seq(Entries) /\ Len(observers[x]) \in Nat
  BY <1>0 DEF Types
<1> SUFFICES ASSUME NEW x \in Objects, NEW k \in 1 .. Len(observers'[x])
             PROVE  observers'[x][k].disable_ref <= disabled'[x]
  BY <1>0 DEF DisableInv
<1>3. ASSUME NEW m \in Objects, NEW o \in Objects, ObserverRemove(m, o)
      PROVE  observers'[x][k].disable_ref <= disabled'[x]
  <2>1. /\ observers' = [observers EXCEPT ![m] = Without(observers[m], o)]
        /\ disabled' = disabled
    BY <1>3 DEF ObserverRemove
  <2>2. CASE x = m
    <3>1. observers'[x] = Without(observers[m], o)
      BY <1>0, <2>1, <2>2 DEF Types
    <3>2. observers[m] \in Seq(Entries) /\ k \in 1 .. Len(Without(observers[m], o))
      BY <1>0, <3>1 DEF Types
    <3> DEFINE left == Without(observers[m], o)
    <3>3. \A h \in 1 .. Len(left) : \E l \in 1 .. Len(observers[m]) : left[h] = observers[m][l]
      BY <3>2, WithoutProperties, SMTT(30)
    <3> HIDE DEF left
    <3>4. \E l \in 1 .. Len(observers[m]) : left[k] = observers[m][l]
      BY <3>2, <3>3 DEF left
    <3> QED BY <1>1, <2>1, <2>2, <3>1, <3>4 DEF left
  <2>3. CASE x # m
    <3>1. observers'[x] = observers[x]
      BY <1>0, <2>1, <2>3 DEF Types
    <3> QED BY <1>1, <2>1, <3>1
  <2> QED BY <2>2, <2>3
<1>4. ASSUME NEW m \in Objects, NEW o \in Objects, NEW f \in SignalFunctions, ObserverAdd(m, o, f)
      PROVE  observers'[x][k].disable_ref <= disabled'[x]
  <2>1. disabled' = disabled
    BY <1>4 DEF ObserverAdd
  <2>2. CASE x # m
    <3>1. observers'[x] = observers[x]
      BY <1>0, <1>4, <2>2, AddProperties
    <3> QED BY <1>1, <2>1, <3>1
  <2>3. CASE x = m /\ k \in 1 .. Len(observers[m])
    <3>1. observers'[x][k] = observers[x][k]
      BY <1>0, <1>4, <2>3, AddProperties
    <3> QED BY <1>1, <2>1, <2>3, <3>1
  <2>4. CASE x = m /\ k = Len(observers[m]) + 1
    <3>1. observers'[x][k] = [observer |-> o, signal |-> f, disable_ref |-> 0]
      BY <1>0, <1>4, <2>4, AddProperties
    <3>2. observers'[x][k].disable_ref = 0
      BY <3>1
    <3> QED BY <1>2, <3>2
  <2>5. x = m => k \in 1 .. Len(observers[m]) \/ k = Len(observers[m]) + 1
    <3>1. Len(observers'[m]) = Len(observers[m]) + 1
      BY <1>0, <1>4, AddProperties
    <3> QED BY <1>2, <3>1
  <2> QED BY <2>2, <2>3, <2>4, <2>5
<1>5. ASSUME NEW m \in Objects, Disable(m) \/ Enable(m)
      PROVE  observers'[x][k].disable_ref <= disabled'[x]
  <2>1. k \in 1 .. Len(observers[x])
    BY <1>0, <1>5, DisableProperties
  <2>2. disabled' = [disabled EXCEPT ![m] = disabled'[m]]
    BY <1>2, <1>5 DEF Disable, Enable
  <2>3. CASE x # m
    <3>1. observers'[x] = observers[x] /\ disabled'[x] = disabled[x]
      BY <1>0, <1>2, <1>5, <2>2, <2>3, DisableProperties
    <3> QED BY <1>1, <2>1, <3>1
  <2>4. CASE x = m
    <3> DEFINE old == observers[m][k].disable_ref
               new == observers'[m][k].disable_ref
    <3>1. /\ observers[m][k] \in Entries
          /\ new = IF disabled'[m] = disabled[m] + 1 THEN old + 1 ELSE OneLess(old)
      BY <1>0, <1>5, <2>1, <2>4, DisableProperties
    <3>2. old \in Nat /\ old <= disabled[m]
      BY <1>1, <2>1, <2>4, <3>1 DEF Entries
    <3>3. \/ disabled'[m] = disabled[m] + 1
          \/ disabled'[m] = IF disabled[m] = 0 THEN 0 ELSE disabled[m] - 1
      <4>1. Disable(m) => disabled'[m] = disabled[m] + 1
        BY <1>2 DEF Disable
      <4>2. Enable(m) => disabled'[m] = IF disabled[m] = 0 THEN 0 ELSE disabled[m] - 1
        BY <1>2 DEF Enable
      <4> QED BY <1>5, <4>1, <4>2
    <3>4. disabled[m] \in Nat /\ disabled'[m] \in Nat
      BY <1>2
    <3> HIDE DEF old, new
    <3>5. new <= disabled'[m]
      BY <3>1, <3>2, <3>3, <3>4 DEF OneLess
    <3> QED BY <2>4, <3>5 DEF new
  <2> QED BY <2>3, <2>4
<1>6. ASSUME UNCHANGED <<observers, disabled>>
      PROVE  observers'[x][k].disable_ref <= disabled'[x]
  BY <1>1, <1>6
<1>7. \/ \E m, o \in Objects : ObserverRemove(m, o)
      \/ \E m, o \in Objects, f \in SignalFunctions : ObserverAdd(m, o, f)
      \/ \E m \in Objects : Disable(m) \/ Enable(m)
      \/ UNCHANGED <<observers, disabled>>
  BY NextCases DEF Signal, SetFlags, HandlerReturns, NoEntry, SendNothing, SendHandler,
                   SendForward, Return
<1> QED BY <1>3, <1>4, <1>5, <1>6, <1>7

\* An entry is never disabled more often than its model, so that after as many
\* calls of oyStruct_EnableSignalSend() everyone is served again; and never less
\* than not at all.
THEOREM DisabledNoMore == Spec => []EnabledAgain
<1>1. Init => DisableInv
  <2> SUFFICES ASSUME Init PROVE DisableInv
    OBVIOUS
  <2>1. Types /\ \A m \in Objects : Len(observers[m]) = 0
    BY InitTyped
  <2> QED BY <2>1 DEF DisableInv
<1>2. DisableInv /\ [Next]_vars => DisableInv'
  <2>1. ASSUME DisableInv, UNCHANGED vars PROVE DisableInv'
    BY <2>1 DEF DisableInv, Types, vars
  <2> QED BY <2>1, DisableStep
<1>3. DisableInv => EnabledAgain
  <2> SUFFICES ASSUME DisableInv, NEW m \in Objects, NEW entry \in ToSet(observers[m])
               PROVE  entry.disable_ref \in 0 .. disabled[m]
    BY DEF EnabledAgain
  <2>1. observers[m] \in Seq(Entries) /\ disabled[m] \in Nat
    BY DEF DisableInv, Types
  <2>2. PICK k \in 1 .. Len(observers[m]) : entry = observers[m][k]
    BY <2>1 DEF ToSet
  <2>3. entry \in Entries
    BY <2>1, <2>2, ElementOfSeq
  <2>4. entry.disable_ref \in Nat
    BY <2>3 DEF Entries
  <2>5. entry.disable_ref <= disabled[m]
    BY <2>2 DEF DisableInv
  <2> QED BY <2>1, <2>4, <2>5
<1> QED BY <1>1, <1>2, <1>3, PTL DEF Spec

-----------------------------------------------------------------------------
(* The order of service.                                                      *)

\* A list that only grows behind, or changes its counts, keeps the frames good.
LEMMA GoodFrameKept ==
  ASSUME NEW f \in FrameRecords, NEW lists, NEW next, GoodFrame(f, lists),
         Len(lists[f.model]) \in Nat, Len(next[f.model]) \in Nat,
         Len(lists[f.model]) <= Len(next[f.model]),
         \A k \in 1 .. Len(lists[f.model]) : Key(next[f.model][k]) = Key(lists[f.model][k])
  PROVE  GoodFrame(f, next)
<1>1. /\ Position(f) <= Len(f.start) /\ Len(f.start) \in Nat
  BY DEF GoodFrame, FrameRecords
<1>2. ASSUME f.gone = {}
      PROVE  /\ Len(f.start) <= Len(next[f.model])
             /\ \A k \in 1 .. Len(f.start) : f.start[k] = Key(next[f.model][k])
             /\ Len(f.served) = Position(f)
             /\ \A k \in 1 .. Position(f) : f.served[k] = f.start[k]
  <2>1. /\ Len(f.start) <= Len(lists[f.model])
        /\ \A k \in 1 .. Len(f.start) : f.start[k] = Key(lists[f.model][k])
        /\ Len(f.served) = Position(f)
        /\ \A k \in 1 .. Position(f) : f.served[k] = f.start[k]
    BY <1>2 DEF GoodFrame
  <2>2. \A k \in 1 .. Len(f.start) : k \in 1 .. Len(lists[f.model])
    BY <1>1, <2>1
  <2> QED BY <1>1, <2>1, <2>2
<1> QED BY <1>1, <1>2 DEF GoodFrame

\* A frame that a removal concerns is good whatever it has served.
LEMMA GoodFrameRemoved ==
  ASSUME NEW f \in FrameRecords, NEW lists, NEW next, GoodFrame(f, lists),
         NEW m, NEW keys, keys # {}, f.model # m => next[f.model] = lists[f.model]
  PROVE  GoodFrame(RemovedFrame(f, m, keys), next)
<1>1. CASE f.model # m
  BY <1>1 DEF GoodFrame, RemovedFrame
<1>2. CASE f.model = m
  <2> DEFINE all == f.gone \cup keys
             g == [f EXCEPT !.gone = all]
  <2>1. RemovedFrame(f, m, keys) = g /\ all # {}
    BY <1>2 DEF RemovedFrame
  <2> HIDE DEF all
  <2>2. /\ g.gone = all /\ g.start = f.start /\ g.i = f.i /\ g.at = f.at
    BY DEF FrameRecords
  <2> HIDE DEF g
  <2> QED BY <2>1, <2>2 DEF GoodFrame, Position
<1> QED BY <1>1, <1>2

\* A frame that begins has served nobody.
LEMMA GoodNewFrame ==
  ASSUME Types, NEW m \in Objects
  PROVE  GoodFrame(NewFrame(m), observers) /\ NewFrame(m).at = "next"
<1> DEFINE f == NewFrame(m)
<1>1. /\ f.model = m /\ f.start = Keys(observers[m]) /\ f.i = 0 /\ f.served = << >>
      /\ f.gone = {} /\ f.at = "next"
  BY DEF NewFrame
<1>2. /\ Len(f.start) = Len(observers[m]) /\ Len(f.start) \in Nat
      /\ \A k \in 1 .. Len(observers[m]) : f.start[k] = Key(observers[m][k])
  BY <1>1, KeysProperties DEF Types
<1> HIDE DEF f
<1>3. GoodFrame(f, observers) /\ f.at = "next"
  BY <1>1, <1>2 DEF GoodFrame, Position
<1> QED BY <1>3 DEF f

\* A frame that waited for a handler or a forwarded signal goes on.
LEMMA GoodContinued ==
  ASSUME NEW f \in FrameRecords, NEW lists, GoodFrame(f, lists), f.at # "next"
  PROVE  GoodFrame(Continued(f), lists)
<1> DEFINE g == Continued(f)
<1>1. /\ g.model = f.model /\ g.start = f.start /\ g.served = f.served /\ g.gone = f.gone
      /\ g.at = "next" /\ g.i = f.i + 1
  BY DEF Continued, FrameRecords
<1> HIDE DEF g
<1>2. GoodFrame(g, lists)
  BY <1>1 DEF GoodFrame, Position
<1> QED BY <1>2 DEF g

\* An entry that the loop comes to is the next one of the beginning.
LEMMA GoodServed ==
  ASSUME Types, HasEntry, GoodFrame(Top, observers), NEW at \in {"next", "handler", "forward"}
  PROVE  GoodFrame(Served(at), observers) /\ Served(at).at = at
<1> DEFINE f == Top
           g == Served(at)
           key == Key(Entry)
<1>1. f \in FrameRecords /\ key \in EdgeKeys /\ f.i < Len(f.start) /\ f.at = "next"
  BY ServedProperties, WithTopProperties DEF HasEntry, InLoop
<1>2. f.served \in Seq(EdgeKeys) /\ f.i \in Nat /\ Len(f.start) \in Nat /\ f.start \in Seq(EdgeKeys)
  BY <1>1 DEF FrameRecords
<1>3. /\ g.model = f.model /\ g.start = f.start /\ g.gone = f.gone /\ g.at = at
      /\ g.served = Append(f.served, key)
      /\ g.i = IF at = "next" THEN f.i + 1 ELSE f.i
  <2> DEFINE next == Append(f.served, key)
             j == IF at = "next" THEN f.i + 1 ELSE f.i
  <2>1. g = [f EXCEPT !.served = next, !.at = at, !.i = j]
    BY DEF Served
  <2> HIDE DEF f, g, next, j, key
  <2>2. /\ g.model = f.model /\ g.start = f.start /\ g.gone = f.gone /\ g.at = at
        /\ g.served = next /\ g.i = j
    BY <1>1, <2>1 DEF FrameRecords
  <2> QED BY <2>2 DEF next, j
<1>4. /\ Len(g.served) = Len(f.served) + 1 /\ Len(f.served) \in Nat
      /\ \A k \in 1 .. Len(f.served) : g.served[k] = f.served[k]
      /\ g.served[Len(f.served) + 1] = key
  BY <1>1, <1>2, <1>3, AppendProperties
<1>5. Position(g) = f.i + 1 /\ Position(f) = f.i
  BY <1>1, <1>3 DEF Position
<1>6. ASSUME f.gone = {} PROVE key = f.start[f.i + 1]
  <2>1. f.i + 1 \in 1 .. Len(f.start)
    BY <1>1, <1>2
  <2>2. f.start[f.i + 1] = Key(observers[f.model][f.i + 1])
    BY <1>6, <2>1 DEF GoodFrame
  <2> QED BY <2>2 DEF Entry
<1>7. GoodFrame(f, observers)
  OBVIOUS
<1> HIDE DEF f, g, key
<1>8. GoodFrame(g, observers)
  <2>1. Position(g) <= Len(g.start)
    BY <1>1, <1>2, <1>3, <1>5
  <2>2. ASSUME g.gone = {}
        PROVE  /\ Len(g.start) <= Len(observers[g.model])
               /\ \A k \in 1 .. Len(g.start) : g.start[k] = Key(observers[g.model][k])
               /\ Len(g.served) = Position(g)
               /\ \A k \in 1 .. Position(g) : g.served[k] = g.start[k]
    <3>1. /\ Len(f.start) <= Len(observers[f.model])
          /\ \A k \in 1 .. Len(f.start) : f.start[k] = Key(observers[f.model][k])
          /\ Len(f.served) = f.i
          /\ \A k \in 1 .. f.i : f.served[k] = f.start[k]
      BY <1>3, <1>5, <1>7, <2>2 DEF GoodFrame
    <3>2. \A k \in 1 .. (f.i + 1) : k \in 1 .. f.i \/ k = f.i + 1
      BY <1>2
    <3> QED BY <1>3, <1>4, <1>5, <1>6, <2>2, <3>1, <3>2
  <2> QED BY <2>1, <2>2 DEF GoodFrame
<1> QED BY <1>3, <1>8 DEF g

\* The last frame goes on and the lists stay.
LEMMA TopStep ==
  ASSUME Types, StackGood, stack # << >>, NEW f \in FrameRecords, GoodFrame(f, observers),
         stack' = WithTop(f), observers' = observers
  PROVE  StackGood'
<1>1. /\ Len(stack) \in Nat \ {0} /\ Len(stack') = Len(stack)
      /\ \A d \in 1 .. Len(stack) : stack'[d] = IF d = Len(stack) THEN f ELSE stack[d]
  BY WithTopProperties
<1>2. CallersWait'
  <2> SUFFICES ASSUME NEW d \in 1 .. Len(stack') - 1 PROVE stack'[d].at # "next"
    BY DEF CallersWait
  <2>1. d \in 1 .. Len(stack) - 1 /\ d \in 1 .. Len(stack) /\ d # Len(stack)
    BY <1>1
  <2> QED BY <1>1, <2>1 DEF StackGood, CallersWait
<1>3. \A d \in 1 .. Len(stack') : GoodFrame(stack'[d], observers')
  BY <1>1 DEF StackGood
<1> QED BY <1>2, <1>3 DEF StackGood

\* A signal is sent by a stack whose frames all wait.
LEMMA PushStep ==
  ASSUME NEW s \in Seq(FrameRecords), NEW f \in FrameRecords, GoodFrame(f, observers),
         \A d \in 1 .. Len(s) : s[d].at # "next" /\ GoodFrame(s[d], observers),
         stack' = Append(s, f), observers' = observers
  PROVE  StackGood'
<1>1. /\ Len(s) \in Nat /\ Len(stack') = Len(s) + 1
      /\ \A d \in 1 .. Len(s) : stack'[d] = s[d]
      /\ stack'[Len(s) + 1] = f
  BY AppendProperties
<1>2. CallersWait'
  <2> SUFFICES ASSUME NEW d \in 1 .. Len(stack') - 1 PROVE stack'[d].at # "next"
    BY DEF CallersWait
  <2>1. d \in 1 .. Len(s)
    BY <1>1
  <2> QED BY <1>1, <2>1
<1>3. \A d \in 1 .. Len(stack') : GoodFrame(stack'[d], observers')
  <2> SUFFICES ASSUME NEW d \in 1 .. Len(stack') PROVE GoodFrame(stack'[d], observers')
    OBVIOUS
  <2>1. d \in 1 .. Len(s) \/ d = Len(s) + 1
    BY <1>1
  <2> QED BY <1>1, <2>1
<1> QED BY <1>2, <1>3 DEF StackGood

\* Signals, handlers and the loop, which leave the lists as they are.
LEMMA StackStep ==
  ASSUME Types, StackGood,
         \/ \E m \in Objects : Signal(m)
         \/ HandlerReturns \/ NoEntry \/ SendNothing \/ SendHandler \/ SendForward \/ Return
  PROVE  StackGood'
<1>0. stack # << >> => /\ Top \in FrameRecords /\ GoodFrame(Top, observers)
                       /\ Len(stack) \in 1 .. Len(stack)
  <2> SUFFICES ASSUME stack # << >>
               PROVE  /\ Top \in FrameRecords /\ GoodFrame(Top, observers)
                      /\ Len(stack) \in 1 .. Len(stack)
    OBVIOUS
  <2>1. Len(stack) \in 1 .. Len(stack)
    BY EmptySeq DEF Types
  <2> QED BY <2>1, ElementOfSeq DEF Top, Types, StackGood
<1>1. ASSUME NEW m \in Objects, Signal(m) PROVE StackGood'
  <2>1. \A d \in 1 .. Len(stack) : stack[d].at # "next" /\ GoodFrame(stack[d], observers)
    <3> SUFFICES ASSUME NEW d \in 1 .. Len(stack) PROVE stack[d].at # "next"
      BY DEF StackGood
    <3>1. Len(stack) \in Nat /\ stack # << >>
      BY DEF Types
    <3>2. d \in 1 .. Len(stack) - 1 \/ d = Len(stack)
      BY <3>1
    <3>3. Top.at = "handler"
      BY <1>1, <3>1 DEF Signal, Running
    <3> QED BY <3>2, <3>3 DEF Top, StackGood, CallersWait
  <2> QED BY <1>1, <2>1, PushStep, NewFrameTyped, GoodNewFrame DEF Signal, Types
<1>2. ASSUME HandlerReturns PROVE StackGood'
  <2>1. stack # << >> /\ Top.at # "next"
    BY <1>2 DEF HandlerReturns
  <2>2. Continued(Top) \in FrameRecords /\ GoodFrame(Continued(Top), observers)
    BY <1>0, <2>1, ContinuedTyped, GoodContinued
  <2> QED BY <1>2, <2>1, <2>2, TopStep DEF HandlerReturns
<1>3. ASSUME NoEntry PROVE StackGood'
  <2> DEFINE f == Top
             j == f.i + 1
             g == [f EXCEPT !.i = j]
  <2>1. /\ stack # << >> /\ f.at = "next" /\ f.i < Len(f.start)
        /\ f.i >= Len(observers[f.model])
    BY <1>3 DEF NoEntry, InLoop
  <2>2. /\ f \in FrameRecords /\ GoodFrame(f, observers)
        /\ Len(observers[f.model]) \in Nat
    <3>1. f \in FrameRecords /\ GoodFrame(f, observers)
      BY <1>0, <2>1
    <3>2. f.model \in Objects
      BY <3>1 DEF FrameRecords
    <3> QED BY <1>0, <3>1, <3>2 DEF Types
  <2>3. stack' = WithTop(g)
    BY <1>3 DEF NoEntry
  <2> HIDE DEF f
  <2>4. f.i \in Nat /\ Len(f.start) \in Nat
    BY <2>2 DEF FrameRecords
  <2>5. f.gone # {}
    BY <2>1, <2>2, <2>4 DEF GoodFrame
  <2>6. j \in Nat /\ j <= Len(f.start)
    BY <2>1, <2>4
  <2> HIDE DEF j
  <2>7. g \in FrameRecords /\ g.gone = f.gone /\ g.start = f.start /\ g.at = f.at /\ g.i = j
    BY <2>2, <2>6 DEF FrameRecords
  <2> HIDE DEF g
  <2>8. GoodFrame(g, observers)
    BY <2>1, <2>5, <2>6, <2>7 DEF GoodFrame, Position
  <2> QED BY <1>3, <2>1, <2>3, <2>7, <2>8, TopStep DEF NoEntry
<1>4. ASSUME SendNothing \/ SendHandler PROVE StackGood'
  <2>1. PICK at \in {"next", "handler"} : stack' = WithTop(Served(at))
    BY <1>4 DEF SendNothing, SendHandler
  <2>2. HasEntry /\ observers' = observers
    BY <1>4 DEF SendNothing, SendHandler
  <2>3. /\ stack # << >> /\ Served(at) \in FrameRecords
        /\ GoodFrame(Served(at), observers)
    BY <1>0, <2>2, ServedProperties, GoodServed
  <2> QED BY <2>1, <2>2, <2>3, TopStep
<1>5. ASSUME SendForward PROVE StackGood'
  <2> DEFINE f == Served("forward")
             s == WithTop(f)
             new == NewFrame(Entry.observer)
  <2>1. HasEntry /\ observers' = observers /\ stack' = Append(s, new)
    BY <1>5 DEF SendForward
  <2>2. /\ stack # << >> /\ f \in FrameRecords /\ GoodFrame(f, observers)
        /\ f.at = "forward" /\ Entry \in Entries
    BY <1>0, <2>1, ServedProperties, GoodServed
  <2>3. new \in FrameRecords /\ GoodFrame(new, observers)
    BY <2>2, NewFrameTyped, GoodNewFrame DEF Entries
  <2>4. /\ s \in Seq(FrameRecords) /\ Len(s) = Len(stack) /\ Len(stack) \in Nat
        /\ \A d \in 1 .. Len(stack) : s[d] = IF d = Len(stack) THEN f ELSE stack[d]
    BY <2>2, WithTopProperties
  <2> HIDE DEF f, s, new
  <2>5. \A d \in 1 .. Len(s) : s[d].at # "next" /\ GoodFrame(s[d], observers)
    <3> SUFFICES ASSUME NEW d \in 1 .. Len(stack)
                 PROVE  s[d].at # "next" /\ GoodFrame(s[d], observers)
      BY <2>4
    <3>1. CASE d = Len(stack)
      BY <2>2, <2>4, <3>1
    <3>2. CASE d # Len(stack)
      <4>1. d \in 1 .. Len(stack) - 1
        BY <2>4, <3>2
      <4> QED BY <2>4, <3>2, <4>1 DEF StackGood, CallersWait
    <3> QED BY <3>1, <3>2
  <2> QED BY <2>1, <2>3, <2>4, <2>5, PushStep
<1>6. ASSUME Return PROVE StackGood'
  <2>1. stack # << >> /\ observers' = observers
    BY <1>6 DEF Return
  <2>2. /\ Below \in Seq(FrameRecords) /\ Front(stack) = Below /\ Len(stack) \in Nat \ {0}
        /\ Len(Below) = Len(stack) - 1
        /\ \A d \in 1 .. Len(Below) : Below[d] = stack[d] /\ stack[d] \in FrameRecords
    BY <2>1, BelowProperties
  <2>3. \A d \in 1 .. Len(Below) : Below[d].at # "next" /\ GoodFrame(Below[d], observers)
    BY <2>2 DEF StackGood, CallersWait
  <2>4. CASE stack' = Below
    <3>1. \A d \in 1 .. Len(stack') : stack'[d].at # "next" /\ GoodFrame(stack'[d], observers')
      BY <2>1, <2>3, <2>4
    <3>2. Len(stack') \in Nat
      BY <2>2, <2>4
    <3> QED BY <3>1, <3>2 DEF StackGood, CallersWait
  <2>5. CASE Below # << >> /\ stack' = [Below EXCEPT ![Len(Below)] = Continued(Below[Len(Below)])]
    <3> DEFINE n == Len(Below)
               f == Continued(Below[n])
    <3>1. n \in 1 .. n /\ n \in Nat
      BY <2>2, <2>5, EmptySeq
    <3>2. f \in FrameRecords /\ GoodFrame(f, observers)
      BY <2>2, <2>3, <3>1, ContinuedTyped, GoodContinued
    <3> HIDE DEF f
    <3>3. /\ Len(stack') = n
          /\ \A d \in 1 .. n : stack'[d] = IF d = n THEN f ELSE Below[d]
      BY <2>2, <2>5, <3>1, <3>2, ExceptSeq DEF f
    <3> HIDE DEF n
    <3>4. CallersWait'
      <4> SUFFICES ASSUME NEW d \in 1 .. Len(stack') - 1 PROVE stack'[d].at # "next"
        BY DEF CallersWait
      <4>1. d \in 1 .. n /\ d # n
        BY <3>1, <3>3
      <4> QED BY <2>3, <3>3, <4>1 DEF n
    <3>5. \A d \in 1 .. Len(stack') : GoodFrame(stack'[d], observers')
      BY <2>1, <2>3, <3>2, <3>3 DEF n
    <3> QED BY <3>4, <3>5 DEF StackGood
  <2>6. \/ stack' = Below
        \/ Below # << >> /\ stack' = [Below EXCEPT ![Len(Below)] = Continued(Below[Len(Below)])]
    BY <1>6, <2>2 DEF Return
  <2> QED BY <2>4, <2>5, <2>6
<1> QED BY <1>1, <1>2, <1>3, <1>4, <1>5, <1>6

\* Calls that change the lists.
LEMMA ListsStep ==
  ASSUME SignalsInv, Types',
         \/ \E m, o \in Objects : ObserverRemove(m, o)
         \/ \E m, o \in Objects, f \in SignalFunctions : ObserverAdd(m, o, f)
         \/ \E m \in Objects : Disable(m) \/ Enable(m)
  PROVE  StackGood' /\ \A m \in Objects : NoDoubles(observers'[m])
<1>0. /\ Types /\ StackGood /\ \A x \in Objects : NoDoubles(observers[x])
      /\ Len(stack) \in Nat
      /\ \A x \in Objects : Len(observers[x]) \in Nat /\ Len(observers'[x]) \in Nat
      /\ \A d \in 1 .. Len(stack) : stack[d] \in FrameRecords /\ stack[d].model \in Objects
  <2>1. \A d \in 1 .. Len(stack) : stack[d] \in FrameRecords
    BY ElementOfSeq DEF SignalsInv, Types
  <2>2. \A d \in 1 .. Len(stack) : stack[d].model \in Objects
    BY <2>1 DEF FrameRecords
  <2>3. Types /\ StackGood /\ \A x \in Objects : NoDoubles(observers[x])
    BY DEF SignalsInv
  <2>4. stack \in Seq(FrameRecords) /\ Len(stack) \in Nat
    BY <2>3 DEF Types
  <2>5. \A x \in Objects : observers[x] \in Seq(Entries) /\ observers'[x] \in Seq(Entries)
    BY <2>3 DEF Types
  <2>6. \A x \in Objects : Len(observers[x]) \in Nat /\ Len(observers'[x]) \in Nat
    BY <2>5
  <2> QED BY <2>1, <2>2, <2>3, <2>4, <2>6
\* Lists that keep their keys, with or without another one behind.
<1>1. ASSUME stack' = stack,
             \A x \in Objects :
               /\ Len(observers[x]) <= Len(observers'[x])
               /\ \A k \in 1 .. Len(observers[x]) : Key(observers'[x][k]) = Key(observers[x][k])
      PROVE  StackGood'
  <2>1. \A d \in 1 .. Len(stack) : GoodFrame(stack[d], observers')
    BY <1>0, <1>1, GoodFrameKept DEF StackGood
  <2> QED BY <1>0, <1>1, <2>1 DEF StackGood, CallersWait
<1>2. ASSUME NEW m \in Objects, NEW o \in Objects, ObserverRemove(m, o)
      PROVE  StackGood' /\ \A x \in Objects : NoDoubles(observers'[x])
  <2>1. observers' = [observers EXCEPT ![m] = Without(observers[m], o)]
    BY <1>2 DEF ObserverRemove
  <2>2. observers[m] \in Seq(Entries) /\ observers'[m] = Without(observers[m], o)
    BY <1>0, <2>1 DEF Types
  <2>3. \A x \in Objects : x # m => observers'[x] = observers[x]
    BY <1>0, <2>1 DEF Types
  <2>4. \A x \in Objects : NoDoubles(observers'[x])
    BY <1>0, <2>2, <2>3, WithoutProperties
  <2> DEFINE keys == RemovedKeys(m, o)
  <2>5. /\ keys # {} /\ Len(stack') = Len(stack)
        /\ \A d \in 1 .. Len(stack) : stack'[d] = RemovedFrame(stack[d], m, keys)
    BY <1>0, <1>2, RemoveProperties
  <2> HIDE DEF keys
  <2>6. \A d \in 1 .. Len(stack) : GoodFrame(stack'[d], observers')
    <3> SUFFICES ASSUME NEW d \in 1 .. Len(stack) PROVE GoodFrame(stack'[d], observers')
      OBVIOUS
    <3>1. /\ stack[d] \in FrameRecords /\ GoodFrame(stack[d], observers)
          /\ stack[d].model # m => observers'[stack[d].model] = observers[stack[d].model]
      BY <1>0, <2>3 DEF StackGood
    <3>2. GoodFrame(RemovedFrame(stack[d], m, keys), observers')
      BY <2>5, <3>1, GoodFrameRemoved
    <3> QED BY <2>5, <3>2
  <2>7. \A d \in 1 .. Len(stack) : stack'[d].at = stack[d].at
    BY <1>0, <2>5 DEF RemovedFrame, FrameRecords
  <2>8. StackGood'
    BY <1>0, <2>5, <2>6, <2>7 DEF StackGood, CallersWait
  <2> QED BY <2>4, <2>8
<1>3. ASSUME NEW m \in Objects, NEW o \in Objects, NEW f \in SignalFunctions, ObserverAdd(m, o, f)
      PROVE  StackGood' /\ \A x \in Objects : NoDoubles(observers'[x])
  <2> DEFINE old == observers[m]
             new == observers'[m]
             e == [observer |-> o, signal |-> f, disable_ref |-> 0]
  <2>1. /\ \A x \in Objects : x # m => observers'[x] = observers[x]
        /\ Len(new) = Len(old) + 1
        /\ \A k \in 1 .. Len(old) : new[k] = old[k]
        /\ new[Len(old) + 1] = e
    BY <1>0, <1>3, AddProperties
  <2>2. Len(old) \in Nat /\ old \in Seq(Entries) /\ NoDoubles(old)
    BY <1>0 DEF Types
  <2>3. \A k \in 1 .. Len(old) : Key(old[k]) # Key(e)
    <3>1. Key(e) \notin ToSet(Keys(old))
      BY <1>3 DEF ObserverAdd, Key
    <3>2. Keys(old) \in Seq(EdgeKeys)
      BY <2>2, KeysProperties
    <3>3. DOMAIN Keys(old) = 1 .. Len(old) /\ \A k \in 1 .. Len(old) : Keys(old)[k] = Key(old[k])
      BY <2>2 DEF Keys
    <3> HIDE DEF old, e
    <3> QED BY <3>1, <3>3 DEF ToSet
  <2>4. StackGood'
    <3>1. stack' = stack
      BY <1>3 DEF ObserverAdd
    <3>2. ASSUME NEW x \in Objects
          PROVE  /\ Len(observers[x]) <= Len(observers'[x])
                 /\ \A k \in 1 .. Len(observers[x]) : Key(observers'[x][k]) = Key(observers[x][k])
      BY <1>0, <2>1, <2>2
    <3> QED BY <1>1, <3>1, <3>2
  <2> HIDE DEF old, new, e
  <2>5. NoDoubles(new)
    <3> SUFFICES ASSUME NEW p \in 1 .. Len(new), NEW q \in 1 .. Len(new), Key(new[p]) = Key(new[q])
                 PROVE  p = q
      BY DEF NoDoubles
    <3>1. (p \in 1 .. Len(old) \/ p = Len(old) + 1) /\ (q \in 1 .. Len(old) \/ q = Len(old) + 1)
      BY <2>1, <2>2
    <3> QED BY <2>1, <2>2, <2>3, <3>1 DEF NoDoubles
  <2>6. \A x \in Objects : NoDoubles(observers'[x])
    BY <1>0, <2>1, <2>5 DEF new
  <2> QED BY <2>4, <2>6
<1>4. ASSUME NEW m \in Objects, Disable(m) \/ Enable(m)
      PROVE  StackGood' /\ \A x \in Objects : NoDoubles(observers'[x])
  <2>1. /\ \A x \in Objects : Len(observers'[x]) = Len(observers[x])
        /\ \A x \in Objects : x # m => observers'[x] = observers[x]
    BY <1>0, <1>4, DisableProperties
  <2>2. \A k \in 1 .. Len(observers[m]) : Key(observers'[m][k]) = Key(observers[m][k])
    BY <1>0, <1>4, DisableProperties
  <2>3. ASSUME NEW x \in Objects
        PROVE  \A k \in 1 .. Len(observers[x]) : Key(observers'[x][k]) = Key(observers[x][k])
    <3>1. CASE x = m
      BY <2>2, <3>1
    <3>2. CASE x # m
      <4>1. observers'[x] = observers[x]
        BY <2>1, <3>2
      <4> QED BY <4>1
    <3> QED BY <3>1, <3>2
  <2>4. stack' = stack
    BY <1>4 DEF Disable, Enable
  <2>5. StackGood'
    <3>1. \A x \in Objects : Len(observers[x]) <= Len(observers'[x])
      BY <1>0, <2>1
    <3> QED BY <1>1, <2>3, <2>4, <3>1
  <2>6. \A x \in Objects : NoDoubles(observers'[x])
    <3> SUFFICES ASSUME NEW x \in Objects PROVE NoDoubles(observers'[x])
      OBVIOUS
    <3>1. NoDoubles(observers[x]) /\ Len(observers'[x]) = Len(observers[x])
      BY <1>0, <2>1
    <3> QED BY <2>3, <3>1 DEF NoDoubles
  <2> QED BY <2>5, <2>6
<1> QED BY <1>2, <1>3, <1>4

LEMMA SignalsStep ==
  ASSUME SignalsInv, Next
  PROVE  SignalsInv'
<1>0. Types /\ Types' /\ StackGood /\ \A m \in Objects : NoDoubles(observers[m])
  BY TypesStep DEF SignalsInv
<1>1. CASE \/ \E m, o \in Objects : ObserverRemove(m, o)
           \/ \E m, o \in Objects, f \in SignalFunctions : ObserverAdd(m, o, f)
           \/ \E m \in Objects : Disable(m) \/ Enable(m)
  BY <1>0, <1>1, ListsStep DEF SignalsInv
<1>2. CASE \/ \E m \in Objects : Signal(m)
           \/ HandlerReturns \/ NoEntry \/ SendNothing \/ SendHandler \/ SendForward \/ Return
  <2>1. StackGood'
    BY <1>0, <1>2, StackStep
  <2>2. observers' = observers
    BY <1>2 DEF Signal, HandlerReturns, NoEntry, SendNothing, SendHandler, SendForward, Return
  <2> QED BY <1>0, <2>1, <2>2 DEF SignalsInv
<1>3. CASE \E block \in BOOLEAN : SetFlags(block)
  BY <1>0, <1>3 DEF SignalsInv, StackGood, CallersWait, SetFlags
<1> QED BY <1>1, <1>2, <1>3, NextCases

\* As long as nothing is removed from the list under way, the observers of the
\* beginning are served once each and in order, at any depth of signals in
\* handlers; and no edge is in a list twice.
THEOREM ServedInOrder == Spec => []ServesInOrder
<1>1. Init => SignalsInv
  <2> SUFFICES ASSUME Init PROVE SignalsInv
    OBVIOUS
  <2>1. Types /\ stack = << >> /\ \A m \in Objects : Len(observers[m]) = 0
    BY InitTyped
  <2>2. Len(stack) = 0
    BY <2>1
  <2> QED BY <2>1, <2>2 DEF SignalsInv, StackGood, CallersWait, NoDoubles
<1>2. SignalsInv /\ [Next]_vars => SignalsInv'
  <2>1. ASSUME SignalsInv, UNCHANGED vars PROVE SignalsInv'
    BY <2>1 DEF SignalsInv, StackGood, CallersWait, Types, vars
  <2> QED BY <2>1, SignalsStep
<1>3. SignalsInv => ServesInOrder
  <2> SUFFICES ASSUME SignalsInv PROVE ServesInOrder
    OBVIOUS
  <2>1. ASSUME NEW m \in Objects PROVE IsInjective(Keys(observers[m]))
    <3>1. observers[m] \in Seq(Entries) /\ NoDoubles(observers[m])
      BY DEF SignalsInv, Types
    <3>2. Keys(observers[m]) = [k \in 1 .. Len(observers[m]) |-> Key(observers[m][k])]
      BY DEF Keys
    <3> QED BY <3>1, <3>2 DEF IsInjective, NoDoubles
  <2>2. ASSUME NEW frame \in Frames, frame.gone = {}
        PROVE  frame.served = SubSeq(frame.start, 1, IF frame.at = "next" THEN frame.i ELSE frame.i + 1)
    <3> DEFINE n == IF frame.at = "next" THEN frame.i ELSE frame.i + 1
    <3>1. PICK d \in 1 .. Len(stack) : frame = stack[d]
      BY DEF Frames, ToSet, SignalsInv, Types
    <3>2. frame \in FrameRecords /\ GoodFrame(frame, observers)
      BY <3>1, ElementOfSeq DEF SignalsInv, Types, StackGood
    <3>3. /\ n \in Nat /\ frame.served \in Seq(EdgeKeys) /\ frame.start \in Seq(EdgeKeys)
          /\ Len(frame.start) \in Nat
      BY <3>2 DEF FrameRecords
    <3>4. /\ n <= Len(frame.start) /\ Len(frame.served) = n
          /\ \A k \in 1 .. n : frame.served[k] = frame.start[k]
      BY <2>2, <3>2 DEF GoodFrame, Position
    <3> HIDE DEF n
    <3>5. \A k \in 1 .. n : frame.start[k] \in EdgeKeys
      BY <3>3, <3>4, ElementOfSeq
    <3>6. /\ SubSeq(frame.start, 1, n) \in Seq(EdgeKeys)
          /\ Len(SubSeq(frame.start, 1, n)) = IF 1 <= n THEN n - 1 + 1 ELSE 0
          /\ \A k \in 1 .. n - 1 + 1 : SubSeq(frame.start, 1, n)[k] = frame.start[1 + k - 1]
      <4>1. 1 \in Int /\ n \in Int
        BY <3>3
      <4> QED BY <3>5, <4>1, SubSeqProperties
    <3>7. /\ Len(SubSeq(frame.start, 1, n)) = n
          /\ \A k \in 1 .. n : SubSeq(frame.start, 1, n)[k] = frame.start[k]
      <4>1. (IF 1 <= n THEN n - 1 + 1 ELSE 0) = n /\ n - 1 + 1 = n /\ \A k \in 1 .. n : 1 + k - 1 = k
        BY <3>3
      <4> QED BY <3>6, <4>1
    <3>8. frame.served = SubSeq(frame.start, 1, n)
      BY <3>3, <3>4, <3>6, <3>7, SeqEqual
    <3> QED BY <3>8 DEF n
  <2> QED BY <2>1, <2>2 DEF ServesInOrder
<1> QED BY <1>1, <1>2, <1>3, PTL DEF Spec
=============================================================================
