--------------------------- MODULE StructList_proofs ---------------------------
(***************************************************************************)
(* The lists of module StructList, for any number of lists and objects, of *)
(* any length.                                                             *)
(***************************************************************************)
EXTENDS StructList, WellFoundedInduction, SequenceTheorems, FiniteSetTheorems, TLAPS

-----------------------------------------------------------------------------
(* Loops of the code over lists are functions of the number of rounds, defined *)
(* by recursion.  The library's theorems on induction and recursion have       *)
(* operators as parameters; here they have sets and functions in their place.  *)

LEMMA NatIsWellFounded == IsWellFoundedOn({p \in Nat \X Nat : p[1] < p[2]}, Nat)
BY NatLessThanWellFounded DEF OpToRel

\* A set with 0 and the successor of each member has all natural numbers.
LEMMA SetInduction ==
  ASSUME NEW S \in SUBSET Nat, 0 \in S, \A n \in S : n + 1 \in S
  PROVE  S = Nat
<1> DEFINE R == {p \in Nat \X Nat : p[1] < p[2]}
<1>1. SUFFICES ASSUME Nat \ S # {} PROVE FALSE
  OBVIOUS
<1>2. IsWellFoundedOn(R, Nat)
  BY NatIsWellFounded
<1> HIDE DEF R
<1>3. PICK n \in Nat \ S : \A m \in Nat \ S : ~ (<<m, n>> \in R)
  BY <1>1, <1>2, WFMin
<1>4. n # 0 /\ n - 1 \in Nat
  OBVIOUS
<1>5. <<n - 1, n>> \in R
  BY <1>4 DEF R
<1>6. n - 1 \in S
  BY <1>3, <1>4, <1>5
<1> QED BY <1>4, <1>6

\* The values g of n rounds that begin with base, where round k makes Step[<<k, x>>]
\* of x.
AreRounds(g, n, base, Step) ==
  g = [k \in 0 .. n |-> IF k = 0 THEN base ELSE Step[<<k, g[k - 1]>>]]

\* There are such values, in the set that the rounds do not leave.
LEMMA RoundsExist ==
  ASSUME NEW X, NEW base \in X, NEW n \in Nat, NEW Step \in [(1 .. n) \X X -> X]
  PROVE  \E g \in [0 .. n -> X] : AreRounds(g, n, base, Step)
<1> DEFINE Solves(g, m) == /\ g \in [0 .. m -> X]
                           /\ g[0] = base
                           /\ \A k \in 1 .. m : g[k] = Step[<<k, g[k - 1]>>]
           S == {m \in Nat : m <= n => \E g : Solves(g, m)}
<1>1. 0 \in S
  <2>1. Solves([k \in 0 .. 0 |-> base], 0)
    OBVIOUS
  <2> QED BY <2>1
<1>2. ASSUME NEW m \in S, m + 1 <= n PROVE m + 1 \in S
  <2>1. PICK g : Solves(g, m)
    BY <1>2
  <2> DEFINE h == [k \in 0 .. (m + 1) |-> IF k <= m THEN g[k] ELSE Step[<<m + 1, g[m]>>]]
  <2>2. m \in Nat /\ m + 1 \in 1 .. n /\ g[m] \in X
    BY <1>2, <2>1
  <2>3. Step[<<m + 1, g[m]>>] \in X
    BY <2>2
  <2>4. h \in [0 .. (m + 1) -> X] /\ h[0] = base
    BY <2>1, <2>2, <2>3
  <2>5. ASSUME NEW k \in 1 .. (m + 1) PROVE h[k] = Step[<<k, h[k - 1]>>]
    <3>1. k - 1 \in 0 .. m /\ h[k - 1] = g[k - 1]
      BY <2>2
    <3>2. CASE k <= m
      <4>1. h[k] = g[k] /\ k \in 1 .. m
        BY <2>2, <3>2
      <4> QED BY <2>1, <3>1, <4>1
    <3>3. CASE k = m + 1
      <4>1. h[k] = Step[<<m + 1, g[m]>>] /\ k - 1 = m
        BY <2>2, <3>3
      <4> QED BY <3>1, <3>3, <4>1
    <3> QED BY <2>2, <3>2, <3>3
  <2>6. Solves(h, m + 1)
    BY <2>4, <2>5
  <2> HIDE DEF Solves
  <2> QED BY <2>2, <2>6
<1>3. S = Nat
  <2>1. \A m \in S : m + 1 \in S
    <3>1. ASSUME NEW m \in S, ~ (m + 1 <= n) PROVE m + 1 \in S
      BY <3>1
    <3> HIDE DEF S
    <3> QED BY <1>2, <3>1
  <2>2. S \in SUBSET Nat
    OBVIOUS
  <2> HIDE DEF S
  <2> QED BY <1>1, <2>1, <2>2, SetInduction
<1>4. PICK g : Solves(g, n)
  <2>1. n \in S
    BY <1>3
  <2> QED BY <2>1
<1>5. \A k \in 0 .. n : g[k] = IF k = 0 THEN base ELSE Step[<<k, g[k - 1]>>]
  BY <1>4
<1>6. g = [k \in 0 .. n |-> IF k = 0 THEN base ELSE Step[<<k, g[k - 1]>>]]
  <2>1. g = [k \in 0 .. n |-> g[k]]
    BY <1>4
  <2> QED BY <1>5, <2>1
<1> QED BY <1>4, <1>6 DEF AreRounds

-----------------------------------------------------------------------------

Slots == Seq(Objects \cup {Empty})

Structs == [ptr_ : Slots, n_reserved_ : Nat, room : Nat]

Types == /\ list \in [Lists -> Structs]
         /\ handles \in [Objects -> Nat]
         /\ ref_ \in [Objects -> Int]
         /\ broken \subseteq {"memory", "rank", "null"}
         /\ \A l \in Lists : Fits(n_(list[l]))

HasRoom(s) == n_(s) <= s.n_reserved_ /\ s.n_reserved_ = s.room

NoGap(s) == Empty \notin ToSet(s.ptr_)

-----------------------------------------------------------------------------
(* Slots of a list.                                                           *)

LEMMA InsertInSlots ==
  ASSUME NEW s \in Slots, NEW e \in Objects \cup {Empty}, NEW i \in 1 .. Len(s) + 1
  PROVE  /\ InsertAt(s, i, e) \in Slots
         /\ Len(InsertAt(s, i, e)) = Len(s) + 1
         /\ \A k \in 1 .. Len(s) + 1 :
              InsertAt(s, i, e)[k] = IF k < i THEN s[k] ELSE IF k = i THEN e ELSE s[k - 1]
<1> DEFINE S == Objects \cup {Empty}
           head == SubSeq(s, 1, i - 1)
           one  == <<e>>
           tail == SubSeq(s, i, Len(s))
<1>1. s \in Seq(S) /\ Len(s) \in Nat /\ \A k \in 1 .. Len(s) : s[k] \in S
  BY ElementOfSeq DEF Slots
<1>2. /\ head \in Seq(S) /\ Len(head) = i - 1
      /\ \A k \in 1 .. i - 1 : head[k] = s[k]
  <2>1. i - 1 \in Int /\ \A k \in 1 .. i - 1 : s[k] \in S
    BY <1>1
  <2> HIDE DEF S
  <2> QED BY <1>1, <2>1, SubSeqProperties
<1>3. /\ tail \in Seq(S) /\ Len(tail) = Len(s) - i + 1
      /\ \A k \in 1 .. Len(s) - i + 1 : tail[k] = s[i + k - 1]
  <2>1. i \in Int /\ \A k \in i .. Len(s) : s[k] \in S
    BY <1>1
  <2> HIDE DEF S
  <2> QED BY <1>1, <2>1, SubSeqProperties
<1>4. one \in Seq(S) /\ Len(one) = 1 /\ one[1] = e
  OBVIOUS
<1> HIDE DEF S, head, one, tail
<1>5. /\ head \o one \in Seq(S) /\ Len(head \o one) = i
      /\ \A k \in 1 .. i : (head \o one)[k] = IF k < i THEN s[k] ELSE e
  <2>1. /\ head \o one \in Seq(S) /\ Len(head \o one) = Len(head) + Len(one)
        /\ \A k \in 1 .. Len(head) + Len(one) :
             (head \o one)[k] = IF k <= Len(head) THEN head[k] ELSE one[k - Len(head)]
    BY <1>2, <1>4, ConcatProperties
  <2>2. Len(head) + Len(one) = i /\ i \in Nat
    BY <1>1, <1>2, <1>4
  <2>3. ASSUME NEW k \in 1 .. i PROVE (head \o one)[k] = IF k < i THEN s[k] ELSE e
    <3>1. CASE k < i
      BY <1>2, <2>1, <2>2, <3>1
    <3>2. CASE k = i
      <4>1. k \in 1 .. Len(head) + Len(one) /\ ~ k <= Len(head) /\ k - Len(head) = 1 /\ ~ k < i
        BY <1>2, <1>4, <2>2, <3>2
      <4>2. (head \o one)[k] = one[k - Len(head)]
        BY <2>1, <4>1
      <4> QED BY <1>4, <4>1, <4>2
    <3> QED BY <2>2, <3>1, <3>2
  <2> QED BY <2>1, <2>2, <2>3
<1>6. /\ (head \o one) \o tail \in Seq(S) /\ Len((head \o one) \o tail) = Len(s) + 1
      /\ \A k \in 1 .. Len(s) + 1 :
           ((head \o one) \o tail)[k] = IF k <= i THEN (head \o one)[k] ELSE tail[k - i]
  <2> DEFINE h == head \o one
  <2>1. h \in Seq(S) /\ Len(h) = i
    BY <1>5
  <2> HIDE DEF h
  <2>2. /\ h \o tail \in Seq(S)
        /\ Len(h \o tail) = Len(h) + Len(tail)
        /\ \A k \in 1 .. Len(h) + Len(tail) :
             (h \o tail)[k] = IF k <= Len(h) THEN h[k] ELSE tail[k - Len(h)]
    BY <1>3, <2>1, ConcatProperties
  <2>3. i + Len(tail) = Len(s) + 1
    BY <1>1, <1>3
  <2> QED BY <2>1, <2>2, <2>3 DEF h
<1> DEFINE t == (head \o one) \o tail
<1>7. InsertAt(s, i, e) = t
  BY DEF InsertAt, head, one, tail
<1> HIDE DEF t
<1>8. ASSUME NEW k \in 1 .. Len(s) + 1
      PROVE  t[k] = IF k < i THEN s[k] ELSE IF k = i THEN e ELSE s[k - 1]
  <2>1. k \in Nat /\ i \in Nat
    BY <1>1
  <2>2. CASE k <= i
    BY <1>5, <1>6, <2>1, <2>2 DEF t
  <2>3. CASE k > i
    <3>1. k - i \in 1 .. Len(s) - i + 1 /\ i + (k - i) - 1 = k - 1
      BY <1>1, <2>1, <2>3
    <3>2. tail[k - i] = s[k - 1]
      BY <1>3, <3>1
    <3>3. t[k] = s[k - 1]
      BY <1>6, <2>1, <2>3, <3>2 DEF t
    <3> QED BY <2>1, <2>3, <3>3
  <2> QED BY <2>1, <2>2, <2>3
<1> QED BY <1>6, <1>7, <1>8 DEF S, Slots, t

\* The slots t are the slots s with e at position i.
IsInsertion(t, s, i, e) ==
  /\ t \in Slots /\ Len(t) = Len(s) + 1
  /\ \A k \in 1 .. Len(s) + 1 : t[k] = IF k < i THEN s[k] ELSE IF k = i THEN e ELSE s[k - 1]

LEMMA InsertIsInsertion ==
  ASSUME NEW s \in Slots, NEW e \in Objects \cup {Empty}, NEW i \in 1 .. Len(s) + 1
  PROVE  IsInsertion(InsertAt(s, i, e), s, i, e)
BY InsertInSlots DEF IsInsertion

LEMMA RemoveFromSlots ==
  ASSUME NEW s \in Slots, NEW i \in 1 .. Len(s)
  PROVE  /\ RemoveAt(s, i) \in Slots
         /\ Len(RemoveAt(s, i)) = Len(s) - 1
         /\ \A k \in 1 .. Len(s) - 1 :
              RemoveAt(s, i)[k] = IF k < i THEN s[k] ELSE s[k + 1]
<1> DEFINE S == Objects \cup {Empty}
           head == SubSeq(s, 1, i - 1)
           tail == SubSeq(s, i + 1, Len(s))
<1>1. s \in Seq(S) /\ Len(s) \in Nat /\ \A k \in 1 .. Len(s) : s[k] \in S
  BY ElementOfSeq DEF Slots
<1>2. /\ head \in Seq(S) /\ Len(head) = i - 1
      /\ \A k \in 1 .. i - 1 : head[k] = s[k]
  <2>1. i - 1 \in Int /\ \A k \in 1 .. i - 1 : s[k] \in S
    BY <1>1
  <2> HIDE DEF S
  <2> QED BY <1>1, <2>1, SubSeqProperties
<1>3. /\ tail \in Seq(S) /\ Len(tail) = Len(s) - i
      /\ \A k \in 1 .. Len(s) - i : tail[k] = s[i + k]
  <2>1. i + 1 \in Int /\ \A k \in i + 1 .. Len(s) : s[k] \in S
    BY <1>1
  <2> HIDE DEF S
  <2>2. /\ tail \in Seq(S)
        /\ Len(tail) = IF i + 1 <= Len(s) THEN Len(s) - (i + 1) + 1 ELSE 0
        /\ \A k \in 1 .. Len(s) - (i + 1) + 1 : tail[k] = s[(i + 1) + k - 1]
    BY <1>1, <2>1, SubSeqProperties
  <2> HIDE DEF tail
  <2>3. Len(tail) = Len(s) - i
    BY <1>1, <2>2
  <2>4. ASSUME NEW k \in 1 .. Len(s) - i PROVE tail[k] = s[i + k]
    <3>1. k \in 1 .. Len(s) - (i + 1) + 1 /\ (i + 1) + k - 1 = i + k
      BY <1>1
    <3> QED BY <2>2, <3>1
  <2> QED BY <2>2, <2>3, <2>4
<1> HIDE DEF S, head, tail
<1>4. /\ head \o tail \in Seq(S) /\ Len(head \o tail) = Len(s) - 1
      /\ \A k \in 1 .. Len(s) - 1 :
           (head \o tail)[k] = IF k <= i - 1 THEN head[k] ELSE tail[k - (i - 1)]
  BY <1>1, <1>2, <1>3, ConcatProperties
<1> DEFINE t == head \o tail
<1>5. RemoveAt(s, i) = t
  BY DEF RemoveAt, head, tail
<1> HIDE DEF t
<1>6. ASSUME NEW k \in 1 .. Len(s) - 1
      PROVE  t[k] = IF k < i THEN s[k] ELSE s[k + 1]
  <2>1. k \in Nat /\ i \in Nat
    BY <1>1
  <2>2. CASE k < i
    BY <1>2, <1>4, <2>1, <2>2 DEF t
  <2>3. CASE k >= i
    <3>1. k - (i - 1) \in 1 .. Len(s) - i /\ i + (k - (i - 1)) = k + 1
      BY <1>1, <2>1, <2>3
    <3>2. tail[k - (i - 1)] = s[k + 1]
      BY <1>3, <3>1
    <3>3. t[k] = s[k + 1]
      BY <1>4, <2>1, <2>3, <3>2 DEF t
    <3> QED BY <2>1, <2>3, <3>3
  <2> QED BY <2>1, <2>2, <2>3
<1> QED BY <1>4, <1>5, <1>6 DEF S, Slots, t

\* A list that was full is larger afterwards.
LEMMA MultGrows ==
  ASSUME NEW n \in Nat
  PROVE  Mult(n) \in Nat /\ Mult(n) > n
<1>1. /\ First \in Nat /\ Small \in Nat /\ Small >= 2 /\ Small <= First
  BY ListAssumption
<1>2. CASE n < Small
  BY <1>1, <1>2 DEF Mult
<1>3. CASE n >= Small
  <2>1. Mult(n) = (n * 3) \div 2
    BY <1>1, <1>3 DEF Mult
  <2>2. (n * 3) \div 2 \in Nat /\ (n * 3) \div 2 > n
    BY <1>1, <1>3
  <2> QED BY <2>1, <2>2
<1> QED BY <1>1, <1>2, <1>3

LEMMA NoGapMeans ==
  ASSUME NEW s \in Structs
  PROVE  NoGap(s) <=> \A k \in 1 .. Len(s.ptr_) : s.ptr_[k] # Empty
BY DEF NoGap, ToSet, Structs, Slots

LEMMA ReservedHasRoom ==
  ASSUME NEW s \in Structs
  PROVE  /\ Reserved(s) \in Structs /\ Reserved(s).ptr_ = s.ptr_
         /\ HasRoom(s) => n_(s) + 1 <= Reserved(s).n_reserved_
         /\ HasRoom(s) => Reserved(s).n_reserved_ = Reserved(s).room
         /\ NotReserved(s) \in Structs /\ NotReserved(s).ptr_ = s.ptr_
<1>1. /\ s.ptr_ \in Slots /\ s.n_reserved_ \in Nat /\ s.room \in Nat
      /\ s = [ptr_ |-> s.ptr_, n_reserved_ |-> s.n_reserved_, room |-> s.room]
  BY DEF Structs
<1>2. n_(s) \in Nat
  BY <1>1 DEF n_, Slots
<1>3. Mult(n_(s)) \in Nat /\ Mult(n_(s)) > n_(s)
  BY <1>2, MultGrows
<1>4. NotReserved(s) = [ptr_ |-> s.ptr_, n_reserved_ |-> Mult(n_(s)), room |-> s.room]
  BY <1>1 DEF NotReserved
<1>5. CASE Full(s)
  <2>1. Reserved(s) = [ptr_ |-> s.ptr_, n_reserved_ |-> Mult(n_(s)), room |-> Mult(n_(s))]
    BY <1>1, <1>5 DEF Reserved
  <2> QED BY <1>1, <1>2, <1>3, <1>4, <2>1 DEF Structs
<1>6. CASE ~ Full(s)
  <2>1. Reserved(s) = s /\ n_(s) + 1 <= s.n_reserved_
    BY <1>1, <1>2, <1>6 DEF Reserved, Full
  <2> QED BY <1>1, <1>2, <1>3, <1>4, <2>1 DEF Structs, HasRoom
<1> QED BY <1>5, <1>6

LEMMA MovedInIsStruct ==
  ASSUME NEW s \in Structs, NEW o \in Objects \cup {Empty}, NEW pos \in Int
  PROVE  /\ MovedIn(s, o, pos) \in Structs
         /\ n_(MovedIn(s, o, pos)) <= n_(s) + 1
         /\ HasRoom(s) => HasRoom(MovedIn(s, o, pos))
         /\ NoGap(s) => MovedIn(s, o, pos).ptr_ =
                          InsertAt(s.ptr_, (IF At(s, pos) THEN pos ELSE n_(s)) + 1, o)
         /\ NoGap(s) /\ o # Empty => NoGap(MovedIn(s, o, pos))
<1> DEFINE m == MovedIn(s, o, pos)
           i == (IF At(s, pos) THEN pos ELSE n_(s)) + 1
<1>1. s.ptr_ \in Slots /\ n_(s) \in Nat /\ n_(s) = Len(s.ptr_)
  BY DEF Structs, n_, Slots
<1>2. CASE Fills(s, pos)
  <2> DEFINE filled == [k \in DOMAIN s.ptr_ |-> IF s.ptr_[k] = Empty THEN o ELSE s.ptr_[k]]
  <2>1. filled \in Slots /\ Len(filled) = Len(s.ptr_)
    <3>1. s.ptr_ \in [1 .. Len(s.ptr_) -> Objects \cup {Empty}]
      BY <1>1 DEF Slots
    <3>2. filled \in [1 .. Len(s.ptr_) -> Objects \cup {Empty}]
      BY <3>1
    <3> HIDE DEF filled
    <3> QED BY <1>1, <3>2 DEF Slots
  <2>2. m = [s EXCEPT !.ptr_ = filled]
    BY <1>2 DEF MovedIn
  <2>3. ~ NoGap(s)
    BY <1>2 DEF Fills, NoGap
  <2> HIDE DEF filled, m
  <2>4. m \in Structs /\ n_(m) = n_(s) /\ m.n_reserved_ = s.n_reserved_ /\ m.room = s.room
    BY <1>1, <2>1, <2>2 DEF Structs, n_
  <2> QED BY <1>1, <2>3, <2>4 DEF HasRoom, m
<1>3. CASE ~ Fills(s, pos)
  <2>1. i \in 1 .. Len(s.ptr_) + 1
    BY <1>1 DEF At
  <2> DEFINE r == Reserved(s)
             more == InsertAt(s.ptr_, i, o)
  <2>2. r \in Structs /\ r.ptr_ = s.ptr_
    BY ReservedHasRoom
  <2>3. m = [r EXCEPT !.ptr_ = InsertAt(r.ptr_, i, o)]
    BY <1>3 DEF MovedIn, Inserted
  <2> HIDE DEF r, m, i
  <2>4. /\ more \in Slots /\ Len(more) = Len(s.ptr_) + 1
        /\ \A k \in 1 .. Len(s.ptr_) + 1 :
             more[k] = IF k < i THEN s.ptr_[k] ELSE IF k = i THEN o ELSE s.ptr_[k - 1]
    <3> DEFINE p == s.ptr_
    <3>1. p \in Slots /\ o \in Objects \cup {Empty} /\ i \in 1 .. Len(p) + 1
      BY <1>1, <2>1
    <3> HIDE DEF p
    <3>2. IsInsertion(InsertAt(p, i, o), p, i, o)
      BY <3>1, InsertIsInsertion
    <3> QED BY <3>2 DEF p, IsInsertion
  <2> HIDE DEF more
  <2>5. /\ m \in Structs /\ m.ptr_ = more
        /\ m.n_reserved_ = r.n_reserved_ /\ m.room = r.room
    BY <2>2, <2>3, <2>4 DEF Structs, more
  <2>6. HasRoom(s) => HasRoom(m)
    BY <1>1, <2>4, <2>5, ReservedHasRoom DEF HasRoom, n_, r
  <2>7. NoGap(s) /\ o # Empty => NoGap(m)
    <3> SUFFICES ASSUME NoGap(s), o # Empty, NEW k \in 1 .. Len(m.ptr_)
                 PROVE  m.ptr_[k] # Empty
      BY <2>5, NoGapMeans
    <3>1. \A h \in 1 .. Len(s.ptr_) : s.ptr_[h] # Empty
      BY NoGapMeans
    <3>2. k \in 1 .. Len(s.ptr_) + 1 /\ k \in Nat /\ Len(s.ptr_) \in Nat /\ i \in Nat
      BY <1>1, <2>1, <2>4, <2>5
    <3>3. CASE k < i
      BY <2>1, <2>4, <2>5, <3>1, <3>2, <3>3
    <3>4. CASE k = i
      BY <2>4, <2>5, <3>2, <3>4
    <3>5. CASE k > i
      <4>1. k - 1 \in 1 .. Len(s.ptr_) /\ ~ k < i /\ k # i
        BY <2>1, <3>2, <3>5
      <4> QED BY <2>4, <2>5, <3>1, <3>2, <4>1
    <3> QED BY <3>2, <3>3, <3>4, <3>5
  <2> QED BY <1>1, <2>4, <2>5, <2>6, <2>7 DEF n_, i, m, more
<1> QED BY <1>2, <1>3

LEMMA ReleasedIsStruct ==
  ASSUME NEW s \in Structs, NEW pos \in 0 .. n_(s) - 1
  PROVE  /\ Released(s, pos) \in Structs
         /\ n_(Released(s, pos)) = n_(s) - 1
         /\ Released(s, pos).ptr_ = RemoveAt(s.ptr_, pos + 1)
         /\ HasRoom(s) => HasRoom(Released(s, pos))
         /\ NoGap(s) => NoGap(Released(s, pos))
<1> DEFINE m == Released(s, pos)
           less == RemoveAt(s.ptr_, pos + 1)
<1>1. s.ptr_ \in Slots /\ n_(s) \in Nat /\ n_(s) = Len(s.ptr_)
  BY DEF Structs, n_, Slots
<1>2. pos + 1 \in 1 .. Len(s.ptr_)
  BY <1>1
<1>3. /\ less \in Slots /\ Len(less) = n_(s) - 1
      /\ \A k \in 1 .. Len(s.ptr_) - 1 :
           less[k] = IF k < pos + 1 THEN s.ptr_[k] ELSE s.ptr_[k + 1]
  BY <1>1, <1>2, RemoveFromSlots
<1>4. m = [s EXCEPT !.ptr_ = less]
  BY DEF Released
<1> HIDE DEF m, less
<1>5. /\ m \in Structs /\ m.ptr_ = less
      /\ m.n_reserved_ = s.n_reserved_ /\ m.room = s.room
  BY <1>3, <1>4 DEF Structs
<1>6. n_(m) = n_(s) - 1
  BY <1>3, <1>5 DEF n_
<1>7. HasRoom(s) => HasRoom(m)
  BY <1>1, <1>5, <1>6 DEF HasRoom, Structs
<1>8. NoGap(s) => NoGap(m)
  <2> SUFFICES ASSUME NoGap(s), NEW k \in 1 .. Len(m.ptr_)
               PROVE  m.ptr_[k] # Empty
    BY <1>5, NoGapMeans
  <2>1. \A h \in 1 .. Len(s.ptr_) : s.ptr_[h] # Empty
    BY NoGapMeans
  <2>2. k \in 1 .. Len(s.ptr_) - 1 /\ k \in 1 .. Len(s.ptr_) /\ k + 1 \in 1 .. Len(s.ptr_)
    BY <1>1, <1>3, <1>5
  <2> QED BY <1>3, <1>5, <2>1, <2>2
<1> QED BY <1>5, <1>6, <1>7, <1>8 DEF m, less

-----------------------------------------------------------------------------
(* A copied list.                                                             *)

\* One step of the function after of CopiedInto().
After(c, slots, g, k) == IF k = 0 THEN c ELSE MovedIn(g[k - 1], slots[k], -1)

LEMMA CopiedIsAfter ==
  ASSUME NEW c \in Structs, NEW slots \in Slots
  PROVE  CopiedInto(c, slots) =
           [k \in 0 .. Len(slots) |-> After(c, slots, CopiedInto(c, slots), k)]
<1> DEFINE n == Len(slots)
           Step == [p \in (1 .. n) \X Structs |-> MovedIn(p[2], slots[p[1]], -1)]
<1>1. n \in Nat /\ \A k \in 1 .. n : slots[k] \in Objects \cup {Empty}
  BY ElementOfSeq DEF Slots
<1>2. Step \in [(1 .. n) \X Structs -> Structs]
  <2>1. ASSUME NEW p \in (1 .. n) \X Structs
        PROVE  MovedIn(p[2], slots[p[1]], -1) \in Structs
    <3>1. p[1] \in 1 .. n /\ p[2] \in Structs /\ -1 \in Int
      OBVIOUS
    <3>2. slots[p[1]] \in Objects \cup {Empty}
      BY <1>1, <3>1
    <3> QED BY <3>1, <3>2, MovedInIsStruct
  <2> HIDE DEF n
  <2> QED BY <2>1
<1>3. PICK f \in [0 .. n -> Structs] : AreRounds(f, n, c, Step)
  <2>1. n \in Nat
    BY <1>1
  <2> HIDE DEF n, Step
  <2> QED BY <2>1, <1>2, RoundsExist
<1>4. f = [k \in 0 .. n |-> After(c, slots, f, k)]
  <2>1. ASSUME NEW k \in 0 .. n
        PROVE  (IF k = 0 THEN c ELSE Step[<<k, f[k - 1]>>]) = After(c, slots, f, k)
    <3>1. CASE k = 0
      BY <3>1 DEF After
    <3>2. CASE k # 0
      <4>1. k \in 1 .. n /\ k - 1 \in 0 .. n
        BY <1>1, <3>2
      <4>2. f[k - 1] \in Structs
        BY <1>3, <4>1
      <4>3. <<k, f[k - 1]>> \in (1 .. n) \X Structs
        BY <4>1, <4>2
      <4>4. Step[<<k, f[k - 1]>>] = MovedIn(f[k - 1], slots[k], -1)
        BY <4>3
      <4> QED BY <3>2, <4>4 DEF After
    <3> QED BY <3>1, <3>2
  <2> HIDE DEF n, Step
  <2> QED BY <1>3, <2>1 DEF AreRounds
<1> DEFINE g == CHOOSE h : h = [k \in 0 .. n |-> After(c, slots, h, k)]
<1>5. g = [k \in 0 .. n |-> After(c, slots, g, k)]
  BY <1>4
<1>6. CopiedInto(c, slots) = g
  BY DEF CopiedInto, After
<1> HIDE DEF g
<1> QED BY <1>5, <1>6

\* The slots that are copied, in their order.
LEMMA CopiedProperties ==
  ASSUME NEW c \in Structs, c.ptr_ = << >>, NEW slots \in Slots,
         Empty \notin ToSet(slots), NEW k \in 0 .. Len(slots)
  PROVE  /\ CopiedInto(c, slots)[k] \in Structs
         /\ n_(CopiedInto(c, slots)[k]) = k
         /\ \A j \in 1 .. k : CopiedInto(c, slots)[k].ptr_[j] = slots[j]
         /\ HasRoom(c) => HasRoom(CopiedInto(c, slots)[k])
<1> DEFINE N == Len(slots)
           g == CopiedInto(c, slots)
           Copied(m) == /\ g[m] \in Structs
                        /\ n_(g[m]) = m
                        /\ \A j \in 1 .. m : g[m].ptr_[j] = slots[j]
                        /\ HasRoom(c) => HasRoom(g[m])
           S == {m \in Nat : m <= N => Copied(m)}
<1>1. /\ N \in Nat
      /\ \A m \in 1 .. N : slots[m] \in Objects \cup {Empty} /\ slots[m] # Empty
  BY ElementOfSeq DEF Slots, ToSet
<1>2. g = [m \in 0 .. N |-> After(c, slots, g, m)]
  BY CopiedIsAfter
<1> HIDE DEF g
<1>3. 0 \in S
  <2>1. g[0] = c
    BY <1>1, <1>2 DEF After
  <2> QED BY <2>1 DEF n_
<1>4. ASSUME NEW m \in S PROVE m + 1 \in S
  <2> SUFFICES ASSUME m + 1 <= N PROVE Copied(m + 1)
    OBVIOUS
  <2>1. m \in Nat /\ m + 1 \in 1 .. N /\ Copied(m)
    BY <1>1
  <2>2. g[m + 1] = MovedIn(g[m], slots[m + 1], -1)
    <3>1. g[m + 1] = After(c, slots, g, m + 1)
      BY <1>1, <1>2, <2>1
    <3> QED BY <2>1, <3>1 DEF After
  <2>3. slots[m + 1] \in Objects \cup {Empty} /\ slots[m + 1] # Empty /\ -1 \in Int
    BY <1>1, <2>1
  <2> DEFINE s == g[m]
             t == g[m + 1]
             e == slots[m + 1]
  <2>4. s \in Structs /\ Len(s.ptr_) = m /\ \A j \in 1 .. m : s.ptr_[j] = slots[j]
    BY <2>1 DEF n_
  <2> HIDE DEF s, t, e, Copied, S, N
  <2>5. NoGap(s)
    <3>1. ASSUME NEW j \in 1 .. Len(s.ptr_) PROVE s.ptr_[j] # Empty
      <4>1. j \in 1 .. m /\ j \in 1 .. N
        BY <1>1, <2>1, <2>4
      <4> QED BY <1>1, <2>4, <4>1
    <3> QED BY <2>4, <3>1, NoGapMeans
  <2>6. ~ At(s, -1)
    BY DEF At
  <2>7. /\ t \in Structs
        /\ HasRoom(s) => HasRoom(t)
        /\ t.ptr_ = InsertAt(s.ptr_, n_(s) + 1, e)
    <3>1. t = MovedIn(s, e, -1) /\ e \in Objects \cup {Empty} /\ -1 \in Int
      BY <2>2, <2>3 DEF s, t, e
    <3> QED BY <2>4, <2>5, <2>6, <3>1, MovedInIsStruct
  <2>8. s.ptr_ \in Slots /\ e \in Objects \cup {Empty} /\ n_(s) + 1 \in 1 .. Len(s.ptr_) + 1
    BY <2>1, <2>3, <2>4 DEF Structs, n_, e
  <2>9. /\ Len(t.ptr_) = m + 1
        /\ \A j \in 1 .. m + 1 : t.ptr_[j] = IF j < m + 1 THEN s.ptr_[j]
                                             ELSE IF j = m + 1 THEN e ELSE s.ptr_[j - 1]
    <3>1. t.ptr_ = InsertAt(s.ptr_, m + 1, e) /\ m + 1 \in 1 .. Len(s.ptr_) + 1
      BY <2>4, <2>7, <2>8 DEF n_
    <3> DEFINE i == m + 1
               p == s.ptr_
    <3>2. p \in Slots /\ e \in Objects \cup {Empty} /\ i \in 1 .. Len(p) + 1
      BY <2>8, <3>1
    <3> HIDE DEF i, p
    <3>3. IsInsertion(InsertAt(p, i, e), p, i, e)
      BY <3>2, InsertIsInsertion
    <3> QED BY <2>4, <3>1, <3>3 DEF i, p, IsInsertion
  <2>10. ASSUME NEW j \in 1 .. m + 1 PROVE t.ptr_[j] = slots[j]
    <3>1. CASE j = m + 1
      BY <2>1, <2>9, <3>1 DEF e
    <3>2. CASE j # m + 1
      <4>1. j \in 1 .. m /\ j < m + 1
        BY <2>1, <3>2
      <4> QED BY <2>4, <2>9, <4>1
    <3> QED BY <3>1, <3>2
  <2>11. HasRoom(c) => HasRoom(t)
    BY <2>1, <2>7 DEF Copied, s
  <2> QED BY <2>7, <2>9, <2>10, <2>11 DEF Copied, t, n_
<1>5. S = Nat
  <2>1. S \in SUBSET Nat
    OBVIOUS
  <2> HIDE DEF S
  <2> QED BY <1>3, <1>4, <2>1, SetInduction
<1>6. Copied(k)
  <2>1. k \in S /\ k <= N
    BY <1>1, <1>5
  <2> QED BY <2>1
<1> QED BY <1>6 DEF g

-----------------------------------------------------------------------------
(* A sorted list.                                                             *)

\* No position is twice among some positions.
OneEach(q) == \A i, j \in 1 .. Len(q) : q[i] = q[j] => i = j

LEMMA AppendOne ==
  ASSUME NEW n \in Nat, NEW q \in Seq(1 .. n), NEW e \in 1 .. n
  PROVE  /\ Append(q, e) \in Seq(1 .. n)
         /\ ToSet(Append(q, e)) = ToSet(q) \cup {e}
         /\ OneEach(q) /\ e \notin ToSet(q) => OneEach(Append(q, e))
<1> DEFINE r == Append(q, e)
<1>1. /\ r \in Seq(1 .. n) /\ Len(r) = Len(q) + 1 /\ Len(q) \in Nat
      /\ \A i \in 1 .. Len(q) : r[i] = q[i]
      /\ r[Len(q) + 1] = e
  BY AppendProperties
<1>2. DOMAIN r = 1 .. Len(r) /\ DOMAIN q = 1 .. Len(q)
  BY <1>1
<1> HIDE DEF r
<1>3. \A i \in 1 .. Len(r) : i \in 1 .. Len(q) \/ i = Len(q) + 1
  BY <1>1
<1>4. \A i \in 1 .. Len(q) : i \in 1 .. Len(r) /\ q[i] = r[i]
  BY <1>1
<1>5. Len(q) + 1 \in 1 .. Len(r)
  BY <1>1
<1>6. ToSet(r) = ToSet(q) \cup {e}
  BY <1>1, <1>2, <1>3, <1>4, <1>5 DEF ToSet
<1>7. OneEach(q) /\ e \notin ToSet(q) => OneEach(r)
  <2> SUFFICES ASSUME OneEach(q), e \notin ToSet(q),
                      NEW i \in 1 .. Len(r), NEW j \in 1 .. Len(r), r[i] = r[j]
               PROVE  i = j
    BY DEF OneEach
  <2>1. \A k \in 1 .. Len(q) : q[k] # e
    BY <1>2 DEF ToSet
  <2> QED BY <1>1, <1>3, <1>4, <2>1 DEF OneEach
<1> QED BY <1>1, <1>6, <1>7 DEF r

\* One step of the function moved of Behind().
Moved(q, best, g, i) == IF i = 0 THEN q ELSE IF i \in best THEN Append(g[i - 1], i) ELSE g[i - 1]

IsMoved(g, q, best, n) == /\ g = [i \in 0 .. n |-> Moved(q, best, g, i)]
                          /\ Behind(q, best, n) = g[n]

LEMMA BehindIsMoved ==
  ASSUME NEW n \in Nat, NEW q \in Seq(1 .. n), NEW best
  PROVE  \E g : IsMoved(g, q, best, n)
<1> DEFINE X == Seq(1 .. n)
           Step == [p \in (1 .. n) \X X |-> IF p[1] \in best THEN Append(p[2], p[1]) ELSE p[2]]
<1>1. Step \in [(1 .. n) \X X -> X]
  <2>1. ASSUME NEW p \in (1 .. n) \X X
        PROVE  (IF p[1] \in best THEN Append(p[2], p[1]) ELSE p[2]) \in X
    <3>1. p[1] \in 1 .. n /\ p[2] \in X
      OBVIOUS
    <3> QED BY <3>1, AppendProperties
  <2> HIDE DEF X
  <2> QED BY <2>1
<1>2. PICK f \in [0 .. n -> X] : AreRounds(f, n, q, Step)
  <2>1. q \in X
    OBVIOUS
  <2> HIDE DEF X, Step
  <2> QED BY <2>1, <1>1, RoundsExist
<1>3. f = [i \in 0 .. n |-> Moved(q, best, f, i)]
  <2>1. ASSUME NEW i \in 0 .. n
        PROVE  (IF i = 0 THEN q ELSE Step[<<i, f[i - 1]>>]) = Moved(q, best, f, i)
    <3>1. CASE i = 0
      BY <3>1 DEF Moved
    <3>2. CASE i # 0
      <4>1. i \in 1 .. n /\ i - 1 \in 0 .. n
        BY <3>2
      <4>2. f[i - 1] \in X
        BY <1>2, <4>1
      <4>3. <<i, f[i - 1]>> \in (1 .. n) \X X
        BY <4>1, <4>2
      <4>4. Step[<<i, f[i - 1]>>] = IF i \in best THEN Append(f[i - 1], i) ELSE f[i - 1]
        BY <4>3
      <4> QED BY <3>2, <4>4 DEF Moved
    <3> QED BY <3>1, <3>2
  <2> HIDE DEF X, Step
  <2> QED BY <1>2, <2>1 DEF AreRounds
<1> DEFINE g == CHOOSE h : h = [i \in 0 .. n |-> Moved(q, best, h, i)]
<1>4. g = [i \in 0 .. n |-> Moved(q, best, g, i)]
  BY <1>3
<1>5. Behind(q, best, n) = g[n]
  BY DEF Behind, Moved
<1> HIDE DEF g
<1> QED BY <1>4, <1>5 DEF IsMoved

LEMMA BehindProperties ==
  ASSUME NEW n \in Nat, NEW q \in Seq(1 .. n), OneEach(q),
         NEW best \in SUBSET (1 .. n), best \cap ToSet(q) = {}
  PROVE  /\ Behind(q, best, n) \in Seq(1 .. n)
         /\ OneEach(Behind(q, best, n))
         /\ ToSet(Behind(q, best, n)) = ToSet(q) \cup best
<1>1. PICK g : IsMoved(g, q, best, n)
  BY BehindIsMoved, Zenon
<1> DEFINE To(i) == /\ g[i] \in Seq(1 .. n)
                    /\ OneEach(g[i])
                    /\ ToSet(g[i]) = ToSet(q) \cup (best \cap (1 .. i))
           S == {i \in Nat : i <= n => To(i)}
<1>2. 0 \in S
  <2>1. g[0] = q
    BY <1>1 DEF Moved, IsMoved
  <2> QED BY <2>1
<1>3. ASSUME NEW i \in S PROVE i + 1 \in S
  <2> SUFFICES ASSUME i + 1 <= n PROVE To(i + 1)
    OBVIOUS
  <2>1. i \in Nat /\ i + 1 \in 1 .. n /\ To(i)
    OBVIOUS
  <2>2. g[i + 1] = IF i + 1 \in best THEN Append(g[i], i + 1) ELSE g[i]
    <3>1. i + 1 \in 0 .. n /\ i + 1 # 0 /\ (i + 1) - 1 = i
      OBVIOUS
    <3> HIDE DEF To
    <3>2. g[i + 1] = Moved(q, best, g, i + 1)
      BY <1>1, <3>1 DEF IsMoved
    <3> QED BY <3>1, <3>2 DEF Moved
  <2>3. 1 .. (i + 1) = (1 .. i) \cup {i + 1} /\ i + 1 \notin 1 .. i
    BY <2>1
  <2> HIDE DEF S
  <2>4. CASE i + 1 \in best
    <3>1. g[i + 1] = Append(g[i], i + 1)
      BY <2>2, <2>4
    <3>2. i + 1 \notin ToSet(g[i])
      BY <2>1, <2>3, <2>4
    <3>3. /\ Append(g[i], i + 1) \in Seq(1 .. n)
          /\ ToSet(Append(g[i], i + 1)) = ToSet(g[i]) \cup {i + 1}
          /\ OneEach(Append(g[i], i + 1))
      BY <2>1, <3>2, AppendOne
    <3> QED BY <2>1, <2>3, <2>4, <3>1, <3>3
  <2>5. CASE i + 1 \notin best
    BY <2>1, <2>2, <2>3, <2>5
  <2> QED BY <2>4, <2>5
<1>4. To(n)
  <2>1. S \in SUBSET Nat
    OBVIOUS
  <2> HIDE DEF S
  <2>2. S = Nat
    BY <1>2, <1>3, <2>1, SetInduction
  <2> USE DEF S
  <2> QED BY <2>2
<1>5. best \cap (1 .. n) = best
  OBVIOUS
<1> QED BY <1>1, <1>4, <1>5 DEF IsMoved

\* Places of a sequence and of one with one entry more.
LEMMA UpToOneMore ==
  \A m \in Nat : \A j \in 1 .. m + 1 : j \in 1 .. m \/ j = m + 1
OBVIOUS

\* Of two places in order, the first is not the last one.
LEMMA FirstOfTwo ==
  \A m \in Nat : \A i, j \in 1 .. m + 1 : i < j => i \in 1 .. m
OBVIOUS

\* What is of a higher rank, or of an earlier position, is so before the next one too.
LEMMA StaysHigher ==
  \A r, max, e, i \in Int :
    r > max \/ (r = max /\ e <= i) =>
      /\ r > max \/ (r = max /\ e <= i + 1)
      /\ r > max \/ (r = max /\ e < i + 1)
OBVIOUS

\* An entry that all others are before can be the last one.
LEMMA AppendInOrder ==
  ASSUME NEW n \in Nat, NEW q \in Seq(1 .. n), NEW e \in 1 .. n, NEW rank,
         InOrder(q, rank), \A i \in 1 .. Len(q) : Before(rank, q[i], e)
  PROVE  InOrder(Append(q, e), rank)
<1> DEFINE r == Append(q, e)
<1>1. /\ r \in Seq(1 .. n) /\ Len(r) = Len(q) + 1 /\ Len(q) \in Nat
      /\ \A i \in 1 .. Len(q) : r[i] = q[i]
      /\ r[Len(q) + 1] = e
  BY AppendProperties
<1>2. DOMAIN r = 1 .. Len(r) /\ DOMAIN q = 1 .. Len(q)
  BY <1>1
<1> HIDE DEF r
<1>3. \A j \in 1 .. Len(r) : j \in 1 .. Len(q) \/ j = Len(q) + 1
  BY <1>1, UpToOneMore, Zenon
<1> SUFFICES ASSUME NEW i \in 1 .. Len(r), NEW j \in 1 .. Len(r), i < j
             PROVE  Before(rank, r[i], r[j])
  BY <1>2 DEF InOrder, r
<1>4. i \in 1 .. Len(q) /\ r[i] = q[i]
  <2>1. i \in 1 .. Len(q)
    BY <1>1, FirstOfTwo, Zenon
  <2> QED BY <1>1, <2>1
<1>5. CASE j = Len(q) + 1
  BY <1>1, <1>4, <1>5
<1>6. CASE j # Len(q) + 1
  <2>1. j \in 1 .. Len(q)
    BY <1>6, <1>3
  <2>2. r[j] = q[j]
    BY <1>1, <2>1
  <2> QED BY <1>2, <1>4, <2>1, <2>2 DEF InOrder
<1> QED BY <1>5, <1>6

\* Positions of one rank go behind those of higher ranks.
LEMMA BehindInOrder ==
  ASSUME NEW n \in Nat, NEW q \in Seq(1 .. n), NEW best \in SUBSET (1 .. n),
         NEW rank \in [1 .. n -> Int], InOrder(q, rank), NEW max \in Int,
         \A i \in 1 .. Len(q) : rank[q[i]] > max,
         \A i \in best : rank[i] = max
  PROVE  InOrder(Behind(q, best, n), rank)
<1>1. PICK g : IsMoved(g, q, best, n)
  BY BehindIsMoved, Zenon
<1> DEFINE Higher(e, i) == rank[e] > max \/ (rank[e] = max /\ e <= i)
           To(i) == /\ g[i] \in Seq(1 .. n)
                    /\ InOrder(g[i], rank)
                    /\ \A k \in 1 .. Len(g[i]) : Higher(g[i][k], i)
           S == {i \in Nat : i <= n => To(i)}
<1>2. 0 \in S
  <2>1. g[0] = q
    BY <1>1 DEF Moved, IsMoved
  <2> QED BY <2>1
<1>3. ASSUME NEW i \in S PROVE i + 1 \in S
  <2> HIDE DEF To
  <2> SUFFICES ASSUME i + 1 <= n PROVE To(i + 1)
    OBVIOUS
  <2>1. i \in Nat /\ i + 1 \in 1 .. n /\ To(i)
    OBVIOUS
  <2> USE DEF To
  <2>2. g[i + 1] = IF i + 1 \in best THEN Append(g[i], i + 1) ELSE g[i]
    <3>1. i + 1 \in 0 .. n /\ i + 1 # 0 /\ (i + 1) - 1 = i
      OBVIOUS
    <3> HIDE DEF To
    <3>2. g[i + 1] = Moved(q, best, g, i + 1)
      BY <1>1, <3>1 DEF IsMoved
    <3> QED BY <3>1, <3>2 DEF Moved
  <2> HIDE DEF S
  <2>3. \A k \in 1 .. Len(g[i]) : /\ g[i][k] \in 1 .. n
                                 /\ Higher(g[i][k], i) /\ Higher(g[i][k], i + 1)
    <3> SUFFICES ASSUME NEW k \in 1 .. Len(g[i])
                 PROVE  /\ g[i][k] \in 1 .. n
                        /\ Higher(g[i][k], i) /\ Higher(g[i][k], i + 1)
      OBVIOUS
    <3>1. g[i][k] \in 1 .. n /\ Higher(g[i][k], i)
      BY <2>1, ElementOfSeq
    <3>2. rank[g[i][k]] \in Int /\ g[i][k] \in Int
      BY <3>1
    <3>3. Higher(g[i][k], i + 1)
      <4>1. i \in Int
        BY <2>1
      <4> QED BY <4>1, <3>1, <3>2, StaysHigher, Zenon
    <3> QED BY <3>1, <3>3
  <2>4. CASE i + 1 \in best
    <3> DEFINE r == Append(g[i], i + 1)
    <3>1. g[i + 1] = r /\ rank[i + 1] = max
      BY <2>2, <2>4
    <3>2. ASSUME NEW k \in 1 .. Len(g[i]) PROVE Before(rank, g[i][k], i + 1)
      <4>1. g[i][k] \in 1 .. n /\ Higher(g[i][k], i)
        BY <2>3
      <4>2. g[i][k] \in Int /\ rank[g[i][k]] \in Int /\ i \in Int
        BY <2>1, <4>1
      <4>3. rank[g[i][k]] > max \/ (rank[g[i][k]] = max /\ g[i][k] < i + 1)
        BY <4>1, <4>2, StaysHigher, Zenon
      <4> QED BY <3>1, <4>3 DEF Before
    <3>3. InOrder(r, rank)
      BY <2>1, <3>2, AppendInOrder
    <3>4. /\ r \in Seq(1 .. n) /\ Len(r) = Len(g[i]) + 1 /\ Len(g[i]) \in Nat
          /\ \A k \in 1 .. Len(g[i]) : r[k] = g[i][k]
          /\ r[Len(g[i]) + 1] = i + 1
      BY <2>1, AppendProperties
    <3> HIDE DEF r, To
    <3>5. ASSUME NEW k \in 1 .. Len(r) PROVE Higher(r[k], i + 1)
      <4>1. CASE k \in 1 .. Len(g[i])
        BY <2>3, <3>4, <4>1
      <4>2. CASE k = Len(g[i]) + 1
        <5>1. r[k] = i + 1 /\ rank[i + 1] = max
          BY <3>1, <3>4, <4>2
        <5> QED BY <2>1, <5>1
      <4>3. k \in 1 .. Len(g[i]) \/ k = Len(g[i]) + 1
        BY <3>4, UpToOneMore, Zenon
      <4> HIDE DEF Higher
      <4> QED BY <4>1, <4>2, <4>3
    <3> HIDE DEF Higher
    <3> QED BY <3>1, <3>3, <3>4, <3>5 DEF To
  <2>5. CASE i + 1 \notin best
    <3>1. g[i + 1] = g[i]
      BY <2>2, <2>5
    <3> HIDE DEF Higher
    <3> QED BY <2>1, <2>3, <3>1
  <2> QED BY <2>4, <2>5
<1>4. To(n)
  <2>1. S \in SUBSET Nat
    OBVIOUS
  <2> HIDE DEF S
  <2>2. S = Nat
    BY <1>2, <1>3, <2>1, SetInduction
  <2> USE DEF S
  <2> QED BY <2>2
<1> QED BY <1>1, <1>4 DEF IsMoved

\* A finite set of ranks has a highest one.
LEMMA HighestExists ==
  ASSUME NEW n \in Nat, NEW rank \in [1 .. n -> Int], NEW I \in SUBSET (1 .. n), I # {}
  PROVE  \E m \in I : \A i \in I : rank[i] <= rank[m]
<1> DEFINE S == {k \in Nat : I \cap (1 .. k) # {} =>
                   \E m \in I \cap (1 .. k) : \A i \in I \cap (1 .. k) : rank[i] <= rank[m]}
<1>1. 0 \in S
  OBVIOUS
<1>2. ASSUME NEW k \in S PROVE k + 1 \in S
  <2>1. k \in Nat /\ 1 .. (k + 1) = (1 .. k) \cup {k + 1}
    OBVIOUS
  <2>2. CASE k + 1 \notin I
    <3> DEFINE J == I \cap (1 .. k)
               K == I \cap (1 .. (k + 1))
    <3>1. K = J
      BY <2>1, <2>2
    <3>2. J # {} => \E m \in J : \A i \in J : rank[i] <= rank[m]
      OBVIOUS
    <3> HIDE DEF J, K
    <3>3. K # {} => \E m \in K : \A i \in K : rank[i] <= rank[m]
      BY <3>1, <3>2
    <3> QED BY <2>1, <3>3, SMTT(30) DEF K
  <2>3. CASE k + 1 \in I
    <3>1. CASE I \cap (1 .. k) = {}
      <4>1. I \cap (1 .. (k + 1)) = {k + 1}
        BY <2>1, <2>3, <3>1
      <4>2. rank[k + 1] <= rank[k + 1]
        BY <2>3
      <4> DEFINE K == I \cap (1 .. (k + 1))
      <4> HIDE DEF K
      <4>3. \E m \in K : \A i \in K : rank[i] <= rank[m]
        BY <4>1, <4>2, Zenon DEF K
      <4> QED BY <2>1, <4>3 DEF K
    <3>2. CASE I \cap (1 .. k) # {}
      <4>1. PICK m \in I \cap (1 .. k) : \A i \in I \cap (1 .. k) : rank[i] <= rank[m]
        BY <3>2
      <4>2. \A i \in I : rank[i] \in Int
        OBVIOUS
      <4>3. \A i \in I \cap (1 .. (k + 1)) : i \in I \cap (1 .. k) \/ i = k + 1
        BY <2>1
      <4>4. m \in I \cap (1 .. (k + 1)) /\ k + 1 \in I \cap (1 .. (k + 1))
        BY <2>1, <2>3
      <4>5. CASE rank[k + 1] <= rank[m]
        <5>1. \A i \in I \cap (1 .. (k + 1)) : rank[i] <= rank[m]
          BY <4>1, <4>2, <4>3, <4>4, <4>5
        <5> QED BY <4>4, <5>1
      <4>6. CASE ~ rank[k + 1] <= rank[m]
        <5>1. ASSUME NEW i \in I \cap (1 .. (k + 1)) PROVE rank[i] <= rank[k + 1]
          <6>1. rank[i] \in Int /\ rank[m] \in Int /\ rank[k + 1] \in Int
            BY <4>2, <4>4
          <6>2. CASE i \in I \cap (1 .. k)
            BY <4>1, <4>6, <6>1, <6>2
          <6>3. CASE i = k + 1
            BY <6>1, <6>3
          <6> QED BY <4>3, <6>2, <6>3
        <5> QED BY <4>4, <5>1
      <4> QED BY <4>5, <4>6
    <3> QED BY <3>1, <3>2
  <2> QED BY <2>2, <2>3
<1>3. n \in S
  <2>1. S \in SUBSET Nat
    OBVIOUS
  <2> HIDE DEF S
  <2> QED BY <1>1, <1>2, <2>1, SetInduction
<1>4. I \cap (1 .. n) = I
  OBVIOUS
<1> QED BY <1>3, <1>4

\* What is sorted and what is left after some rounds, of the positions occ.
States(n, occ) == {x \in [left : SUBSET occ, sorted : Seq(1 .. n)] :
                     OneEach(x.sorted) /\ ToSet(x.sorted) = occ \ x.left}

\* A round keeps that, and sorts at least one position of those left unless the
\* lowest rank is among them.
LEMMA SortRoundStays ==
  ASSUME NEW n \in Nat, NEW occ \in SUBSET (1 .. n), NEW rank \in [1 .. n -> Int],
         NEW st \in States(n, occ)
  PROVE  /\ SortRound(st, rank) \in States(n, occ)
         /\ SortRound(st, rank).left \subseteq st.left
         /\ st.left # {} /\ (\A i \in occ : rank[i] # MinRank)
              => SortRound(st, rank).left # st.left
<1> DEFINE found == {rank[i] : i \in st.left} \ {MinRank}
           max   == CHOOSE m \in found : \A r \in found : r <= m
           best  == {i \in st.left : rank[i] = max}
           new   == [left |-> st.left \ best, sorted |-> Behind(st.sorted, best, Len(rank))]
<1>1. /\ st.left \in SUBSET occ /\ st.sorted \in Seq(1 .. n)
      /\ OneEach(st.sorted) /\ ToSet(st.sorted) = occ \ st.left
  BY DEF States
<1>2. Len(rank) = n
  <2>1. rank \in Seq(Int)
    OBVIOUS
  <2> QED BY <2>1
<1>3. SortRound(st, rank) = IF found = {} THEN st ELSE new
  BY DEF SortRound
<1>4. best \in SUBSET (1 .. n) /\ best \subseteq st.left /\ best \cap ToSet(st.sorted) = {}
  BY <1>1
<1> HIDE DEF max, best
<1>5. new \in States(n, occ)
  <2> DEFINE q == st.sorted
  <2>1. q \in Seq(1 .. n) /\ OneEach(q) /\ best \in SUBSET (1 .. n) /\ best \cap ToSet(q) = {}
    BY <1>1, <1>4
  <2> HIDE DEF q
  <2>2. /\ Behind(q, best, n) \in Seq(1 .. n)
        /\ OneEach(Behind(q, best, n))
        /\ ToSet(Behind(q, best, n)) = ToSet(q) \cup best
    BY <2>1, BehindProperties
  <2>3. ToSet(q) \cup best = occ \ (st.left \ best)
    BY <1>1, <1>4 DEF q
  <2> QED BY <1>1, <1>2, <2>2, <2>3 DEF States, q
<1>6. ASSUME st.left # {}, \A i \in occ : rank[i] # MinRank
      PROVE  found # {} /\ best # {}
  <2>1. st.left \in SUBSET (1 .. n)
    BY <1>1
  <2>2. PICK m \in st.left : \A i \in st.left : rank[i] <= rank[m]
    BY <1>6, <2>1, HighestExists
  <2>3. rank[m] \in found /\ \A r \in found : r <= rank[m]
    BY <1>1, <1>6, <2>2
  <2>4. max \in found
    BY <2>3 DEF max
  <2> QED BY <2>3, <2>4 DEF best
<1>7. new.left = st.left \ best
  OBVIOUS
<1> HIDE DEF found, new
<1> QED BY <1>3, <1>4, <1>5, <1>6, <1>7

\* What is sorted is in order, and before everything that is left.
Ordered(x, rank) ==
  /\ InOrder(x.sorted, rank)
  /\ \A i \in 1 .. Len(x.sorted) : \A m \in x.left : rank[x.sorted[i]] > rank[m]

LEMMA SortRoundOrdered ==
  ASSUME NEW n \in Nat, NEW occ \in SUBSET (1 .. n), NEW rank \in [1 .. n -> Int],
         NEW st \in States(n, occ), Ordered(st, rank), \A i \in occ : rank[i] # MinRank
  PROVE  Ordered(SortRound(st, rank), rank)
<1> DEFINE found == {rank[i] : i \in st.left} \ {MinRank}
           max   == CHOOSE m \in found : \A r \in found : r <= m
           best  == {i \in st.left : rank[i] = max}
           new   == [left |-> st.left \ best, sorted |-> Behind(st.sorted, best, Len(rank))]
<1>1. /\ st.left \in SUBSET occ /\ st.left \in SUBSET (1 .. n) /\ st.sorted \in Seq(1 .. n)
      /\ OneEach(st.sorted) /\ ToSet(st.sorted) = occ \ st.left
  BY DEF States
<1>2. Len(rank) = n
  <2>1. rank \in Seq(Int)
    OBVIOUS
  <2> QED BY <2>1
<1>3. SortRound(st, rank) = IF found = {} THEN st ELSE new
  BY DEF SortRound
<1>4. CASE found = {}
  BY <1>3, <1>4
<1>5. CASE found # {}
  <2>1. st.left # {}
    BY <1>5
  <2>2. PICK h \in st.left : \A i \in st.left : rank[i] <= rank[h]
    BY <1>1, <2>1, HighestExists
  <2>3. rank[h] \in found /\ \A r \in found : r <= rank[h]
    BY <1>1, <2>2
  <2>4. max \in found /\ \A r \in found : r <= max
    BY <2>3
  <2>5. /\ max \in Int /\ \E m \in st.left : max = rank[m]
        /\ \A m \in st.left : rank[m] <= max
    BY <1>1, <2>4
  <2> HIDE DEF max
  <2>6. best \in SUBSET (1 .. n) /\ best \cap ToSet(st.sorted) = {}
    BY <1>1
  <2>7. \A i \in 1 .. Len(st.sorted) : rank[st.sorted[i]] > max
    BY <2>5 DEF Ordered
  <2>8. \A m \in st.left \ best : rank[m] < max /\ rank[m] \in Int
    BY <1>1, <2>5
  <2>9. \A i \in best : rank[i] = max
    OBVIOUS
  <2> HIDE DEF best
  <2> DEFINE q == st.sorted
             b == Behind(q, best, n)
  <2>10. /\ q \in Seq(1 .. n) /\ OneEach(q) /\ best \cap ToSet(q) = {}
         /\ InOrder(q, rank) /\ \A i \in 1 .. Len(q) : rank[q[i]] > max
    BY <1>1, <2>6, <2>7 DEF Ordered
  <2> HIDE DEF q
  <2>11. InOrder(b, rank)
    <3>1. /\ max \in Int /\ best \in SUBSET (1 .. n) /\ q \in Seq(1 .. n) /\ InOrder(q, rank)
          /\ \A i \in 1 .. Len(q) : rank[q[i]] > max
          /\ \A i \in best : rank[i] = max
      BY <2>5, <2>6, <2>9, <2>10
    <3>2. InOrder(Behind(q, best, n), rank)
      BY <3>1, BehindInOrder
    <3> QED BY <3>2
  <2>12. b \in Seq(1 .. n) /\ ToSet(b) = ToSet(q) \cup best
    BY <2>6, <2>10, BehindProperties
  <2>13. \A e \in ToSet(q) : rank[e] > max /\ e \in 1 .. n
    BY <2>10, LenProperties, ElementOfSeq DEF ToSet
  <2> HIDE DEF b
  <2>14. \A i \in 1 .. Len(b) : b[i] \in 1 .. n /\ rank[b[i]] >= max
    <3> SUFFICES ASSUME NEW i \in 1 .. Len(b) PROVE b[i] \in 1 .. n /\ rank[b[i]] >= max
      OBVIOUS
    <3>1. b[i] \in 1 .. n /\ b[i] \in ToSet(b)
      BY <2>12, ElementOfSeq, LenProperties DEF ToSet
    <3> QED BY <2>5, <2>9, <2>12, <2>13, <3>1
  <2>15. \A i \in 1 .. Len(b) : \A m \in st.left \ best : rank[b[i]] > rank[m]
    BY <2>5, <2>8, <2>14
  <2>16. new.left = st.left \ best /\ new.sorted = b
    BY <1>2 DEF b, q
  <2> HIDE DEF new
  <2>17. SortRound(st, rank) = new
    BY <1>3, <1>5
  <2> QED BY <2>11, <2>15, <2>16, <2>17 DEF Ordered
<1> QED BY <1>4, <1>5

\* One step of the function after of Rounds().
Round(slots, rank, g, j) ==
  IF j = 0 THEN [left |-> {i \in DOMAIN slots : slots[i] # Empty}, sorted |-> << >>]
  ELSE SortRound(g[j - 1], rank)

LEMMA BeforeTheRounds ==
  ASSUME NEW n \in Nat, NEW occ \in SUBSET (1 .. n)
  PROVE  [left |-> occ, sorted |-> << >>] \in States(n, occ)
<1>1. << >> \in Seq(1 .. n) /\ OneEach(<< >>) /\ ToSet(<< >>) = {}
  BY DEF OneEach, ToSet
<1> QED BY <1>1 DEF States

LEMMA RoundsAreRounds ==
  ASSUME NEW n \in Nat, NEW slots \in Slots, Len(slots) = n, NEW rank \in [1 .. n -> Int]
  PROVE  Rounds(slots, rank) = [j \in 0 .. n |-> Round(slots, rank, Rounds(slots, rank), j)]
<1> DEFINE occ  == {i \in DOMAIN slots : slots[i] # Empty}
           X    == States(n, occ)
           base == [left |-> occ, sorted |-> << >>]
           Step == [p \in (1 .. n) \X X |-> SortRound(p[2], rank)]
<1>1. occ \in SUBSET (1 .. n)
  BY DEF Slots
<1>2. base \in X
  <2> HIDE DEF occ
  <2> QED BY <1>1, BeforeTheRounds
<1>3. Step \in [(1 .. n) \X X -> X]
  <2> HIDE DEF occ
  <2>1. ASSUME NEW p \in (1 .. n) \X X PROVE SortRound(p[2], rank) \in X
    <3>1. p[2] \in States(n, occ)
      OBVIOUS
    <3> QED BY <1>1, <3>1, SortRoundStays
  <2> HIDE DEF X
  <2> QED BY <2>1
<1>4. PICK f \in [0 .. n -> X] : AreRounds(f, n, base, Step)
  <2> HIDE DEF X, base, Step
  <2> QED BY <1>2, <1>3, RoundsExist
<1>5. f = [j \in 0 .. n |-> Round(slots, rank, f, j)]
  <2>1. ASSUME NEW j \in 0 .. n
        PROVE  (IF j = 0 THEN base ELSE Step[<<j, f[j - 1]>>]) = Round(slots, rank, f, j)
    <3>1. CASE j = 0
      BY <3>1 DEF Round
    <3>2. CASE j # 0
      <4>1. j \in 1 .. n /\ j - 1 \in 0 .. n
        BY <3>2
      <4> HIDE DEF X, base
      <4>2. f[j - 1] \in X
        BY <1>4, <4>1
      <4>3. <<j, f[j - 1]>> \in (1 .. n) \X X
        BY <4>1, <4>2
      <4>4. Step[<<j, f[j - 1]>>] = SortRound(f[j - 1], rank)
        BY <4>3
      <4> QED BY <3>2, <4>4 DEF Round
    <3> QED BY <3>1, <3>2
  <2> HIDE DEF X, base, Step
  <2> QED BY <1>4, <2>1 DEF AreRounds
<1> DEFINE g == CHOOSE h : h = [j \in 0 .. n |-> Round(slots, rank, h, j)]
<1>6. g = [j \in 0 .. n |-> Round(slots, rank, g, j)]
  BY <1>5
<1>7. Rounds(slots, rank) = g
  BY DEF Rounds, Round
<1> HIDE DEF g
<1> QED BY <1>6, <1>7

\* After as many rounds as there are positions none is left.
LEMMA RoundsProperties ==
  ASSUME NEW n \in Nat, NEW slots \in Slots, Len(slots) = n, NEW rank \in [1 .. n -> Int],
         NEW occ, occ = {i \in DOMAIN slots : slots[i] # Empty}
  PROVE  /\ occ \in SUBSET (1 .. n)
         /\ Rounds(slots, rank)[n] \in States(n, occ)
         /\ ~ Lost(slots, rank) => /\ Rounds(slots, rank)[n].left = {}
                                   /\ InOrder(Rounds(slots, rank)[n].sorted, rank)
<1> DEFINE g == Rounds(slots, rank)
           Good(j) == /\ g[j] \in States(n, occ)
                      /\ ~ Lost(slots, rank) => /\ Cardinality(g[j].left) <= n - j
                                                /\ Ordered(g[j], rank)
           S == {j \in Nat : j <= n => Good(j)}
<1>1. occ \in SUBSET (1 .. n) /\ IsFiniteSet(1 .. n) /\ Cardinality(1 .. n) = n
  BY FS_Interval DEF Slots
<1>2. g = [j \in 0 .. n |-> Round(slots, rank, g, j)]
  BY RoundsAreRounds
<1>3. ~ Lost(slots, rank) => \A i \in occ : rank[i] # MinRank
  BY DEF Lost
<1> HIDE DEF g
<1>4. \A x \in States(n, occ) : IsFiniteSet(x.left) /\ Cardinality(x.left) \in Nat
                               /\ Cardinality(x.left) <= n
  <2> SUFFICES ASSUME NEW x \in States(n, occ)
               PROVE  /\ IsFiniteSet(x.left) /\ Cardinality(x.left) \in Nat
                      /\ Cardinality(x.left) <= n
    OBVIOUS
  <2>1. x.left \in SUBSET (1 .. n)
    BY <1>1 DEF States
  <2> QED BY <1>1, <2>1, FS_Subset, FS_CardinalityType
<1>5. 0 \in S
  <2>1. g[0] = [left |-> occ, sorted |-> << >>]
    BY <1>2 DEF Round
  <2>2. g[0] \in States(n, occ)
    BY <1>1, <2>1, BeforeTheRounds
  <2>3. Ordered(g[0], rank)
    BY <2>1 DEF Ordered, InOrder
  <2> QED BY <1>4, <2>2, <2>3
<1>6. ASSUME NEW j \in S PROVE j + 1 \in S
  <2> SUFFICES ASSUME j + 1 <= n PROVE Good(j + 1)
    OBVIOUS
  <2>1. j \in Nat /\ j + 1 \in 0 .. n /\ j + 1 # 0 /\ (j + 1) - 1 = j /\ Good(j)
    OBVIOUS
  <2>2. g[j + 1] = SortRound(g[j], rank)
    <3>1. g[j + 1] = Round(slots, rank, g, j + 1)
      BY <1>2, <2>1
    <3> QED BY <2>1, <3>1 DEF Round
  <2> DEFINE s == g[j]
             t == g[j + 1]
  <2>3. s \in States(n, occ) /\ t = SortRound(s, rank)
    BY <2>1, <2>2
  <2>4. ~ Lost(slots, rank) => Cardinality(s.left) <= n - j /\ Ordered(s, rank)
    BY <2>1
  <2> HIDE DEF s, t, S
  <2>5. /\ t \in States(n, occ)
        /\ t.left \subseteq s.left
        /\ s.left # {} /\ (\A i \in occ : rank[i] # MinRank) => t.left # s.left
    BY <1>1, <2>3, SortRoundStays
  <2>6. ASSUME ~ Lost(slots, rank) PROVE Cardinality(t.left) <= n - (j + 1)
    <3>1. /\ IsFiniteSet(s.left) /\ Cardinality(s.left) \in Nat
          /\ Cardinality(t.left) \in Nat
      BY <1>4, <2>3, <2>5
    <3>2. t.left \in SUBSET s.left
      BY <2>5
    <3>3. /\ Cardinality(t.left) <= Cardinality(s.left)
          /\ Cardinality(s.left) = Cardinality(t.left) => s.left = t.left
      BY <3>1, <3>2, FS_Subset
    <3>4. CASE s.left = {}
      <4>1. Cardinality(t.left) = 0
        BY <3>2, <3>4, FS_EmptySet
      <4> QED BY <2>1, <4>1
    <3>5. CASE s.left # {}
      <4>1. Cardinality(t.left) # Cardinality(s.left)
        BY <1>3, <2>5, <2>6, <3>3, <3>5
      <4> QED BY <2>1, <2>4, <2>6, <3>1, <3>3, <4>1
    <3> QED BY <3>4, <3>5
  <2>7. ~ Lost(slots, rank) => Ordered(t, rank)
    BY <1>1, <1>3, <2>3, <2>4, SortRoundOrdered
  <2> QED BY <2>5, <2>6, <2>7 DEF t
<1>7. Good(n)
  <2>1. S \in SUBSET Nat
    OBVIOUS
  <2> HIDE DEF S
  <2>2. S = Nat
    BY <1>5, <1>6, <2>1, SetInduction
  <2>3. n \in S
    BY <2>2
  <2> HIDE DEF Good
  <2> QED BY <2>3 DEF S
<1>8. ~ Lost(slots, rank) => g[n].left = {}
  <2> SUFFICES ASSUME ~ Lost(slots, rank) PROVE g[n].left = {}
    OBVIOUS
  <2>1. IsFiniteSet(g[n].left) /\ Cardinality(g[n].left) \in Nat
    BY <1>4, <1>7
  <2>2. Cardinality(g[n].left) = 0
    BY <1>7, <2>1
  <2> QED BY <2>1, <2>2, FS_EmptySet
<1>9. ~ Lost(slots, rank) => InOrder(g[n].sorted, rank)
  BY <1>7 DEF Ordered
<1> QED BY <1>1, <1>7, <1>8, <1>9 DEF g

\* One list has the slots of another one in another order.
Reordered(new, old) ==
  \E p \in [1 .. Len(old) -> 1 .. Len(old)] :
    /\ \A i, j \in 1 .. Len(old) : p[i] = p[j] => i = j
    /\ \A j \in 1 .. Len(old) : \E i \in 1 .. Len(old) : p[i] = j
    /\ new = [i \in 1 .. Len(old) |-> old[p[i]]]

\* Sorting takes positions once each; without the lowest rank it takes all of them.
LEMMA SortedProperties ==
  ASSUME NEW slots \in Slots, NEW rank \in [1 .. Len(slots) -> Int]
  PROVE  /\ Sorted(slots, rank) \in Slots
         /\ Len(Sorted(slots, rank)) = Len(slots)
         /\ Empty \notin ToSet(slots) /\ ~ Lost(slots, rank) =>
              /\ Reordered(Sorted(slots, rank), slots)
              /\ \E order \in [1 .. Len(slots) -> 1 .. Len(slots)] :
                   /\ InOrder(order, rank)
                   /\ Sorted(slots, rank) = [i \in 1 .. Len(slots) |-> slots[order[i]]]
<1> DEFINE n     == Len(slots)
           occ   == {i \in DOMAIN slots : slots[i] # Empty}
           last  == Rounds(slots, rank)[n]
           order == last.sorted
           E     == Objects \cup {Empty}
<1>1. n \in Nat /\ DOMAIN slots = 1 .. n /\ \A i \in 1 .. n : slots[i] \in E
  BY DEF Slots
<1>2. /\ occ \in SUBSET (1 .. n)
      /\ last \in States(n, occ)
      /\ ~ Lost(slots, rank) => last.left = {} /\ InOrder(order, rank)
  <2>1. n \in Nat /\ slots \in Slots /\ rank \in [1 .. n -> Int]
    BY <1>1
  <2> QED BY <2>1, RoundsProperties
<1>3. Sorted(slots, rank) = [i \in 1 .. n |-> IF i <= Len(order) THEN slots[order[i]] ELSE Empty]
  BY <1>1 DEF Sorted
<1> HIDE DEF last, occ, n
<1>4. order \in Seq(1 .. n) /\ OneEach(order) /\ ToSet(order) = occ \ last.left
  BY <1>2 DEF States
<1> HIDE DEF order
<1>5. /\ Len(order) \in Nat /\ DOMAIN order = 1 .. Len(order)
      /\ \A i \in 1 .. Len(order) : order[i] \in 1 .. n
      /\ order \in [1 .. Len(order) -> 1 .. n]
  BY <1>4, LenProperties
<1>6. Sorted(slots, rank) \in Slots /\ Len(Sorted(slots, rank)) = n
  <2>1. Sorted(slots, rank) \in [1 .. n -> E]
    <3>1. ASSUME NEW i \in 1 .. n
          PROVE  (IF i <= Len(order) THEN slots[order[i]] ELSE Empty) \in E
      <4>1. i <= Len(order) => i \in 1 .. Len(order)
        BY <1>1, <1>5
      <4> QED BY <1>1, <1>5, <4>1
    <3> HIDE DEF E
    <3> QED BY <1>3, <3>1
  <2> QED BY <1>1, <2>1 DEF Slots
<1>7. ASSUME Empty \notin ToSet(slots), ~ Lost(slots, rank)
      PROVE  /\ Reordered(Sorted(slots, rank), slots)
             /\ \E p \in [1 .. n -> 1 .. n] :
                  /\ InOrder(p, rank)
                  /\ Sorted(slots, rank) = [i \in 1 .. n |-> slots[p[i]]]
  <2>1. ToSet(order) = 1 .. n
    <3>1. occ = 1 .. n
      BY <1>1, <1>7 DEF occ, ToSet
    <3> QED BY <1>2, <1>4, <1>7, <3>1
  <2>2. \A j \in 1 .. n : \E i \in 1 .. Len(order) : order[i] = j
    BY <1>5, <2>1 DEF ToSet
  <2>3. order \in Bijection(1 .. Len(order), 1 .. n)
    <3>1. order \in Injection(1 .. Len(order), 1 .. n)
      BY <1>4, <1>5 DEF Injection, IsInjective, OneEach
    <3>2. order \in Surjection(1 .. Len(order), 1 .. n)
      BY <1>5, <2>2 DEF Surjection
    <3> QED BY <3>1, <3>2 DEF Bijection
  <2>4. Cardinality(1 .. n) = Len(order)
    <3>1. ExistsBijection(1 .. Len(order), 1 .. n)
      BY <2>3 DEF ExistsBijection
    <3> QED BY <1>5, <3>1, FS_CountingElements
  <2>5. Cardinality(1 .. n) = n
    BY <1>1, FS_Interval
  <2>6. Len(order) = n
    BY <2>4, <2>5
  <2>7. Sorted(slots, rank) = [i \in 1 .. n |-> slots[order[i]]]
    BY <1>1, <1>3, <2>6
  <2>8. \A i, j \in 1 .. n : order[i] = order[j] => i = j
    BY <1>4, <2>6 DEF OneEach
  <2>9. order \in [1 .. n -> 1 .. n] /\ \A j \in 1 .. n : \E i \in 1 .. n : order[i] = j
    BY <1>5, <2>2, <2>6
  <2>10. InOrder(order, rank)
    BY <1>2, <1>7
  <2> DEFINE sorted == Sorted(slots, rank)
  <2> HIDE DEF sorted
  <2>11. Reordered(sorted, slots)
    BY <2>7, <2>8, <2>9, Zenon DEF sorted, Reordered, n
  <2> QED BY <2>7, <2>9, <2>10, <2>11, Zenon DEF sorted
<1> QED BY <1>6, <1>7 DEF n

-----------------------------------------------------------------------------
(* A list stays inside of its memory.                                         *)

RoomInv == Types /\ InsideRoom

LEMMA CountIsNat ==
  ASSUME NEW s \in Slots, NEW o
  PROVE  IsFiniteSet({i \in DOMAIN s : s[i] = o}) /\ Count(s, o) \in Nat
<1> DEFINE I == {i \in DOMAIN s : s[i] = o}
<1>1. Len(s) \in Nat /\ I \in SUBSET (1 .. Len(s))
  BY DEF Slots
<1>2. IsFiniteSet(1 .. Len(s))
  BY <1>1, FS_Interval
<1> HIDE DEF I
<1>3. IsFiniteSet(I) /\ Cardinality(I) \in Nat
  BY <1>1, <1>2, FS_Subset, FS_CardinalityType
<1> QED BY <1>3 DEF I, Count

LEMMA RefsAreInts ==
  ASSUME Types, NEW made \in Slots, NEW released \in Slots
  PROVE  Refs(made, released) \in [Objects -> Int]
<1>1. ASSUME NEW o \in Objects PROVE ref_[o] + Count(made, o) - Count(released, o) \in Int
  <2>1. Count(made, o) \in Nat /\ Count(released, o) \in Nat /\ ref_[o] \in Int
    BY CountIsNat DEF Types
  <2> QED BY <2>1
<1> QED BY <1>1 DEF Refs

LEMMA OneSlot == \A e \in Objects \cup {Empty} : <<e>> \in Slots
BY DEF Slots

LEMMA NoSlot == << >> \in Slots /\ Len(<< >>) = 0 /\ Empty \notin ToSet(<< >>)
BY DEF Slots, ToSet

\* A step that leaves the lists alone.
LEMMA SameLists ==
  ASSUME RoomInv, list' = list, broken \subseteq broken',
         handles' \in [Objects -> Nat], ref_' \in [Objects -> Int],
         broken' \subseteq {"memory", "rank", "null"}
  PROVE  RoomInv'
<1>1. Types'
  BY DEF RoomInv, Types, Fits, n_
<1>2. InsideRoom'
  BY DEF RoomInv, InsideRoom, n_
<1> QED BY <1>1, <1>2 DEF RoomInv

\* A step that changes one list.
LEMMA OneList ==
  ASSUME RoomInv, NEW l \in Lists, NEW t \in Structs, Fits(n_(t)),
         list' = [list EXCEPT ![l] = t], broken \subseteq broken',
         "memory" \notin broken' => HasRoom(t),
         "rank" \notin broken' => NoGap(t),
         handles' \in [Objects -> Nat], ref_' \in [Objects -> Int],
         broken' \subseteq {"memory", "rank", "null"}
  PROVE  RoomInv'
<1>1. /\ list' \in [Lists -> Structs] /\ list'[l] = t
      /\ \A k \in Lists : k # l => list'[k] = list[k]
  BY DEF RoomInv, Types
<1>2. \A k \in Lists : Fits(n_(list'[k]))
  BY <1>1 DEF RoomInv, Types
<1>3. Types'
  BY <1>1, <1>2 DEF Types, Fits, n_
<1>4. ASSUME NEW k \in Lists
      PROVE  /\ "memory" \notin broken' => HasRoom(list'[k])
             /\ "rank" \notin broken' => NoGap(list'[k])
  BY <1>1 DEF RoomInv, InsideRoom, HasRoom, NoGap
<1>5. InsideRoom'
  BY <1>4 DEF InsideRoom, HasRoom, NoGap, n_
<1> QED BY <1>3, <1>5 DEF RoomInv

LEMMA ListTypes ==
  ASSUME RoomInv, NEW l \in Lists
  PROVE  /\ list[l] \in Structs /\ list[l].ptr_ \in Slots
         /\ n_(list[l]) \in Nat /\ n_(list[l]) = Len(list[l].ptr_)
         /\ n_(list[l]) <= MaxLength
         /\ "memory" \notin broken => HasRoom(list[l])
         /\ "rank" \notin broken => NoGap(list[l])
         /\ \A k \in 1 .. n_(list[l]) : list[l].ptr_[k] \in Objects \cup {Empty}
<1>1. list[l] \in Structs /\ list[l].ptr_ \in Slots
  BY DEF RoomInv, Types, Structs
<1>2. n_(list[l]) \in Nat /\ n_(list[l]) = Len(list[l].ptr_)
  BY <1>1 DEF Slots, n_
<1>3. n_(list[l]) <= MaxLength
  BY DEF RoomInv, Types, Fits
<1>4. \A k \in 1 .. n_(list[l]) : list[l].ptr_[k] \in Objects \cup {Empty}
  BY <1>1, <1>2, ElementOfSeq DEF Slots
<1> QED BY <1>1, <1>2, <1>3, <1>4 DEF RoomInv, InsideRoom, HasRoom, NoGap

LEMMA RoomInit == ASSUME Init PROVE RoomInv
<1>1. New \in Structs /\ n_(New) = 0 /\ HasRoom(New) /\ NoGap(New)
  BY NoSlot DEF New, Structs, n_, HasRoom, NoGap
<1>2. \A l \in Lists : list[l] = New
  BY DEF Init
<1>3. Types
  BY <1>1, <1>2, ListAssumption DEF Init, Types, Fits
<1>4. InsideRoom
  BY <1>1, <1>2 DEF InsideRoom, HasRoom, NoGap
<1> QED BY <1>3, <1>4 DEF RoomInv

LEMMA RoomHandles ==
  ASSUME RoomInv, NEW o \in Objects, Copy(o) \/ Release(o)
  PROVE  RoomInv'
<1>1. handles' \in [Objects -> Nat]
  <2>1. handles \in [Objects -> Nat] /\ handles[o] \in Nat
    BY DEF RoomInv, Types
  <2>2. CASE Copy(o)
    <3>1. handles' = [handles EXCEPT ![o] = handles[o] + 1]
      BY <2>2 DEF Copy
    <3> QED BY <2>1, <3>1
  <2>3. CASE Release(o)
    <3>1. handles' = [handles EXCEPT ![o] = handles[o] - 1] /\ handles[o] > 0
      BY <2>3 DEF Release
    <3> QED BY <2>1, <3>1
  <2> QED BY <2>2, <2>3
<1>2. ref_' \in [Objects -> Int]
  BY RefsAreInts, OneSlot, NoSlot DEF Copy, Release, RoomInv
<1>3. list' = list /\ broken' = broken
  BY DEF Copy, Release
<1> QED BY <1>1, <1>2, <1>3, SameLists DEF RoomInv, Types

LEMMA RoomMoveIn ==
  ASSUME RoomInv, "memory" \notin broken, NEW l \in Lists, NEW o \in Objects, NEW pos \in Int,
         MoveIn(l, o, pos)
  PROVE  RoomInv'
<1> DEFINE s == list[l]
<1>1. /\ s \in Structs /\ HasRoom(s) /\ n_(s) \in Nat
      /\ "rank" \notin broken => NoGap(s)
  BY ListTypes
<1>2. o # Empty
  BY ListAssumption
<1>3. /\ handles' \in [Objects -> Nat] /\ ref_' \in [Objects -> Int]
      /\ broken \subseteq {"memory", "rank", "null"}
  BY DEF MoveIn, RoomInv, Types
<1>4. Fits(n_(s) + 1)
  BY DEF MoveIn
<1>5. CASE list' = [list EXCEPT ![l] = MovedIn(@, o, pos)] /\ broken' = broken
  <2> DEFINE t == MovedIn(s, o, pos)
  <2>1. /\ t \in Structs /\ n_(t) <= n_(s) + 1
        /\ HasRoom(t) /\ (NoGap(s) => NoGap(t))
    BY <1>1, <1>2, MovedInIsStruct
  <2>2. list' = [list EXCEPT ![l] = t]
    BY <1>5
  <2> HIDE DEF t, s
  <2>3. Fits(n_(t))
    <3>1. n_(t) \in Nat
      BY <2>1 DEF Structs, Slots, n_
    <3> QED BY <1>1, <1>4, <2>1, <3>1, ListAssumption DEF Fits
  <2> QED BY <1>1, <1>3, <1>5, <2>1, <2>2, <2>3, OneList
<1>6. CASE list' = [list EXCEPT ![l] = NotReserved(@)] /\ Breaks("memory")
  <2> DEFINE t == NotReserved(s)
  <2>1. t \in Structs /\ t.ptr_ = s.ptr_
    BY <1>1, ReservedHasRoom
  <2>2. list' = [list EXCEPT ![l] = t]
    BY <1>6
  <2>3. Fits(n_(t)) /\ n_(t) = n_(s)
    BY <2>1 DEF RoomInv, Types, n_
  <2>4. broken' = broken \cup {"memory"}
    BY <1>6 DEF Breaks
  <2>5. "rank" \notin broken' => NoGap(t)
    BY <1>1, <2>1, <2>4 DEF NoGap
  <2> HIDE DEF t, s
  <2> QED BY <1>3, <2>1, <2>2, <2>3, <2>4, <2>5, OneList
<1> QED BY <1>5, <1>6 DEF MoveIn

LEMMA RoomReleaseAt ==
  ASSUME RoomInv, "memory" \notin broken, NEW l \in Lists, NEW pos, ReleaseAt(l, pos)
  PROVE  RoomInv'
<1> DEFINE s == list[l]
           t == Released(s, pos)
<1>1. /\ s \in Structs /\ HasRoom(s) /\ n_(s) \in Nat
      /\ "rank" \notin broken => NoGap(s)
      /\ \A k \in 1 .. n_(s) : s.ptr_[k] \in Objects \cup {Empty}
  BY ListTypes
<1>2. pos \in 0 .. n_(s) - 1
  BY DEF ReleaseAt, At
<1>3. /\ t \in Structs /\ n_(t) = n_(s) - 1 /\ HasRoom(t) /\ (NoGap(s) => NoGap(t))
  BY <1>1, <1>2, ReleasedIsStruct
<1>4. list' = [list EXCEPT ![l] = t] /\ handles' = handles /\ broken' = broken
  BY DEF ReleaseAt
<1>5. ref_' \in [Objects -> Int]
  <2>1. <<s.ptr_[pos + 1]>> \in Slots
    BY <1>1, <1>2, OneSlot
  <2>2. ref_' = Refs(<< >>, <<s.ptr_[pos + 1]>>)
    BY DEF ReleaseAt
  <2> QED BY <2>1, <2>2, NoSlot, RefsAreInts DEF RoomInv
<1>6. Fits(n_(t))
  BY <1>1, <1>3, ListAssumption DEF RoomInv, Types, Fits
<1> HIDE DEF s, t
<1> QED BY <1>1, <1>3, <1>4, <1>5, <1>6, OneList DEF RoomInv, Types

LEMMA RoomGetRef ==
  ASSUME RoomInv, NEW l \in Lists, NEW pos, GetRef(l, pos)
  PROVE  RoomInv'
<1> DEFINE o == list[l].ptr_[pos + 1]
<1>1. o \in Objects
  <2>1. pos + 1 \in 1 .. n_(list[l])
    BY ListTypes DEF GetRef, At
  <2> QED BY <2>1, ListTypes DEF GetRef
<1>2. /\ handles' = [handles EXCEPT ![o] = @ + 1] /\ ref_' = Refs(<<o>>, << >>)
      /\ list' = list /\ broken' = broken
  BY DEF GetRef
<1> HIDE DEF o
<1>3. handles' \in [Objects -> Nat] /\ ref_' \in [Objects -> Int]
  <2>1. <<o>> \in Slots /\ << >> \in Slots
    BY <1>1, OneSlot, NoSlot
  <2>2. ref_' \in [Objects -> Int]
    BY <1>2, <2>1, RefsAreInts DEF RoomInv
  <2>3. handles' \in [Objects -> Nat]
    BY <1>1, <1>2 DEF RoomInv, Types
  <2> QED BY <2>2, <2>3
<1> QED BY <1>2, <1>3, SameLists DEF RoomInv, Types

LEMMA RoomMoveTo ==
  ASSUME RoomInv, "memory" \notin broken, NEW l \in Lists, NEW pos, NEW new_pos \in Int,
         MoveTo(l, pos, new_pos)
  PROVE  RoomInv'
<1> DEFINE s == list[l]
           e == s.ptr_[pos + 1]
           r == Released(s, pos)
           t == IF e = Empty THEN r ELSE MovedIn(r, e, new_pos)
<1>1. /\ s \in Structs /\ HasRoom(s) /\ n_(s) \in Nat
      /\ "rank" \notin broken => NoGap(s)
      /\ \A k \in 1 .. n_(s) : s.ptr_[k] \in Objects \cup {Empty}
  BY ListTypes
<1>2. pos \in 0 .. n_(s) - 1 /\ e \in Objects \cup {Empty}
  BY <1>1 DEF MoveTo, At
<1>3. /\ r \in Structs /\ n_(r) = n_(s) - 1 /\ HasRoom(r) /\ (NoGap(s) => NoGap(r))
  BY <1>1, <1>2, ReleasedIsStruct
<1>4. /\ list' = [list EXCEPT ![l] = t]
      /\ handles' = handles /\ ref_' = ref_ /\ broken' = broken
  BY DEF MoveTo
<1> HIDE DEF s, r, e
<1>5. /\ t \in Structs /\ n_(t) <= n_(s) /\ HasRoom(t) /\ (NoGap(r) => NoGap(t))
  <2>1. CASE e = Empty
    BY <1>1, <1>3, <2>1
  <2>2. CASE e # Empty
    BY <1>1, <1>2, <1>3, <2>2, MovedInIsStruct
  <2> QED BY <2>1, <2>2
<1>6. Fits(n_(t))
  <2> HIDE DEF t
  <2>1. n_(t) \in Nat
    BY <1>5 DEF Structs, Slots, n_
  <2> QED BY <1>1, <1>5, <2>1, ListAssumption DEF RoomInv, Types, Fits, s
<1> HIDE DEF t
<1> QED BY <1>1, <1>3, <1>4, <1>5, <1>6, OneList DEF RoomInv, Types

LEMMA EmptyList ==
  ASSUME NEW s \in Structs
  PROVE  LET c == [s EXCEPT !.ptr_ = << >>]
         IN  /\ c \in Structs /\ c.ptr_ = << >> /\ n_(c) = 0 /\ Fits(n_(c)) /\ NoGap(c)
             /\ HasRoom(s) => HasRoom(c)
<1> DEFINE c == [s EXCEPT !.ptr_ = << >>]
<1>1. /\ c \in Structs /\ c.ptr_ = << >>
      /\ c.n_reserved_ = s.n_reserved_ /\ c.room = s.room
  BY NoSlot DEF Structs
<1> HIDE DEF c
<1>2. n_(c) = 0 /\ NoGap(c)
  BY <1>1, NoSlot DEF n_, NoGap
<1>3. HasRoom(s) => HasRoom(c)
  BY <1>1, <1>2 DEF HasRoom, Structs
<1>4. Fits(n_(c))
  BY <1>2, ListAssumption DEF Fits
<1> QED BY <1>1, <1>2, <1>3, <1>4 DEF c

LEMMA RoomClear ==
  ASSUME RoomInv, "memory" \notin broken, NEW l \in Lists, Clear(l) \/ ReleaseList(l)
  PROVE  RoomInv'
<1> DEFINE s == list[l]
           c == [s EXCEPT !.ptr_ = << >>]
           t == IF list' = [list EXCEPT ![l] = New] THEN New ELSE c
<1>1. s \in Structs /\ HasRoom(s) /\ s.ptr_ \in Slots
  BY ListTypes
<1>2. c \in Structs /\ Fits(n_(c)) /\ NoGap(c) /\ HasRoom(c)
  <2> HIDE DEF s
  <2> QED BY <1>1, EmptyList
<1>3. New \in Structs /\ Fits(n_(New)) /\ NoGap(New) /\ HasRoom(New)
  BY NoSlot, ListAssumption DEF New, Structs, n_, HasRoom, NoGap, Fits
<1>4. /\ list' = [list EXCEPT ![l] = t]
      /\ handles' = handles /\ ref_' = Refs(<< >>, s.ptr_) /\ broken' = broken
  BY DEF Clear, ReleaseList
<1>5. ref_' \in [Objects -> Int]
  BY <1>1, <1>4, NoSlot, RefsAreInts DEF RoomInv
<1>6. t \in Structs /\ Fits(n_(t)) /\ NoGap(t) /\ HasRoom(t)
  BY <1>2, <1>3
<1> HIDE DEF t, s
<1> QED BY <1>4, <1>5, <1>6, OneList DEF RoomInv, Types

LEMMA RoomUsesNull ==
  ASSUME RoomInv, UsesNull
  PROVE  RoomInv'
BY SameLists DEF UsesNull, Breaks, RoomInv, Types

LEMMA RoomSortFails ==
  ASSUME RoomInv, NEW l \in Lists, SortFails(l)
  PROVE  RoomInv'
BY SameLists DEF SortFails, Breaks, RoomInv, Types

LEMMA RoomCopyFrom ==
  ASSUME RoomInv, "memory" \notin broken, NEW l \in Lists, NEW from \in Lists, CopyFrom(l, from)
  PROVE  RoomInv'
<1> DEFINE c     == [list[l] EXCEPT !.ptr_ = << >>]
           slots == IF l = from THEN << >> ELSE list[from].ptr_
           after == CopiedInto(c, slots)
<1>1. /\ list[l] \in Structs /\ HasRoom(list[l]) /\ list[l].ptr_ \in Slots
      /\ slots \in Slots /\ Len(slots) \in Nat /\ Len(slots) <= MaxLength
  <2>1. /\ list[l] \in Structs /\ HasRoom(list[l]) /\ list[l].ptr_ \in Slots
        /\ list[from].ptr_ \in Slots
        /\ Len(list[from].ptr_) \in Nat /\ Len(list[from].ptr_) <= MaxLength
    <3>1. /\ n_(list[from]) \in Nat /\ n_(list[from]) = Len(list[from].ptr_)
          /\ n_(list[from]) <= MaxLength /\ list[from].ptr_ \in Slots
      BY ListTypes
    <3> QED BY <3>1, ListTypes
  <2> QED BY <2>1, NoSlot, ListAssumption
<1>2. c \in Structs /\ c.ptr_ = << >> /\ HasRoom(c)
  BY <1>1, EmptyList
<1>3. CASE Empty \in ToSet(slots)
  BY <1>3, RoomUsesNull DEF CopyFrom
<1>4. CASE Empty \notin ToSet(slots)
  <2> HIDE DEF c, slots
  <2>1. ASSUME NEW k \in 0 .. Len(slots)
        PROVE  /\ after[k] \in Structs /\ HasRoom(after[k]) /\ NoGap(after[k])
               /\ Fits(n_(after[k]))
    <3>1. /\ after[k] \in Structs /\ n_(after[k]) = k /\ HasRoom(after[k])
          /\ \A j \in 1 .. k : after[k].ptr_[j] = slots[j]
      BY <1>1, <1>2, <1>4, CopiedProperties
    <3>2. NoGap(after[k])
      <4> SUFFICES ASSUME NEW j \in 1 .. Len(after[k].ptr_) PROVE after[k].ptr_[j] # Empty
        BY <3>1, NoGapMeans
      <4>1. j \in 1 .. k /\ j \in 1 .. Len(slots) /\ DOMAIN slots = 1 .. Len(slots)
        BY <1>1, <3>1 DEF n_, Slots
      <4> QED BY <1>4, <3>1, <4>1 DEF ToSet
    <3>3. Fits(n_(after[k]))
      BY <1>1, <3>1, ListAssumption DEF Fits
    <3> QED BY <3>1, <3>2, <3>3
  <2>2. handles' = handles
    BY <1>4 DEF CopyFrom, slots
  <2>3. CASE /\ list' = [list EXCEPT ![l] = after[Len(slots)]]
             /\ ref_' = Refs(slots, list[l].ptr_)
             /\ broken' = broken
    <3> DEFINE t == after[Len(slots)]
    <3>1. t \in Structs /\ HasRoom(t) /\ NoGap(t) /\ Fits(n_(t))
      BY <1>1, <2>1
    <3>2. list' = [list EXCEPT ![l] = t]
      BY <2>3
    <3>3. ref_' \in [Objects -> Int]
      BY <1>1, <2>3, RefsAreInts DEF RoomInv
    <3> HIDE DEF t
    <3> QED BY <2>2, <2>3, <3>1, <3>2, <3>3, OneList DEF RoomInv, Types
  <2>4. ASSUME NEW k \in 0 .. Len(slots) - 1,
               list' = [list EXCEPT ![l] = NotReserved(after[k])],
               ref_' = Refs(SubSeq(slots, 1, k + 1), list[l].ptr_),
               Breaks("memory")
        PROVE  RoomInv'
    <3> DEFINE t == NotReserved(after[k])
    <3>1. after[k] \in Structs /\ NoGap(after[k]) /\ Fits(n_(after[k]))
      BY <1>1, <2>1
    <3>2. t \in Structs /\ t.ptr_ = after[k].ptr_
      BY <3>1, ReservedHasRoom
    <3>3. NoGap(t) /\ Fits(n_(t))
      BY <3>1, <3>2 DEF NoGap, n_
    <3>4. list' = [list EXCEPT ![l] = t]
      BY <2>4
    <3>5. ref_' \in [Objects -> Int]
      <4> DEFINE made == SubSeq(slots, 1, k + 1)
      <4>1. made \in Slots
        <5>1. 1 \in Int /\ k + 1 \in Int /\ \A i \in 1 .. k + 1 : slots[i] \in Objects \cup {Empty}
          BY <1>1, ElementOfSeq DEF Slots
        <5> QED BY <5>1, SubSeqProperties DEF Slots
      <4> HIDE DEF made
      <4> QED BY <1>1, <2>4, <4>1, RefsAreInts DEF RoomInv, made
    <3>6. broken' = broken \cup {"memory"}
      BY <2>4 DEF Breaks
    <3>7. broken' \subseteq {"memory", "rank", "null"} /\ handles' \in [Objects -> Nat]
      BY <2>2, <3>6 DEF RoomInv, Types
    <3> HIDE DEF t
    <3> QED BY <3>2, <3>3, <3>4, <3>5, <3>6, <3>7, OneList
  <2> QED BY <1>4, <2>3, <2>4 DEF CopyFrom, slots, c
<1> QED BY <1>3, <1>4

LEMMA RoomCopyList ==
  ASSUME RoomInv, NEW l \in Lists, NEW from \in Lists, CopyList(l, from)
  PROVE  RoomInv'
<1> DEFINE s == list[from]
           capacity == IF n_(s) > First THEN (n_(s) * 3) \div 2 ELSE First
           t == [ptr_ |-> s.ptr_, n_reserved_ |-> capacity, room |-> capacity]
<1>1. s \in Structs /\ s.ptr_ \in Slots /\ n_(s) \in Nat /\ n_(s) = Len(s.ptr_)
  BY ListTypes
<1>2. CASE UsesNull
  BY <1>2, RoomUsesNull
<1>3. CASE ~ UsesNull
  <2>1. /\ Empty \notin ToSet(s.ptr_)
        /\ list' = [list EXCEPT ![l] = t] /\ ref_' = Refs(s.ptr_, << >>)
        /\ handles' = handles /\ broken' = broken
    BY <1>3 DEF CopyList
  <2>2. capacity \in Nat /\ n_(s) <= capacity
    <3> DEFINE n == n_(s)
    <3>1. n \in Nat /\ First \in Nat
      BY <1>1, ListAssumption
    <3> HIDE DEF n
    <3>2. (n * 3) \div 2 \in Nat /\ n <= (n * 3) \div 2
      BY <3>1
    <3>3. n > First \/ n <= First
      BY <3>1
    <3> QED BY <3>1, <3>2, <3>3 DEF n
  <2> HIDE DEF capacity
  <2>3. t \in Structs /\ t.ptr_ = s.ptr_ /\ t.n_reserved_ = capacity /\ t.room = capacity
    BY <1>1, <2>2 DEF Structs
  <2>4. HasRoom(t) /\ NoGap(t) /\ Fits(n_(t))
    BY <1>1, <2>1, <2>2, <2>3 DEF HasRoom, NoGap, n_, Fits, RoomInv, Types
  <2>5. ref_' \in [Objects -> Int]
    BY <1>1, <2>1, NoSlot, RefsAreInts DEF RoomInv
  <2> HIDE DEF t, s
  <2> QED BY <2>1, <2>3, <2>4, <2>5, OneList DEF RoomInv, Types
<1> QED BY <1>2, <1>3

LEMMA RoomSort ==
  ASSUME RoomInv, "memory" \notin broken, NEW l \in Lists,
         NEW rank \in [1 .. n_(list[l]) -> Ranks], Sort(l, rank)
  PROVE  RoomInv'
<1> DEFINE s == list[l]
           q == Sorted(s.ptr_, rank)
           t == [s EXCEPT !.ptr_ = q]
<1>1. /\ s \in Structs /\ HasRoom(s) /\ s.ptr_ \in Slots
      /\ n_(s) \in Nat /\ n_(s) = Len(s.ptr_)
      /\ "rank" \notin broken => NoGap(s)
  BY ListTypes
<1>2. rank \in [1 .. Len(s.ptr_) -> Int]
  BY <1>1, ListAssumption
<1>3. /\ q \in Slots /\ Len(q) = Len(s.ptr_)
      /\ NoGap(s) /\ ~ Lost(s.ptr_, rank) => Reordered(q, s.ptr_)
  <2> DEFINE slots == s.ptr_
  <2>1. slots \in Slots /\ rank \in [1 .. Len(slots) -> Int]
    BY <1>1, <1>2
  <2>2. NoGap(s) => Empty \notin ToSet(slots)
    BY DEF NoGap
  <2> HIDE DEF slots
  <2>3. /\ Sorted(slots, rank) \in Slots /\ Len(Sorted(slots, rank)) = Len(slots)
        /\ Empty \notin ToSet(slots) /\ ~ Lost(slots, rank) =>
             Reordered(Sorted(slots, rank), slots)
    BY <2>1, SortedProperties
  <2> QED BY <2>2, <2>3 DEF slots
<1>4. list' = [list EXCEPT ![l] = t] /\ handles' = handles /\ ref_' = ref_
  BY DEF Sort, RoomInv, Types
<1>5. /\ broken \subseteq broken' /\ broken' \subseteq {"memory", "rank", "null"}
      /\ "rank" \notin broken' => ~ Lost(s.ptr_, rank) /\ NoGap(s)
  BY <1>1 DEF Sort, Breaks, RoomInv, Types
<1> HIDE DEF s, q
<1>6. t \in Structs /\ t.ptr_ = q /\ t.n_reserved_ = s.n_reserved_ /\ t.room = s.room
  BY <1>1, <1>3 DEF Structs
<1> HIDE DEF t
<1>7. HasRoom(t) /\ n_(t) = n_(s)
  BY <1>1, <1>3, <1>6 DEF HasRoom, n_
<1>8. "rank" \notin broken' => NoGap(t)
  <2> SUFFICES ASSUME "rank" \notin broken', NEW i \in 1 .. Len(t.ptr_)
               PROVE  t.ptr_[i] # Empty
    BY <1>6, NoGapMeans
  <2>1. PICK p \in [1 .. Len(s.ptr_) -> 1 .. Len(s.ptr_)] :
          q = [j \in 1 .. Len(s.ptr_) |-> s.ptr_[p[j]]]
    BY <1>3, <1>5 DEF Reordered
  <2>2. \A j \in 1 .. Len(s.ptr_) : s.ptr_[j] # Empty
    BY <1>1, <1>5, NoGapMeans
  <2>3. i \in 1 .. Len(s.ptr_) /\ p[i] \in 1 .. Len(s.ptr_)
    BY <1>3, <1>6
  <2> QED BY <1>6, <2>1, <2>2, <2>3
<1>9. Fits(n_(t))
  BY <1>7 DEF RoomInv, Types, s
<1> QED BY <1>4, <1>5, <1>6, <1>7, <1>8, <1>9, OneList DEF RoomInv, Types

LEMMA RoomStep ==
  ASSUME RoomInv, [Next]_vars
  PROVE  RoomInv'
<1>1. CASE UNCHANGED vars
  BY <1>1, SameLists DEF vars, RoomInv, Types
<1>2. CASE Next
  <2>1. "memory" \notin broken
    BY <1>2 DEF Next
  <2>2. ASSUME NEW o \in Objects, Copy(o) \/ Release(o) PROVE RoomInv'
    BY <2>2, RoomHandles
  <2>3. ASSUME NEW l \in Lists, NEW pos \in -1 .. n_(list[l]) - 1
        PROVE  /\ \A o \in Objects : MoveIn(l, o, pos) => RoomInv'
               /\ ReleaseAt(l, pos) \/ GetRef(l, pos) => RoomInv'
               /\ \A new_pos \in 0 .. n_(list[l]) - 1 : MoveTo(l, pos, new_pos) => RoomInv'
    <3>1. pos \in Int /\ \A new_pos \in 0 .. n_(list[l]) - 1 : new_pos \in Int
      BY ListTypes
    <3> QED BY <2>1, <3>1, RoomMoveIn, RoomReleaseAt, RoomGetRef, RoomMoveTo
  <2>4. ASSUME NEW l \in Lists, NEW from \in Lists, CopyFrom(l, from) \/ CopyList(l, from)
        PROVE  RoomInv'
    BY <2>1, <2>4, RoomCopyFrom, RoomCopyList
  <2>5. ASSUME NEW l \in Lists, NEW rank \in [1 .. n_(list[l]) -> Ranks], Sort(l, rank)
        PROVE  RoomInv'
    BY <2>1, <2>5, RoomSort
  <2>6. ASSUME NEW l \in Lists, Clear(l) \/ ReleaseList(l) PROVE RoomInv'
    BY <2>1, <2>6, RoomClear
  <2>7. ASSUME NEW l \in Lists, SortFails(l) PROVE RoomInv'
    BY <2>7, RoomSortFails
  <2> QED BY <1>2, <2>2, <2>3, <2>4, <2>5, <2>6, <2>7 DEF Next
<1> QED BY <1>1, <1>2

\* A list never writes or reads behind the memory that it has, n_reserved_ tells how
\* much that is until an allocation fails, and no slot is empty until an entry of
\* the lowest rank is sorted.
THEOREM ListsHaveRoom == Spec => []InsideRoom
<1>1. Init => RoomInv
  BY RoomInit
<1>2. RoomInv /\ [Next]_vars => RoomInv'
  BY RoomStep
<1>3. RoomInv => InsideRoom
  BY DEF RoomInv
<1> QED BY <1>1, <1>2, <1>3, PTL DEF Spec

-----------------------------------------------------------------------------
(* The number of slots that have an object.                                   *)

LEMMA CountFew ==
  ASSUME NEW o
  PROVE  /\ Count(<< >>, o) = 0
         /\ \A e : Count(<<e>>, o) = IF e = o THEN 1 ELSE 0
<1>1. Count(<< >>, o) = 0
  <2>1. {i \in DOMAIN << >> : << >>[i] = o} = {}
    OBVIOUS
  <2> QED BY <2>1, FS_EmptySet DEF Count
<1>2. ASSUME NEW e PROVE Count(<<e>>, o) = IF e = o THEN 1 ELSE 0
  <2>1. DOMAIN <<e>> = {1} /\ <<e>>[1] = e
    OBVIOUS
  <2>2. CASE e = o
    <3>1. {i \in DOMAIN <<e>> : <<e>>[i] = o} = {1}
      BY <2>1, <2>2
    <3> QED BY <2>2, <3>1, FS_Singleton DEF Count
  <2>3. CASE e # o
    <3>1. {i \in DOMAIN <<e>> : <<e>>[i] = o} = {}
      BY <2>1, <2>3
    <3> QED BY <2>3, <3>1, FS_EmptySet DEF Count
  <2> QED BY <2>2, <2>3
<1> QED BY <1>1, <1>2

LEMMA CountInserted ==
  ASSUME NEW s \in Slots, NEW e \in Objects \cup {Empty}, NEW i \in 1 .. Len(s) + 1, NEW o
  PROVE  Count(InsertAt(s, i, e), o) = Count(s, o) + Count(<<e>>, o)
<1> DEFINE t == InsertAt(s, i, e)
           I == {k \in DOMAIN s : s[k] = o}
           J == {k \in DOMAIN t : t[k] = o}
           f == [k \in I |-> IF k < i THEN k ELSE k + 1]
<1>1. Len(s) \in Nat /\ DOMAIN s = 1 .. Len(s) /\ i \in Nat
  BY DEF Slots
<1>2. /\ t \in Slots /\ Len(t) = Len(s) + 1
      /\ \A k \in 1 .. Len(s) + 1 :
           t[k] = IF k < i THEN s[k] ELSE IF k = i THEN e ELSE s[k - 1]
  BY InsertInSlots
<1>3. DOMAIN t = 1 .. Len(s) + 1
  BY <1>1, <1>2 DEF Slots
<1> HIDE DEF t
<1>4. i \in J <=> e = o
  BY <1>1, <1>2, <1>3
<1>5. \A k \in I : (IF k < i THEN k ELSE k + 1) \in J \ {i}
  BY <1>1, <1>2, <1>3
<1>6. ASSUME NEW j \in J \ {i}
      PROVE  \E k \in I : (IF k < i THEN k ELSE k + 1) = j
  <2>1. j \in 1 .. Len(s) + 1 /\ j \in Nat /\ j # i /\ t[j] = o
    BY <1>1, <1>3
  <2>2. CASE j < i
    <3>1. j \in I
      BY <1>1, <1>2, <2>1, <2>2
    <3> QED BY <2>2, <3>1
  <2>3. CASE j > i
    <3>1. j - 1 \in I
      BY <1>1, <1>2, <2>1, <2>3
    <3>2. ~ j - 1 < i /\ (j - 1) + 1 = j
      BY <1>1, <2>1, <2>3
    <3> QED BY <3>1, <3>2
  <2> QED BY <1>1, <2>1, <2>2, <2>3
<1>7. \A k, h \in I : (IF k < i THEN k ELSE k + 1) = (IF h < i THEN h ELSE h + 1) => k = h
  BY <1>1
<1>8. IsFiniteSet(I) /\ IsFiniteSet(J) /\ Cardinality(I) \in Nat /\ Cardinality(J) \in Nat
  <2>1. IsFiniteSet(I) /\ IsFiniteSet(J)
    BY <1>2, CountIsNat
  <2> HIDE DEF I, J
  <2> QED BY <2>1, FS_CardinalityType
<1> HIDE DEF I, J
<1>9. Cardinality(J \ {i}) = Cardinality(I)
  <2>1. f \in Bijection(I, J \ {i})
    <3>1. f \in Injection(I, J \ {i})
      BY <1>5, <1>7 DEF Injection, IsInjective
    <3>2. f \in Surjection(I, J \ {i})
      BY <1>5, <1>6 DEF Surjection
    <3> QED BY <3>1, <3>2 DEF Bijection
  <2> QED BY <1>8, <2>1, FS_Bijection DEF ExistsBijection
<1>10. Cardinality(J \ {i}) = IF i \in J THEN Cardinality(J) - 1 ELSE Cardinality(J)
  BY <1>8, FS_RemoveElement
<1>11. Cardinality(J) = Cardinality(I) + (IF e = o THEN 1 ELSE 0)
  BY <1>4, <1>8, <1>9, <1>10
<1>12. Count(<<e>>, o) = IF e = o THEN 1 ELSE 0
  BY CountFew
<1> QED BY <1>11, <1>12 DEF Count, I, J, t

\* What is taken out of a list and put back to its place.
LEMMA PutBack ==
  ASSUME NEW s \in Slots, NEW i \in 1 .. Len(s)
  PROVE  InsertAt(RemoveAt(s, i), i, s[i]) = s
<1> DEFINE E == Objects \cup {Empty}
           r == RemoveAt(s, i)
           t == InsertAt(r, i, s[i])
<1>1. Len(s) \in Nat /\ i \in Nat /\ s[i] \in E
  BY ElementOfSeq DEF Slots
<1>2. /\ r \in Slots /\ Len(r) = Len(s) - 1
      /\ \A k \in 1 .. Len(s) - 1 : r[k] = IF k < i THEN s[k] ELSE s[k + 1]
  BY RemoveFromSlots
<1> HIDE DEF r
<1>3. i \in 1 .. Len(r) + 1 /\ Len(r) + 1 = Len(s)
  BY <1>1, <1>2
<1> DEFINE e == s[i]
<1>4. e \in E
  BY <1>1
<1> HIDE DEF e
<1>5. /\ InsertAt(r, i, e) \in Slots /\ Len(InsertAt(r, i, e)) = Len(r) + 1
      /\ \A k \in 1 .. Len(r) + 1 :
           InsertAt(r, i, e)[k] = IF k < i THEN r[k] ELSE IF k = i THEN e ELSE r[k - 1]
  <2>1. IsInsertion(InsertAt(r, i, e), r, i, e)
    BY <1>2, <1>3, <1>4, InsertIsInsertion
  <2> QED BY <2>1 DEF IsInsertion
<1>6. t = InsertAt(r, i, e)
  BY DEF e
<1> HIDE DEF t
<1>7. ASSUME NEW k \in 1 .. Len(s) PROVE t[k] = s[k]
  <2>1. k \in Nat /\ k \in 1 .. Len(r) + 1
    BY <1>1, <1>3
  <2>2. CASE k < i
    <3>1. t[k] = r[k]
      BY <1>1, <1>5, <1>6, <2>1, <2>2
    <3>2. k \in 1 .. Len(s) - 1
      BY <1>1, <2>1, <2>2
    <3> QED BY <1>2, <2>2, <3>1, <3>2
  <2>3. CASE k = i
    BY <1>5, <1>6, <2>1, <2>3 DEF e
  <2>4. CASE k > i
    <3>1. k - 1 \in 1 .. Len(s) - 1 /\ ~ k - 1 < i /\ (k - 1) + 1 = k /\ ~ k < i /\ k # i
      BY <1>1, <2>1, <2>4
    <3>2. r[k - 1] = s[k]
      BY <1>2, <3>1
    <3> QED BY <1>5, <1>6, <2>1, <3>1, <3>2
  <2> QED BY <1>1, <2>1, <2>2, <2>3, <2>4
<1>8. t \in Seq(E) /\ s \in Seq(E) /\ Len(t) = Len(s)
  BY <1>3, <1>5, <1>6 DEF Slots
<1> HIDE DEF E
<1>9. t = s
  BY <1>7, <1>8, SeqEqual
<1> QED BY <1>9 DEF t, r

LEMMA CountRemoved ==
  ASSUME NEW s \in Slots, NEW i \in 1 .. Len(s), NEW o
  PROVE  Count(RemoveAt(s, i), o) = Count(s, o) - Count(<<s[i]>>, o)
<1> DEFINE r == RemoveAt(s, i)
           e == s[i]
<1>1. r \in Slots /\ Len(r) = Len(s) - 1 /\ Len(s) \in Nat /\ e \in Objects \cup {Empty}
  BY RemoveFromSlots, ElementOfSeq DEF Slots
<1>2. i \in 1 .. Len(r) + 1
  BY <1>1
<1>3. s = InsertAt(r, i, e)
  BY PutBack
<1>4. Count(r, o) \in Nat /\ Count(<<e>>, o) \in Nat
  BY <1>1, CountIsNat, OneSlot
<1> HIDE DEF r, e
<1>5. Count(InsertAt(r, i, e), o) = Count(r, o) + Count(<<e>>, o)
  BY <1>1, <1>2, CountInserted
<1> QED BY <1>3, <1>4, <1>5 DEF r, e

LEMMA CountReordered ==
  ASSUME NEW s \in Slots, NEW t, Reordered(t, s), NEW o
  PROVE  Count(t, o) = Count(s, o)
<1> DEFINE n == Len(s)
           I == {k \in DOMAIN t : t[k] = o}
           J == {k \in DOMAIN s : s[k] = o}
<1>1. PICK p \in [1 .. n -> 1 .. n] :
        /\ \A i, j \in 1 .. n : p[i] = p[j] => i = j
        /\ \A j \in 1 .. n : \E i \in 1 .. n : p[i] = j
        /\ t = [i \in 1 .. n |-> s[p[i]]]
  BY DEF Reordered
<1> DEFINE f == [k \in I |-> p[k]]
<1>2. DOMAIN s = 1 .. n /\ DOMAIN t = 1 .. n
  BY <1>1 DEF Slots
<1>3. f \in Injection(I, J)
  BY <1>1, <1>2 DEF Injection, IsInjective
<1>4. f \in Surjection(I, J)
  <2>1. \A j \in J : \E k \in I : f[k] = j
    BY <1>1, <1>2
  <2>2. f \in [I -> J]
    BY <1>3 DEF Injection
  <2> QED BY <2>1, <2>2 DEF Surjection
<1>5. ExistsBijection(I, J)
  BY <1>3, <1>4 DEF ExistsBijection, Bijection
<1>6. IsFiniteSet(I)
  <2>1. I \in SUBSET (1 .. n) /\ n \in Nat
    BY <1>2 DEF Slots
  <2>2. IsFiniteSet(1 .. n)
    BY <2>1, FS_Interval
  <2> HIDE DEF I, n
  <2> QED BY <2>1, <2>2, FS_Subset
<1> HIDE DEF I, J
<1>7. Cardinality(I) = Cardinality(J)
  BY <1>5, <1>6, FS_Bijection
<1> QED BY <1>7 DEF I, J, Count

-----------------------------------------------------------------------------
(* Who has references.                                                        *)

\* Places() of some lists.
PlacesIn(L, o) == {p \in Lists \X (1 .. MaxLength) :
                     p[2] <= Len(L[p[1]].ptr_) /\ L[p[1]].ptr_[p[2]] = o}

LEMMA PlacesInAreFinite ==
  ASSUME NEW L, NEW o
  PROVE  IsFiniteSet(PlacesIn(L, o))
<1> DEFINE A == Lists \X (1 .. MaxLength)
<1>1. IsFiniteSet(Lists) /\ MaxLength \in Nat
  BY ListAssumption
<1>2. IsFiniteSet(1 .. MaxLength)
  BY <1>1, FS_Interval
<1>3. IsFiniteSet(A)
  BY <1>1, <1>2, FS_Product
<1>4. PlacesIn(L, o) \in SUBSET A
  BY DEF PlacesIn
<1> HIDE DEF A
<1> QED BY <1>3, <1>4, FS_Subset

\* The entries of one list and those elsewhere.
LEMMA PlacesSplit ==
  ASSUME NEW L \in [Lists -> Structs], NEW l \in Lists, Len(L[l].ptr_) <= MaxLength, NEW o
  PROVE  LET there == {p \in PlacesIn(L, o) : p[1] # l}
         IN  /\ IsFiniteSet(there) /\ Cardinality(there) \in Nat
             /\ Cardinality(PlacesIn(L, o)) = Cardinality(there) + Count(L[l].ptr_, o)
<1> DEFINE P == PlacesIn(L, o)
           there == {p \in P : p[1] # l}
           here  == {p \in P : p[1] = l}
           s == L[l].ptr_
           I == {i \in DOMAIN s : s[i] = o}
           f == [i \in I |-> <<l, i>>]
<1>1. /\ IsFiniteSet(Lists) /\ MaxLength \in Nat
      /\ s \in Slots /\ Len(s) \in Nat /\ DOMAIN s = 1 .. Len(s)
  BY ListAssumption DEF Structs, Slots
<1>2. IsFiniteSet(P)
  BY PlacesInAreFinite
<1>3. here \in SUBSET P /\ there \in SUBSET P /\ P = there \cup here /\ there \cap here = {}
  OBVIOUS
<1>4. ExistsBijection(I, here)
  <2>1. \A i \in I : <<l, i>> \in here
    BY <1>1 DEF PlacesIn
  <2>2. \A p \in here : p[2] \in I /\ p = <<l, p[2]>>
    BY <1>1 DEF PlacesIn
  <2> HIDE DEF I, here
  <2>3. f \in Injection(I, here)
    BY <2>1 DEF Injection, IsInjective
  <2>4. f \in Surjection(I, here)
    <3>1. f \in [I -> here]
      BY <2>1
    <3>2. \A p \in here : \E i \in I : f[i] = p
      BY <2>2
    <3> HIDE DEF f
    <3> QED BY <3>1, <3>2 DEF Surjection
  <2> HIDE DEF f
  <2> QED BY <2>3, <2>4 DEF ExistsBijection, Bijection
<1>5. IsFiniteSet(I)
  BY <1>1, CountIsNat
<1> HIDE DEF P, there, here, I
<1>6. IsFiniteSet(there) /\ IsFiniteSet(here)
  BY <1>2, <1>3, FS_Subset
<1>7. /\ Cardinality(there) \in Nat /\ Cardinality(here) \in Nat
      /\ Cardinality(there \cap here) = 0
  BY <1>3, <1>6, FS_CardinalityType, FS_EmptySet
<1>8. Cardinality(P) = Cardinality(there) + Cardinality(here)
  <2>1. Cardinality(there \cup here)
          = Cardinality(there) + Cardinality(here) - Cardinality(there \cap here)
    BY <1>6, FS_Union
  <2> QED BY <1>3, <1>7, <2>1
<1>9. Cardinality(here) = Cardinality(I)
  BY <1>4, <1>5, FS_Bijection
<1> QED BY <1>6, <1>7, <1>8, <1>9 DEF P, there, I, Count

LEMMA PlacesArePlacesIn ==
  ASSUME NEW o
  PROVE  Places(o) = PlacesIn(list, o) /\ Places(o)' = PlacesIn(list', o)
BY DEF Places, PlacesIn, n_

\* A step that leaves the entries alone.
LEMMA SameOwners ==
  ASSUME OneOwner, broken = {}, list' = list,
         \A o \in Objects : /\ ref_[o] \in Int /\ ref_'[o] \in Int
                           /\ handles[o] \in Nat /\ handles'[o] \in Nat
                           /\ ref_'[o] - handles'[o] = ref_[o] - handles[o]
  PROVE  OneOwner'
<1> SUFFICES ASSUME NEW o \in Objects
             PROVE  ref_'[o] = handles'[o] + Cardinality(Places(o)')
  BY DEF OneOwner
<1>1. Places(o)' = Places(o)
  BY PlacesArePlacesIn
<1>2. ref_[o] = handles[o] + Cardinality(Places(o))
  BY DEF OneOwner
<1>3. /\ ref_[o] \in Int /\ ref_'[o] \in Int /\ handles[o] \in Nat /\ handles'[o] \in Nat
      /\ ref_'[o] - handles'[o] = ref_[o] - handles[o]
  OBVIOUS
<1> DEFINE c == Cardinality(Places(o))
<1>4. ref_[o] = handles[o] + c /\ c = Cardinality(Places(o)')
  BY <1>1, <1>2
<1>5. c = ref_[o] - handles[o]
  <2>1. c \in Nat
    <3>1. IsFiniteSet(Places(o))
      BY PlacesInAreFinite, PlacesArePlacesIn
    <3> QED BY <3>1, FS_CardinalityType
  <2> HIDE DEF c
  <2> QED BY <1>3, <1>4, <2>1
<1> HIDE DEF c
<1>6. ref_'[o] = handles'[o] + c
  BY <1>3, <1>5
<1> QED BY <1>4, <1>6

\* A step that changes the entries of one list.
LEMMA OwnersOfOne ==
  ASSUME RoomInv, RoomInv', OneOwner, broken = {}, NEW l \in Lists,
         \A k \in Lists : k # l => list'[k] = list[k],
         \A o \in Objects :
           ref_'[o] - handles'[o] = ref_[o] - handles[o]
                                    + Count(list'[l].ptr_, o) - Count(list[l].ptr_, o)
  PROVE  OneOwner'
<1> SUFFICES ASSUME NEW o \in Objects
             PROVE  ref_'[o] = handles'[o] + Cardinality(Places(o)')
  BY DEF OneOwner
<1> DEFINE there  == {p \in PlacesIn(list, o) : p[1] # l}
           there1 == {p \in PlacesIn(list', o) : p[1] # l}
<1>1. /\ list \in [Lists -> Structs] /\ list' \in [Lists -> Structs]
      /\ Len(list[l].ptr_) <= MaxLength /\ Len(list'[l].ptr_) <= MaxLength
      /\ list[l].ptr_ \in Slots /\ list'[l].ptr_ \in Slots
      /\ ref_[o] \in Int /\ ref_'[o] \in Int /\ handles[o] \in Nat /\ handles'[o] \in Nat
  BY DEF RoomInv, Types, Fits, n_, Structs
<1>2. there1 = there
  BY DEF PlacesIn
<1>3. /\ Cardinality(there) \in Nat
      /\ Cardinality(PlacesIn(list, o)) = Cardinality(there) + Count(list[l].ptr_, o)
  BY <1>1, PlacesSplit
<1>4. Cardinality(PlacesIn(list', o)) = Cardinality(there1) + Count(list'[l].ptr_, o)
  <2> DEFINE L == list'
  <2>1. L \in [Lists -> Structs] /\ Len(L[l].ptr_) <= MaxLength
    BY <1>1
  <2> HIDE DEF L
  <2>2. Cardinality(PlacesIn(L, o)) = Cardinality({p \in PlacesIn(L, o) : p[1] # l})
                                      + Count(L[l].ptr_, o)
    BY <2>1, PlacesSplit
  <2> QED BY <2>2 DEF L
<1>5. ref_[o] = handles[o] + Cardinality(PlacesIn(list, o))
  BY PlacesArePlacesIn DEF OneOwner
<1>6. Count(list[l].ptr_, o) \in Nat /\ Count(list'[l].ptr_, o) \in Nat
  BY <1>1, CountIsNat
<1>7. ref_'[o] - handles'[o] = ref_[o] - handles[o]
                               + Count(list'[l].ptr_, o) - Count(list[l].ptr_, o)
  OBVIOUS
<1> DEFINE a == Cardinality(there)
           b == Count(list[l].ptr_, o)
           c == Count(list'[l].ptr_, o)
<1>8. /\ a \in Nat /\ b \in Nat /\ c \in Nat
      /\ ref_[o] = handles[o] + (a + b)
      /\ ref_'[o] - handles'[o] = ref_[o] - handles[o] + c - b
      /\ Cardinality(PlacesIn(list', o)) = a + c
  BY <1>2, <1>3, <1>4, <1>5, <1>6, <1>7
<1> HIDE DEF a, b, c
<1>9. ref_'[o] = handles'[o] + (a + c)
  BY <1>1, <1>8
<1> QED BY <1>8, <1>9, PlacesArePlacesIn

OwnerInv == RoomInv /\ OneOwner

\* What the steps need of the types before and afterwards.
LEMMA OwnerTypes ==
  ASSUME OwnerInv, RoomInv', broken = {}, NEW o \in Objects
  PROVE  /\ ref_[o] \in Int /\ ref_'[o] \in Int
         /\ handles[o] \in Nat /\ handles'[o] \in Nat
         /\ \A made, released \in Slots :
              Refs(made, released)[o] = ref_[o] + Count(made, o) - Count(released, o)
BY DEF OwnerInv, RoomInv, Types, Refs

LEMMA OwnersHandles ==
  ASSUME OwnerInv, RoomInv', broken = {}, NEW o \in Objects, list' = list,
         \/ handles' = [handles EXCEPT ![o] = @ + 1] /\ ref_' = Refs(<<o>>, << >>)
         \/ handles' = [handles EXCEPT ![o] = @ - 1] /\ ref_' = Refs(<< >>, <<o>>)
  PROVE  OneOwner'
<1> SUFFICES ASSUME NEW x \in Objects
             PROVE  /\ ref_[x] \in Int /\ ref_'[x] \in Int
                    /\ handles[x] \in Nat /\ handles'[x] \in Nat
                    /\ ref_'[x] - handles'[x] = ref_[x] - handles[x]
  BY SameOwners DEF OwnerInv
<1>1. /\ ref_[x] \in Int /\ ref_'[x] \in Int /\ handles[x] \in Nat /\ handles'[x] \in Nat
      /\ Refs(<<o>>, << >>)[x] = ref_[x] + Count(<<o>>, x) - Count(<< >>, x)
      /\ Refs(<< >>, <<o>>)[x] = ref_[x] + Count(<< >>, x) - Count(<<o>>, x)
  BY OwnerTypes, OneSlot, NoSlot
<1>2. Count(<< >>, x) = 0 /\ Count(<<o>>, x) = IF o = x THEN 1 ELSE 0
  BY CountFew
<1>3. DOMAIN handles = Objects
  BY DEF OwnerInv, RoomInv, Types
<1>4. CASE handles' = [handles EXCEPT ![o] = @ + 1] /\ ref_' = Refs(<<o>>, << >>)
  <2>1. ref_'[x] = ref_[x] + (IF o = x THEN 1 ELSE 0)
    BY <1>1, <1>2, <1>4
  <2>2. handles'[x] = handles[x] + (IF o = x THEN 1 ELSE 0)
    BY <1>1, <1>3, <1>4
  <2> QED BY <1>1, <2>1, <2>2
<1>5. CASE handles' = [handles EXCEPT ![o] = @ - 1] /\ ref_' = Refs(<< >>, <<o>>)
  <2>1. ref_'[x] = ref_[x] - (IF o = x THEN 1 ELSE 0)
    BY <1>1, <1>2, <1>5
  <2>2. handles'[x] = handles[x] - (IF o = x THEN 1 ELSE 0)
    BY <1>1, <1>3, <1>5
  <2> QED BY <1>1, <2>1, <2>2
<1> QED BY <1>1, <1>4, <1>5

LEMMA OwnersMoveIn ==
  ASSUME OwnerInv, RoomInv', broken = {}, broken' = {},
         NEW l \in Lists, NEW o \in Objects, NEW pos \in Int, MoveIn(l, o, pos)
  PROVE  /\ \E i \in 1 .. Len(list[l].ptr_) + 1 :
              list'[l].ptr_ = InsertAt(list[l].ptr_, i, o)
         /\ OneOwner'
<1> DEFINE s == list[l]
           t == MovedIn(s, o, pos)
           i == (IF At(s, pos) THEN pos ELSE n_(s)) + 1
<1>1. s \in Structs /\ s.ptr_ \in Slots /\ NoGap(s) /\ n_(s) \in Nat /\ n_(s) = Len(s.ptr_)
  BY ListTypes DEF OwnerInv
<1>2. ~ Fills(s, pos)
  BY <1>1 DEF Fills, NoGap
<1>3. /\ list' = [list EXCEPT ![l] = t] /\ ref_' = ref_
      /\ handles' = [handles EXCEPT ![o] = @ - 1]
  BY <1>2 DEF MoveIn, Breaks
<1>4. t.ptr_ = InsertAt(s.ptr_, i, o)
  <2> HIDE DEF s, i
  <2> QED BY <1>1, MovedInIsStruct DEF i
<1>5. i \in 1 .. Len(s.ptr_) + 1
  BY <1>1 DEF At
<1>6. list'[l] = t /\ \A k \in Lists : k # l => list'[k] = list[k]
  BY <1>3 DEF OwnerInv, RoomInv, Types
<1> HIDE DEF s, t, i
<1>7. ASSUME NEW x \in Objects
      PROVE  ref_'[x] - handles'[x] = ref_[x] - handles[x]
                                      + Count(list'[l].ptr_, x) - Count(list[l].ptr_, x)
  <2>1. Count(t.ptr_, x) = Count(s.ptr_, x) + Count(<<o>>, x) /\ Count(s.ptr_, x) \in Nat
    <3> DEFINE p == s.ptr_
    <3>1. p \in Slots /\ i \in 1 .. Len(p) + 1 /\ o \in Objects \cup {Empty} /\ t.ptr_ = InsertAt(p, i, o)
      BY <1>1, <1>4, <1>5
    <3> HIDE DEF p
    <3>2. Count(InsertAt(p, i, o), x) = Count(p, x) + Count(<<o>>, x)
      BY <3>1, CountInserted
    <3>3. Count(p, x) \in Nat
      BY <3>1, CountIsNat
    <3> QED BY <3>1, <3>2, <3>3 DEF p
  <2>2. Count(<<o>>, x) = IF o = x THEN 1 ELSE 0
    BY CountFew
  <2>3. /\ ref_[x] \in Int /\ ref_'[x] \in Int /\ handles[x] \in Nat /\ handles'[x] \in Nat
        /\ DOMAIN handles = Objects
    BY OwnerTypes DEF OwnerInv, RoomInv, Types
  <2>4. handles'[x] = handles[x] - Count(<<o>>, x)
    BY <1>3, <2>2, <2>3
  <2> QED BY <1>3, <1>6, <2>1, <2>2, <2>3, <2>4 DEF s
<1>8. OneOwner'
  BY <1>6, <1>7, OwnersOfOne DEF OwnerInv
<1>9. list'[l].ptr_ = InsertAt(s.ptr_, i, o)
  BY <1>4, <1>6
<1> QED BY <1>5, <1>8, <1>9 DEF s

LEMMA OwnersReleaseAt ==
  ASSUME OwnerInv, RoomInv', broken = {}, NEW l \in Lists, NEW pos, ReleaseAt(l, pos)
  PROVE  list'[l].ptr_ = RemoveAt(list[l].ptr_, pos + 1) /\ OneOwner'
<1> DEFINE s == list[l]
           e == s.ptr_[pos + 1]
           t == Released(s, pos)
<1>1. /\ s \in Structs /\ s.ptr_ \in Slots /\ n_(s) \in Nat /\ n_(s) = Len(s.ptr_)
      /\ \A k \in 1 .. n_(s) : s.ptr_[k] \in Objects \cup {Empty}
  BY ListTypes DEF OwnerInv
<1>2. pos \in 0 .. n_(s) - 1 /\ pos + 1 \in 1 .. Len(s.ptr_) /\ e \in Objects \cup {Empty}
  BY <1>1 DEF ReleaseAt, At
<1>3. list' = [list EXCEPT ![l] = t] /\ handles' = handles /\ ref_' = Refs(<< >>, <<e>>)
  BY DEF ReleaseAt
<1>4. t.ptr_ = RemoveAt(s.ptr_, pos + 1)
  BY <1>1, <1>2, ReleasedIsStruct
<1>5. list'[l] = t /\ \A k \in Lists : k # l => list'[k] = list[k]
  BY <1>3 DEF OwnerInv, RoomInv, Types
<1>6. ASSUME NEW x \in Objects
      PROVE  ref_'[x] - handles'[x] = ref_[x] - handles[x]
                                      + Count(list'[l].ptr_, x) - Count(list[l].ptr_, x)
  <2>1. Count(t.ptr_, x) = Count(s.ptr_, x) - Count(<<e>>, x)
    BY <1>1, <1>2, <1>4, CountRemoved
  <2>2. /\ ref_[x] \in Int /\ handles[x] \in Nat
        /\ ref_'[x] = ref_[x] + Count(<< >>, x) - Count(<<e>>, x)
    BY <1>2, <1>3, OwnerTypes, OneSlot, NoSlot
  <2>3. Count(<< >>, x) = 0 /\ Count(<<e>>, x) \in Nat /\ Count(s.ptr_, x) \in Nat
    BY <1>1, <1>2, CountFew, CountIsNat, OneSlot
  <2> HIDE DEF s, t, e
  <2> QED BY <1>3, <1>5, <2>1, <2>2, <2>3 DEF s
<1>7. OneOwner'
  BY <1>5, <1>6, OwnersOfOne DEF OwnerInv
<1> HIDE DEF t
<1> QED BY <1>4, <1>5, <1>7

LEMMA OwnersMoveTo ==
  ASSUME OwnerInv, RoomInv', broken = {}, NEW l \in Lists, NEW pos, NEW new_pos \in Int,
         MoveTo(l, pos, new_pos)
  PROVE  /\ list'[l].ptr_ = InsertAt(RemoveAt(list[l].ptr_, pos + 1), new_pos + 1,
                                     list[l].ptr_[pos + 1])
         /\ OneOwner'
<1> DEFINE s == list[l]
           e == s.ptr_[pos + 1]
           r == Released(s, pos)
           t == MovedIn(r, e, new_pos)
           i == (IF At(r, new_pos) THEN new_pos ELSE n_(r)) + 1
<1>1. /\ s \in Structs /\ s.ptr_ \in Slots /\ NoGap(s)
      /\ n_(s) \in Nat /\ n_(s) = Len(s.ptr_)
      /\ \A k \in 1 .. n_(s) : s.ptr_[k] \in Objects \cup {Empty}
  BY ListTypes DEF OwnerInv
<1>2. /\ pos \in 0 .. n_(s) - 1 /\ pos + 1 \in 1 .. Len(s.ptr_) /\ e \in Objects \cup {Empty}
      /\ new_pos \in 0 .. n_(s) - 1
  BY <1>1 DEF MoveTo, At
<1>3. e # Empty
  BY <1>1, <1>2, NoGapMeans
<1>4. /\ r \in Structs /\ n_(r) = n_(s) - 1 /\ NoGap(r) /\ r.ptr_ = RemoveAt(s.ptr_, pos + 1)
  BY <1>1, <1>2, ReleasedIsStruct
<1>5. list' = [list EXCEPT ![l] = t] /\ handles' = handles /\ ref_' = ref_
  BY <1>3 DEF MoveTo
<1> HIDE DEF s, r, e
<1>6. t.ptr_ = InsertAt(r.ptr_, i, e)
  BY <1>2, <1>4, MovedInIsStruct
<1>7. i = new_pos + 1 /\ i \in 1 .. Len(r.ptr_) + 1 /\ r.ptr_ \in Slots
  BY <1>1, <1>2, <1>4 DEF At, n_, Structs, Slots
<1> HIDE DEF t, i
<1>8. list'[l] = t /\ \A k \in Lists : k # l => list'[k] = list[k]
  BY <1>5 DEF OwnerInv, RoomInv, Types
<1>9. list'[l].ptr_ = InsertAt(RemoveAt(list[l].ptr_, pos + 1), new_pos + 1,
                               list[l].ptr_[pos + 1])
  BY <1>4, <1>6, <1>7, <1>8 DEF s, e
<1>10. ASSUME NEW x \in Objects
       PROVE  ref_'[x] - handles'[x] = ref_[x] - handles[x]
                                       + Count(list'[l].ptr_, x) - Count(list[l].ptr_, x)
  <2>1. Count(t.ptr_, x) = Count(r.ptr_, x) + Count(<<e>>, x)
    BY <1>2, <1>6, <1>7, CountInserted
  <2>2. Count(r.ptr_, x) = Count(s.ptr_, x) - Count(<<e>>, x)
    BY <1>1, <1>2, <1>4, CountRemoved DEF e
  <2>3. /\ ref_[x] \in Int /\ handles[x] \in Nat
        /\ Count(<<e>>, x) \in Nat /\ Count(s.ptr_, x) \in Nat
    BY <1>1, <1>2, OwnerTypes, CountIsNat, OneSlot
  <2> QED BY <1>5, <1>8, <2>1, <2>2, <2>3 DEF s
<1>11. OneOwner'
  BY <1>8, <1>10, OwnersOfOne DEF OwnerInv
<1> QED BY <1>9, <1>11

\* One list gives back all that it has, and gets new references to some slots.
LEMMA OwnersAssigned ==
  ASSUME OwnerInv, RoomInv', broken = {}, NEW l \in Lists, NEW slots \in Slots,
         NEW t, list' = [list EXCEPT ![l] = t], t.ptr_ = slots, handles' = handles,
         ref_' = Refs(slots, list[l].ptr_)
  PROVE  OneOwner'
<1>1. list[l].ptr_ \in Slots
  BY ListTypes DEF OwnerInv
<1>2. list'[l] = t /\ \A k \in Lists : k # l => list'[k] = list[k]
  BY DEF OwnerInv, RoomInv, Types
<1> SUFFICES ASSUME NEW x \in Objects
             PROVE  ref_'[x] - handles'[x] = ref_[x] - handles[x]
                                             + Count(list'[l].ptr_, x) - Count(list[l].ptr_, x)
  BY <1>2, OwnersOfOne DEF OwnerInv
<1>3. /\ ref_[x] \in Int /\ handles[x] \in Nat
      /\ ref_'[x] = ref_[x] + Count(slots, x) - Count(list[l].ptr_, x)
  BY <1>1, OwnerTypes
<1>4. Count(slots, x) \in Nat /\ Count(list[l].ptr_, x) \in Nat
  BY <1>1, CountIsNat
<1> QED BY <1>2, <1>3, <1>4

LEMMA OwnersClear ==
  ASSUME OwnerInv, RoomInv', broken = {}, NEW l \in Lists, Clear(l) \/ ReleaseList(l)
  PROVE  list'[l].ptr_ = << >> /\ OneOwner'
<1> DEFINE t == list'[l]
<1>1. /\ list' = [list EXCEPT ![l] = t] /\ t.ptr_ = << >>
      /\ handles' = handles /\ ref_' = Refs(<< >>, list[l].ptr_)
  <2>1. list \in [Lists -> Structs] /\ list[l] \in Structs
    BY ListTypes DEF OwnerInv, RoomInv, Types
  <2>2. CASE Clear(l)
    <3>1. list' = [list EXCEPT ![l] = [list[l] EXCEPT !.ptr_ = << >>]]
      BY <2>2 DEF Clear
    <3> QED BY <2>1, <2>2, <3>1 DEF Clear, Structs
  <2>3. CASE ReleaseList(l)
    BY <2>1, <2>3 DEF ReleaseList, New
  <2> QED BY <2>2, <2>3
<1> HIDE DEF t
<1> QED BY <1>1, NoSlot, OwnersAssigned DEF t

LEMMA OwnersCopyFrom ==
  ASSUME OwnerInv, RoomInv', broken = {}, broken' = {}, NEW l \in Lists, NEW from \in Lists,
         CopyFrom(l, from)
  PROVE  /\ list'[l].ptr_ = (IF l = from THEN << >> ELSE list[from].ptr_)
         /\ OneOwner'
<1> DEFINE c     == [list[l] EXCEPT !.ptr_ = << >>]
           slots == IF l = from THEN << >> ELSE list[from].ptr_
           t     == CopiedInto(c, slots)[Len(slots)]
<1>1. slots \in Slots
  BY ListTypes, NoSlot DEF OwnerInv
<1>2. c \in Structs /\ c.ptr_ = << >>
  BY ListTypes, EmptyList DEF OwnerInv
<1>3. Empty \notin ToSet(slots)
  BY DEF CopyFrom, UsesNull, Breaks
<1>4. /\ list' = [list EXCEPT ![l] = t] /\ ref_' = Refs(slots, list[l].ptr_)
      /\ handles' = handles
  BY <1>3 DEF CopyFrom, Breaks
<1> HIDE DEF c, slots
<1>5. t.ptr_ = slots
  <2>1. Len(slots) \in 0 .. Len(slots)
    BY <1>1 DEF Slots
  <2>2. /\ t \in Structs /\ n_(t) = Len(slots)
        /\ \A j \in 1 .. Len(slots) : t.ptr_[j] = slots[j]
    BY <1>1, <1>2, <1>3, <2>1, CopiedProperties
  <2> HIDE DEF t
  <2> DEFINE E == Objects \cup {Empty}
             q == t.ptr_
  <2>3. q \in Seq(E) /\ slots \in Seq(E) /\ Len(q) = Len(slots)
        /\ \A j \in 1 .. Len(q) : q[j] = slots[j]
    BY <1>1, <2>2 DEF Structs, Slots, n_
  <2> HIDE DEF E, q
  <2>4. q = slots
    BY <2>3, SeqEqual
  <2> QED BY <2>4 DEF q
<1> HIDE DEF t
<1>6. list'[l] = t
  BY <1>4 DEF OwnerInv, RoomInv, Types
<1>7. OneOwner'
  BY <1>1, <1>4, <1>5, OwnersAssigned
<1> QED BY <1>5, <1>6, <1>7 DEF slots

LEMMA OwnersCopyList ==
  ASSUME OwnerInv, RoomInv', broken = {}, broken' = {}, NEW l \in Lists, NEW from \in Lists,
         CopyList(l, from)
  PROVE  list'[l].ptr_ = list[from].ptr_ /\ OneOwner'
<1> DEFINE slots == list[from].ptr_
           capacity == IF n_(list[from]) > First THEN (n_(list[from]) * 3) \div 2 ELSE First
           t == [ptr_ |-> slots, n_reserved_ |-> capacity, room |-> capacity]
<1>1. slots \in Slots
  BY ListTypes DEF OwnerInv
<1>2. /\ list[l] = New /\ handles' = handles
      /\ list' = [list EXCEPT ![l] = t] /\ ref_' = Refs(slots, << >>)
  BY DEF CopyList, UsesNull, Breaks
<1> HIDE DEF capacity
<1>3. t.ptr_ = slots
  OBVIOUS
<1>4. list[l].ptr_ = << >>
  BY <1>2 DEF New
<1> HIDE DEF t, slots
<1>5. list'[l] = t
  BY <1>2 DEF OwnerInv, RoomInv, Types
<1>6. OneOwner'
  BY <1>1, <1>2, <1>3, <1>4, OwnersAssigned
<1> QED BY <1>3, <1>5, <1>6 DEF slots

LEMMA OwnersSort ==
  ASSUME OwnerInv, RoomInv', broken = {}, broken' = {}, NEW l \in Lists,
         NEW rank \in [1 .. n_(list[l]) -> Ranks], Sort(l, rank)
  PROVE  Reordered(list'[l].ptr_, list[l].ptr_) /\ OneOwner'
<1> DEFINE s == list[l]
           slots == s.ptr_
           t == [s EXCEPT !.ptr_ = Sorted(slots, rank)]
<1>1. /\ s \in Structs /\ slots \in Slots /\ NoGap(s) /\ Empty \notin ToSet(slots)
      /\ n_(s) = Len(slots)
  BY ListTypes DEF OwnerInv, NoGap
<1>2. rank \in [1 .. Len(slots) -> Int]
  BY <1>1, ListAssumption
<1>3. list' = [list EXCEPT ![l] = t] /\ handles' = handles /\ ref_' = ref_
  BY DEF Sort, OwnerInv, RoomInv, Types
<1>4. ~ Lost(slots, rank)
  BY DEF Sort, Breaks
<1>5. t.ptr_ = Sorted(slots, rank)
  BY <1>1 DEF Structs
<1>6. list'[l] = t /\ \A k \in Lists : k # l => list'[k] = list[k]
  BY <1>3 DEF OwnerInv, RoomInv, Types
<1> HIDE DEF slots, t
<1>7. Reordered(t.ptr_, slots)
  BY <1>1, <1>2, <1>4, <1>5, SortedProperties
<1>8. ASSUME NEW x \in Objects
      PROVE  ref_'[x] - handles'[x] = ref_[x] - handles[x]
                                      + Count(list'[l].ptr_, x) - Count(list[l].ptr_, x)
  <2>1. Count(t.ptr_, x) = Count(slots, x) /\ Count(slots, x) \in Nat
    BY <1>1, <1>7, CountReordered, CountIsNat
  <2>2. ref_[x] \in Int /\ handles[x] \in Nat
    BY OwnerTypes
  <2> QED BY <1>3, <1>6, <2>1, <2>2 DEF slots
<1>9. OneOwner'
  BY <1>6, <1>8, OwnersOfOne DEF OwnerInv
<1> QED BY <1>6, <1>7, <1>9 DEF slots

LEMMA OwnerStep ==
  ASSUME OwnerInv, [Next]_vars
  PROVE  OwnerInv'
<1>1. RoomInv'
  BY RoomStep DEF OwnerInv
<1> SUFFICES ASSUME broken' = {} PROVE OneOwner'
  BY <1>1 DEF OwnerInv, OneOwner
<1>2. CASE UNCHANGED vars
  BY <1>2 DEF vars, OwnerInv, OneOwner, Places, n_
<1>3. CASE Next
  <2>1. ASSUME NEW o \in Objects, Copy(o) \/ Release(o) PROVE OneOwner'
    <3>1. broken = {} /\ list' = list
      BY <2>1 DEF Copy, Release
    <3>2. \/ handles' = [handles EXCEPT ![o] = @ + 1] /\ ref_' = Refs(<<o>>, << >>)
          \/ handles' = [handles EXCEPT ![o] = @ - 1] /\ ref_' = Refs(<< >>, <<o>>)
      BY <2>1 DEF Copy, Release
    <3> QED BY <1>1, <3>1, <3>2, OwnersHandles
  <2>2. ASSUME NEW l \in Lists, NEW pos \in Int, NEW o \in Objects, MoveIn(l, o, pos)
        PROVE  OneOwner'
    <3>1. broken = {}
      BY <2>2 DEF MoveIn, Breaks
    <3> QED BY <1>1, <2>2, <3>1, OwnersMoveIn
  <2>3. ASSUME NEW l \in Lists, NEW pos, ReleaseAt(l, pos) PROVE OneOwner'
    <3>1. broken = {}
      BY <2>3 DEF ReleaseAt
    <3> QED BY <1>1, <2>3, <3>1, OwnersReleaseAt
  <2>4. ASSUME NEW l \in Lists, NEW pos, GetRef(l, pos) PROVE OneOwner'
    <3> DEFINE o == list[l].ptr_[pos + 1]
    <3>1. o \in Objects
      <4>1. RoomInv /\ pos + 1 \in 1 .. n_(list[l])
        BY <2>4, ListTypes DEF GetRef, At, OwnerInv
      <4> QED BY <2>4, <4>1, ListTypes DEF GetRef
    <3>2. /\ broken = {} /\ list' = list
          /\ handles' = [handles EXCEPT ![o] = @ + 1] /\ ref_' = Refs(<<o>>, << >>)
      BY <2>4 DEF GetRef
    <3> HIDE DEF o
    <3> QED BY <1>1, <3>1, <3>2, OwnersHandles
  <2>5. ASSUME NEW l \in Lists, NEW pos, NEW new_pos \in Int, MoveTo(l, pos, new_pos)
        PROVE  OneOwner'
    <3>1. broken = {}
      BY <2>5 DEF MoveTo
    <3> QED BY <1>1, <2>5, <3>1, OwnersMoveTo
  <2>6. ASSUME NEW l \in Lists, NEW from \in Lists, CopyFrom(l, from) \/ CopyList(l, from)
        PROVE  OneOwner'
    <3>1. broken = {}
      BY <2>6 DEF CopyFrom, CopyList, UsesNull, Breaks
    <3> QED BY <1>1, <2>6, <3>1, OwnersCopyFrom, OwnersCopyList
  <2>7. ASSUME NEW l \in Lists, NEW rank \in [1 .. n_(list[l]) -> Ranks], Sort(l, rank)
        PROVE  OneOwner'
    <3>1. broken = {}
      BY <2>7 DEF Sort, Breaks
    <3> QED BY <1>1, <2>7, <3>1, OwnersSort
  <2>8. ASSUME NEW l \in Lists, Clear(l) \/ ReleaseList(l) PROVE OneOwner'
    <3>1. broken = {}
      BY <2>8 DEF Clear, ReleaseList
    <3> QED BY <1>1, <2>8, <3>1, OwnersClear
  <2>9. ASSUME NEW l \in Lists, NEW pos \in -1 .. n_(list[l]) - 1
        PROVE  pos \in Int /\ \A new_pos \in 0 .. n_(list[l]) - 1 : new_pos \in Int
    BY ListTypes DEF OwnerInv
  <2>10. ASSUME NEW l \in Lists, SortFails(l) PROVE FALSE
    BY <2>10 DEF SortFails, Breaks
  <2> QED BY <1>3, <2>1, <2>2, <2>3, <2>4, <2>5, <2>6, <2>7, <2>8, <2>9, <2>10 DEF Next
<1> QED BY <1>2, <1>3

LEMMA OwnerInit == ASSUME Init PROVE OwnerInv
<1>1. RoomInv
  BY RoomInit
<1>2. ASSUME NEW o \in Objects PROVE ref_[o] = handles[o] + Cardinality(Places(o))
  <2>1. Places(o) = {}
    BY DEF Init, New, Places, n_
  <2> QED BY <2>1, FS_EmptySet DEF Init
<1> QED BY <1>1, <1>2 DEF OwnerInv, OneOwner

\* As long as nothing is broken ref_ of each object is the number of references that
\* the program and the lists have: no list operation loses or doubles one.
THEOREM ReferencesHaveOwners == Spec => []OneOwner
<1>1. Init => OwnerInv
  BY OwnerInit
<1>2. OwnerInv /\ [Next]_vars => OwnerInv'
  BY OwnerStep
<1>3. OwnerInv => OneOwner
  BY DEF OwnerInv
<1> QED BY <1>1, <1>2, <1>3, PTL DEF Spec

-----------------------------------------------------------------------------
(* A moved entry.                                                             *)

LEMMA TakeOut ==
  ASSUME NEW s \in Slots, NEW e \in Objects \cup {Empty}, NEW i \in 1 .. Len(s) + 1
  PROVE  InsertAt(s, i, e)[i] = e /\ RemoveAt(InsertAt(s, i, e), i) = s
<1> DEFINE E == Objects \cup {Empty}
           t == InsertAt(s, i, e)
           r == RemoveAt(t, i)
<1>1. Len(s) \in Nat /\ i \in Nat
  BY DEF Slots
<1>2. /\ t \in Slots /\ Len(t) = Len(s) + 1
      /\ \A k \in 1 .. Len(s) + 1 :
           t[k] = IF k < i THEN s[k] ELSE IF k = i THEN e ELSE s[k - 1]
  BY InsertInSlots
<1> HIDE DEF t
<1>3. i \in 1 .. Len(t)
  BY <1>2
<1>4. /\ r \in Slots /\ Len(r) = Len(t) - 1
      /\ \A k \in 1 .. Len(t) - 1 : r[k] = IF k < i THEN t[k] ELSE t[k + 1]
  BY <1>2, <1>3, RemoveFromSlots
<1> HIDE DEF r
<1>5. ASSUME NEW k \in 1 .. Len(r) PROVE r[k] = s[k]
  <2>1. k \in Nat /\ k \in 1 .. Len(s) + 1 /\ k + 1 \in 1 .. Len(s) + 1 /\ k \in 1 .. Len(t) - 1
    BY <1>1, <1>2, <1>4
  <2>2. CASE k < i
    BY <1>2, <1>4, <2>1, <2>2
  <2>3. CASE k >= i
    <3>1. ~ k < i /\ ~ k + 1 < i /\ k + 1 # i /\ (k + 1) - 1 = k
      BY <1>1, <2>1, <2>3
    <3> QED BY <1>2, <1>4, <2>1, <3>1
  <2> QED BY <1>1, <2>1, <2>2, <2>3
<1>6. r \in Seq(E) /\ s \in Seq(E) /\ Len(r) = Len(s)
  BY <1>1, <1>2, <1>4 DEF Slots
<1> HIDE DEF E
<1>7. r = s
  BY <1>5, <1>6, SeqEqual
<1>8. t[i] = e
  BY <1>1, <1>2
<1> QED BY <1>7, <1>8 DEF t, r

LEMMA MovesToPlaceStep ==
  ASSUME OwnerInv, [Next]_vars, NEW l \in Lists,
         NEW pos \in 0 .. n_(list[l]) - 1, NEW new_pos \in 0 .. n_(list[l]) - 1,
         broken = {}, MoveTo(l, pos, new_pos)
  PROVE  LET old == list[l].ptr_
             new == list'[l].ptr_
         IN /\ new[new_pos + 1] = old[pos + 1]
            /\ RemoveAt(new, new_pos + 1) = RemoveAt(old, pos + 1)
<1> DEFINE s == list[l].ptr_
           e == s[pos + 1]
           r == RemoveAt(s, pos + 1)
           i == new_pos + 1
<1>1. /\ s \in Slots /\ n_(list[l]) \in Nat /\ n_(list[l]) = Len(s)
      /\ \A k \in 1 .. n_(list[l]) : s[k] \in Objects \cup {Empty}
  BY ListTypes DEF OwnerInv
<1>2. pos + 1 \in 1 .. Len(s) /\ e \in Objects \cup {Empty} /\ new_pos \in Int
  BY <1>1
<1>3. r \in Slots /\ Len(r) = Len(s) - 1
  BY <1>1, <1>2, RemoveFromSlots
<1>4. i \in 1 .. Len(r) + 1
  BY <1>1, <1>3
<1>5. list'[l].ptr_ = InsertAt(r, i, e)
  BY <1>2, OwnerStep, OwnersMoveTo DEF OwnerInv
<1> HIDE DEF s, e, r, i
<1>6. InsertAt(r, i, e)[i] = e /\ RemoveAt(InsertAt(r, i, e), i) = r
  BY <1>2, <1>3, <1>4, TakeOut
<1> QED BY <1>5, <1>6 DEF s, e, r, i

\* oyStructList_MoveTo() puts the entry to the place that was asked for, before or
\* behind its old one, and leaves the others in their order.
THEOREM EntriesMoveToPlace == Spec => MovesToPlace
<1>1. Init => OwnerInv
  BY OwnerInit
<1>2. OwnerInv /\ [Next]_vars => OwnerInv'
  BY OwnerStep
<1>3. OwnerInv /\ [Next]_vars =>
        [\A l \in Lists : \A pos, new_pos \in 0 .. n_(list[l]) - 1 :
           broken = {} /\ MoveTo(l, pos, new_pos) =>
             LET old == list[l].ptr_
                 new == list'[l].ptr_
             IN /\ new[new_pos + 1] = old[pos + 1]
                /\ RemoveAt(new, new_pos + 1) = RemoveAt(old, pos + 1)]_vars
  BY MovesToPlaceStep
<1> QED BY <1>1, <1>2, <1>3, PTL DEF Spec, MovesToPlace

\* What a call of oyStructList_Sort() leaves is the list in some order of its
\* positions, by descending rank and as before among equals.
LEMMA SortsByRankStep ==
  ASSUME RoomInv
  PROVE  \A l \in Lists : \A rank \in [1 .. n_(list[l]) -> Ranks \ {MinRank}] :
           broken = {} /\ Sort(l, rank) =>
             \E order \in [DOMAIN rank -> DOMAIN rank] :
               /\ InOrder(order, rank)
               /\ list'[l].ptr_ = [i \in DOMAIN order |-> list[l].ptr_[order[i]]]
<1> SUFFICES ASSUME NEW l \in Lists, NEW rank \in [1 .. n_(list[l]) -> Ranks \ {MinRank}],
                    broken = {}, Sort(l, rank)
             PROVE  \E order \in [DOMAIN rank -> DOMAIN rank] :
                      /\ InOrder(order, rank)
                      /\ list'[l].ptr_ = [i \in DOMAIN order |-> list[l].ptr_[order[i]]]
  OBVIOUS
<1> DEFINE slots == list[l].ptr_
           n     == Len(slots)
<1>1. list \in [Lists -> Structs] /\ slots \in Slots /\ Empty \notin ToSet(slots)
  BY DEF RoomInv, Types, InsideRoom, Structs
<1>2. DOMAIN slots = 1 .. n /\ DOMAIN rank = 1 .. n
  BY <1>1 DEF Slots, n_
<1>3. rank \in [1 .. n -> Int] /\ \A i \in 1 .. n : rank[i] # MinRank
  BY ListAssumption DEF n_
<1>4. ~ Lost(slots, rank)
  BY <1>2, <1>3 DEF Lost
<1>5. list'[l].ptr_ = Sorted(slots, rank)
  BY <1>1 DEF Sort, Structs
<1> HIDE DEF slots
<1>6. PICK order \in [1 .. n -> 1 .. n] :
        InOrder(order, rank) /\ Sorted(slots, rank) = [i \in 1 .. n |-> slots[order[i]]]
  BY <1>1, <1>3, <1>4, SortedProperties
<1>7. list'[l].ptr_ = [i \in DOMAIN order |-> list[l].ptr_[order[i]]]
  BY <1>5, <1>6 DEF slots
<1> QED BY <1>2, <1>6, <1>7

\* oyStructList_Sort() is a stable sort by descending rank, for any list and ranks
\* but the lowest one: its rounds of searching the maximum miss and repeat nothing.
THEOREM SortIsStable == Spec => SortsByRank
<1>1. Init => RoomInv
  BY RoomInit
<1>2. RoomInv /\ [Next]_vars => RoomInv'
  BY RoomStep
<1>3. RoomInv /\ [Next]_vars =>
        [\A l \in Lists : \A rank \in [1 .. n_(list[l]) -> Ranks \ {MinRank}] :
           broken = {} /\ Sort(l, rank) =>
             \E order \in [DOMAIN rank -> DOMAIN rank] :
               /\ InOrder(order, rank)
               /\ list'[l].ptr_ = [i \in DOMAIN order |-> list[l].ptr_[order[i]]]]_vars
  BY SortsByRankStep
<1> QED BY <1>1, <1>2, <1>3, PTL DEF Spec, SortsByRank

-----------------------------------------------------------------------------
(* Lists are sequences of shared objects.                                     *)

Sequences_ == [l \in Lists |-> list[l].ptr_]
Alive_ == {o \in Objects : ref_[o] > 0}

\* An object is referenced as long as the program or a list has it.
LEMMA ReferencedIsOwned ==
  ASSUME NEW L \in [Lists -> Structs], \A l \in Lists : Len(L[l].ptr_) <= MaxLength,
         NEW o, NEW h \in Nat, NEW r, r = h + Cardinality(PlacesIn(L, o))
  PROVE  r > 0 <=> h > 0 \/ \E l \in Lists : o \in ToSet(L[l].ptr_)
<1> DEFINE P == PlacesIn(L, o)
<1>1. r = h + Cardinality(P)
  OBVIOUS
<1>2. IsFiniteSet(P) /\ Cardinality(P) \in Nat /\ (Cardinality(P) = 0 <=> P = {})
  <2>1. IsFiniteSet(P)
    BY PlacesInAreFinite
  <2> HIDE DEF P
  <2> QED BY <2>1, FS_CardinalityType, FS_EmptySet
<1>3. P # {} <=> \E l \in Lists : o \in ToSet(L[l].ptr_)
  <2>1. \A l \in Lists : /\ DOMAIN L[l].ptr_ = 1 .. Len(L[l].ptr_)
                        /\ Len(L[l].ptr_) \in Nat /\ Len(L[l].ptr_) <= MaxLength
    BY DEF Structs, Slots
  <2>2. ASSUME NEW p \in P PROVE \E l \in Lists : o \in ToSet(L[l].ptr_)
    <3>1. p[1] \in Lists /\ p[2] \in 1 .. Len(L[p[1]].ptr_) /\ L[p[1]].ptr_[p[2]] = o
      BY <2>1 DEF PlacesIn
    <3> QED BY <2>1, <3>1 DEF ToSet
  <2>3. ASSUME NEW l \in Lists, NEW i \in DOMAIN L[l].ptr_, L[l].ptr_[i] = o
        PROVE  <<l, i>> \in P
    <3>1. i \in 1 .. MaxLength /\ i <= Len(L[l].ptr_)
      BY <2>1, ListAssumption
    <3> QED BY <2>3, <3>1 DEF PlacesIn
  <2> HIDE DEF P
  <2> QED BY <2>2, <2>3 DEF ToSet
<1> HIDE DEF P
<1> QED BY <1>1, <1>2, <1>3

LEMMA AliveIsOwned ==
  ASSUME OwnerInv, broken = {}
  PROVE  Alive_ = Promise!Owned(Sequences_, handles)
<1>1. list \in [Lists -> Structs] /\ \A l \in Lists : Len(list[l].ptr_) <= MaxLength
  BY DEF OwnerInv, RoomInv, Types, Fits, n_
<1>2. ASSUME NEW o \in Objects
      PROVE  ref_[o] > 0 <=> handles[o] > 0 \/ \E l \in Lists : o \in ToSet(list[l].ptr_)
  <2>1. handles[o] \in Nat /\ ref_[o] = handles[o] + Cardinality(PlacesIn(list, o))
    BY PlacesArePlacesIn DEF OwnerInv, OneOwner, RoomInv, Types
  <2> QED BY <1>1, <2>1, ReferencedIsOwned
<1>3. \A l \in Lists : Sequences_[l] = list[l].ptr_
  BY DEF Sequences_
<1> QED BY <1>2, <1>3 DEF Alive_, Promise!Owned, Promise!ToSet, ToSet

\* A step leaves the objects that are owned.
LEMMA StepLeaves ==
  ASSUME OwnerInv', broken = {}, broken' = {}
  PROVE  Alive_' = Promise!Owned(Sequences_', handles')
<1>1. list' \in [Lists -> Structs] /\ \A l \in Lists : Len(list'[l].ptr_) <= MaxLength
  BY DEF OwnerInv, RoomInv, Types, Fits, n_
<1>2. ASSUME NEW o \in Objects
      PROVE  ref_'[o] > 0 <=> handles'[o] > 0 \/ \E l \in Lists : o \in ToSet(list'[l].ptr_)
  <2>1. handles'[o] \in Nat /\ ref_'[o] = handles'[o] + Cardinality(PlacesIn(list', o))
    BY PlacesArePlacesIn DEF OwnerInv, OneOwner, RoomInv, Types
  <2> QED BY <1>1, <2>1, ReferencedIsOwned
<1>3. \A l \in Lists : Sequences_'[l] = list'[l].ptr_
  BY DEF Sequences_
<1> QED BY <1>2, <1>3 DEF Promise!Owned, Promise!ToSet, ToSet, Alive_

LEMMA OneSequence ==
  ASSUME OwnerInv, OwnerInv', NEW l \in Lists, \A k \in Lists : k # l => list'[k] = list[k]
  PROVE  Sequences_' = Promise!With(l, list'[l].ptr_)
<1>1. Sequences_' = [k \in Lists |-> IF k = l THEN list'[l].ptr_ ELSE list[k].ptr_]
  BY DEF Sequences_
<1> QED BY <1>1 DEF Promise!With

\* What a step leaves, in the terms of the sequences.
LEMMA SequenceStep ==
  ASSUME OwnerInv, OwnerInv', broken = {}, broken' = {}, NEW l \in Lists,
         \A k \in Lists : k # l => list'[k] = list[k]
  PROVE  /\ Sequences_' = Promise!With(l, list'[l].ptr_)
         /\ Alive_' = Promise!Owned(Promise!With(l, list'[l].ptr_), handles')
BY OneSequence, StepLeaves

LEMMA HandleStep ==
  ASSUME OwnerInv, OwnerInv', broken = {}, broken' = {}, list' = list
  PROVE  Sequences_' = Sequences_ /\ Alive_' = Promise!Owned(Sequences_, handles')
<1>1. Sequences_' = Sequences_
  BY DEF Sequences_
<1> QED BY <1>1, StepLeaves

\* Moving an entry of a list reorders the list.
LEMMA MoveReorders ==
  ASSUME NEW s \in Slots, NEW a \in 1 .. Len(s), NEW b \in 1 .. Len(s)
  PROVE  Reordered(InsertAt(RemoveAt(s, a), b, s[a]), s)
<1> DEFINE n == Len(s)
           r == RemoveAt(s, a)
           e == s[a]
           t == InsertAt(r, b, e)
           From(k) == IF k = b THEN a
                      ELSE IF k < b THEN (IF k < a THEN k ELSE k + 1)
                      ELSE (IF k - 1 < a THEN k - 1 ELSE k)
           To(j) == IF j = a THEN b
                    ELSE IF j < a THEN (IF j < b THEN j ELSE j + 1)
                    ELSE (IF j - 1 < b THEN j - 1 ELSE j)
           p == [k \in 1 .. n |-> From(k)]
<1>1. n \in Nat /\ a \in Nat /\ b \in Nat /\ e \in Objects \cup {Empty}
  BY ElementOfSeq DEF Slots
<1>2. /\ r \in Slots /\ Len(r) = n - 1
      /\ \A k \in 1 .. n - 1 : r[k] = IF k < a THEN s[k] ELSE s[k + 1]
  BY RemoveFromSlots
<1> HIDE DEF r, e, n
<1>3. a \in 1 .. n /\ b \in 1 .. n /\ b \in 1 .. Len(r) + 1 /\ Len(r) + 1 = n
  BY <1>1, <1>2 DEF n
<1>4. /\ t \in Slots /\ Len(t) = Len(r) + 1
      /\ \A k \in 1 .. Len(r) + 1 : t[k] = IF k < b THEN r[k] ELSE IF k = b THEN e ELSE r[k - 1]
  <2>1. IsInsertion(t, r, b, e)
    BY <1>1, <1>2, <1>3, InsertIsInsertion
  <2> HIDE DEF t
  <2> QED BY <2>1 DEF IsInsertion
<1> HIDE DEF t
<1>5. \A k \in 1 .. n : From(k) \in 1 .. n
  BY <1>1, <1>3
<1>6. \A j \in 1 .. n : To(j) \in 1 .. n /\ From(To(j)) = j
  BY <1>1, <1>3
<1>7. \A k \in 1 .. n : To(From(k)) = k
  BY <1>1, <1>3
<1>8. ASSUME NEW k \in 1 .. n PROVE t[k] = s[From(k)]
  <2>1. k \in Nat
    BY <1>1
  <2>2. CASE k < b
    <3>1. t[k] = r[k] /\ k \in 1 .. n - 1
      BY <1>1, <1>3, <1>4, <2>1, <2>2
    <3>2. From(k) = IF k < a THEN k ELSE k + 1
      BY <1>1, <2>1, <2>2
    <3> HIDE DEF From
    <3> QED BY <1>2, <3>1, <3>2
  <2>3. CASE k = b
    <3>1. t[k] = e /\ From(k) = a
      BY <1>1, <1>3, <1>4, <2>1, <2>3
    <3> HIDE DEF From
    <3> QED BY <3>1 DEF e
  <2>4. CASE k > b
    <3>1. t[k] = r[k - 1] /\ k - 1 \in 1 .. n - 1 /\ (k - 1) + 1 = k
      BY <1>1, <1>3, <1>4, <2>1, <2>4
    <3>2. From(k) = IF k - 1 < a THEN k - 1 ELSE k
      BY <1>1, <2>1, <2>4
    <3> HIDE DEF From
    <3> QED BY <1>2, <3>1, <3>2
  <2> QED BY <1>1, <2>1, <2>2, <2>3, <2>4
<1> HIDE DEF From, To
<1>9. p \in [1 .. n -> 1 .. n] /\ \A i, j \in 1 .. n : p[i] = p[j] => i = j
  <2>1. \A i, j \in 1 .. n : From(i) = From(j) => i = j
    BY <1>7
  <2> QED BY <1>5, <2>1
<1>10. \A j \in 1 .. n : \E k \in 1 .. n : p[k] = j
  BY <1>6
<1>11. t = [k \in 1 .. n |-> s[p[k]]]
  <2>1. t \in [1 .. n -> Objects \cup {Empty}]
    BY <1>3, <1>4 DEF Slots
  <2>2. \A k \in 1 .. n : t[k] = s[p[k]]
    BY <1>8
  <2> HIDE DEF p
  <2> QED BY <2>1, <2>2
<1> HIDE DEF p
<1>12. Reordered(t, s)
  BY <1>9, <1>10, <1>11 DEF Reordered, n
<1> QED BY <1>12 DEF t, r, e

\* A reordered list is a permuted sequence.
LEMMA ReorderedIsPermuted ==
  ASSUME OwnerInv, OwnerInv', broken = {}, broken' = {}, NEW l \in Lists, handles' = handles,
         \A k \in Lists : k # l => list'[k] = list[k],
         Reordered(list'[l].ptr_, list[l].ptr_)
  PROVE  Promise!Permute(l)
<1> DEFINE s == list[l].ptr_
<1>1. PICK p \in [1 .. Len(s) -> 1 .. Len(s)] :
        /\ \A i, j \in 1 .. Len(s) : p[i] = p[j] => i = j
        /\ list'[l].ptr_ = [i \in 1 .. Len(s) |-> s[p[i]]]
  BY DEF Reordered
<1>2. DOMAIN s = 1 .. Len(s) /\ DOMAIN p = 1 .. Len(s) /\ Sequences_[l] = s
  BY ListTypes DEF OwnerInv, Slots, Sequences_
<1> HIDE DEF s
<1>4. Promise!Leaves(Promise!With(l, list'[l].ptr_), handles)
  <2>1. /\ Sequences_' = Promise!With(l, list'[l].ptr_)
        /\ Alive_' = Promise!Owned(Promise!With(l, list'[l].ptr_), handles)
    BY SequenceStep
  <2> QED BY <2>1 DEF Promise!Leaves, Sequences_, Alive_
<1>5. list'[l].ptr_ = [i \in DOMAIN p |-> Sequences_[l][p[i]]]
  BY <1>1, <1>2
<1>6. p \in [DOMAIN Sequences_[l] -> DOMAIN Sequences_[l]] /\ Promise!IsInjective(p)
  BY <1>1, <1>2 DEF Promise!IsInjective
<1>7. Promise!Leaves(Promise!With(l, [i \in DOMAIN p |-> Sequences_[l][p[i]]]), handles)
  BY <1>4, <1>5
<1> QED BY <1>6, <1>7 DEF Promise!Permute, Sequences_

\* Objects that the program or a list has exist.
LEMMA OwnedIsAlive ==
  ASSUME OwnerInv, broken = {}, NEW o \in Objects,
         handles[o] > 0 \/ \E l \in Lists : o \in ToSet(list[l].ptr_)
  PROVE  o \in Alive_
<1>1. \A l \in Lists : Sequences_[l] = list[l].ptr_
  BY DEF Sequences_
<1> QED BY <1>1, AliveIsOwned DEF Promise!Owned, Promise!ToSet, ToSet

\* Every step is a step of the sequences or leaves them.
LEMMA PromiseStep ==
  ASSUME OwnerInv, [Next]_vars
  PROVE  [Promise!Next]_(Promise!vars)
<1>1. CASE UNCHANGED vars
  BY <1>1 DEF vars, Promise!vars
<1>2. CASE broken' # {}
  BY <1>2 DEF Promise!Next
<1>3. CASE Next /\ broken' = {}
  <2>1. OwnerInv' /\ RoomInv /\ RoomInv'
    BY <1>3, OwnerStep DEF OwnerInv
  <2>2. list \in [Lists -> Structs]
    BY <2>1 DEF RoomInv, Types
  <2>3. ASSUME NEW o \in Objects, Copy(o) PROVE Promise!Next
    <3>1. /\ broken = {} /\ list' = list /\ handles[o] > 0
          /\ handles' = [handles EXCEPT ![o] = @ + 1]
      BY <1>3, <2>3 DEF Copy
    <3>2. Promise!Leaves(Sequences_, Promise!More(o))
      <4>1. Sequences_' = Sequences_ /\ Alive_' = Promise!Owned(Sequences_, handles')
        BY <1>3, <2>1, <3>1, HandleStep
      <4>2. handles' = Promise!More(o)
        BY <3>1 DEF Promise!More
      <4> QED BY <1>3, <3>1, <4>1, <4>2 DEF Promise!Leaves, Sequences_, Alive_
    <3>3. Promise!Take(o)
      BY <3>1, <3>2, OwnedIsAlive DEF Promise!Take, Alive_, Sequences_
    <3> QED BY <3>3 DEF Promise!Next
  <2>4. ASSUME NEW o \in Objects, Release(o) PROVE Promise!Next
    <3>1. /\ broken = {} /\ list' = list /\ handles[o] > 0
          /\ handles' = [handles EXCEPT ![o] = @ - 1]
      BY <1>3, <2>4 DEF Release
    <3>2. Promise!Leaves(Sequences_, Promise!Less(o))
      <4>1. Sequences_' = Sequences_ /\ Alive_' = Promise!Owned(Sequences_, handles')
        BY <1>3, <2>1, <3>1, HandleStep
      <4>2. handles' = Promise!Less(o)
        BY <3>1 DEF Promise!Less
      <4> QED BY <1>3, <3>1, <4>1, <4>2 DEF Promise!Leaves, Sequences_, Alive_
    <3>3. Promise!Drop(o)
      BY <3>1, <3>2 DEF Promise!Drop, Sequences_
    <3> QED BY <3>3 DEF Promise!Next
  <2>5. ASSUME NEW l \in Lists, NEW pos \in Int, NEW o \in Objects, MoveIn(l, o, pos)
        PROVE  Promise!Next
    <3>1. broken = {} /\ handles[o] > 0
      BY <1>3, <2>5 DEF MoveIn, Breaks
    <3>2. PICK i \in 1 .. Len(list[l].ptr_) + 1 : list'[l].ptr_ = InsertAt(list[l].ptr_, i, o)
      BY <1>3, <2>1, <2>5, <3>1, OwnersMoveIn
    <3>3. NoGap(list[l])
      BY <2>1, <3>1, ListTypes
    <3>4. /\ handles' = [handles EXCEPT ![o] = @ - 1]
          /\ \A k \in Lists : k # l => list'[k] = list[k]
      BY <1>3, <2>2, <2>5, <3>3 DEF MoveIn, Breaks, Fills, NoGap
    <3>5. Promise!Leaves(Promise!With(l, list'[l].ptr_), Promise!Less(o))
      <4>1. /\ Sequences_' = Promise!With(l, list'[l].ptr_)
            /\ Alive_' = Promise!Owned(Promise!With(l, list'[l].ptr_), handles')
        BY <1>3, <2>1, <3>1, <3>4, SequenceStep
      <4>2. handles' = Promise!Less(o)
        BY <3>1, <3>4 DEF Promise!Less
      <4> QED BY <1>3, <3>1, <4>1, <4>2 DEF Promise!Leaves, Sequences_, Alive_
    <3>6. Sequences_[l] = list[l].ptr_
      BY DEF Sequences_
    <3>7. list'[l].ptr_ = Promise!InsertAt(Sequences_[l], i, o)
      BY <3>2, <3>6 DEF InsertAt, Promise!InsertAt
    <3>8. Promise!Insert(l, o, i)
      BY <3>1, <3>5, <3>7 DEF Promise!Insert, Sequences_
    <3>9. i \in 1 .. Len(Sequences_[l]) + 1
      BY <3>6
    <3> QED BY <3>8, <3>9 DEF Promise!Next, Sequences_
  <2>6. ASSUME NEW l \in Lists, NEW pos, ReleaseAt(l, pos) PROVE Promise!Next
    <3>1. broken = {} /\ handles' = handles /\ At(list[l], pos)
      BY <1>3, <2>6 DEF ReleaseAt
    <3>2. list'[l].ptr_ = RemoveAt(list[l].ptr_, pos + 1)
      BY <2>1, <2>6, <3>1, OwnersReleaseAt
    <3>3. \A k \in Lists : k # l => list'[k] = list[k]
      BY <2>2, <2>6 DEF ReleaseAt
    <3>4. Promise!Leaves(Promise!With(l, list'[l].ptr_), handles)
      <4>1. /\ Sequences_' = Promise!With(l, list'[l].ptr_)
            /\ Alive_' = Promise!Owned(Promise!With(l, list'[l].ptr_), handles')
        BY <1>3, <2>1, <3>1, <3>3, SequenceStep
      <4>2. handles' = handles
        BY <3>1, <3>3
      <4> QED BY <1>3, <3>1, <4>1, <4>2 DEF Promise!Leaves, Sequences_, Alive_
    <3>5. Sequences_[l] = list[l].ptr_
      BY DEF Sequences_
    <3>6. list'[l].ptr_ = Promise!RemoveAt(Sequences_[l], pos + 1)
      BY <3>2, <3>5 DEF RemoveAt, Promise!RemoveAt
    <3>7. Promise!Delete(l, pos + 1)
      BY <3>4, <3>6 DEF Promise!Delete, Sequences_
    <3>8. pos + 1 \in DOMAIN Sequences_[l]
      <4>1. /\ n_(list[l]) \in Nat /\ n_(list[l]) = Len(list[l].ptr_)
            /\ DOMAIN list[l].ptr_ = 1 .. Len(list[l].ptr_)
        BY <2>1, ListTypes DEF Slots
      <4> QED BY <3>1, <3>5, <4>1 DEF At
    <3> QED BY <3>7, <3>8 DEF Promise!Next, Sequences_
  <2>7. ASSUME NEW l \in Lists, NEW pos, GetRef(l, pos) PROVE Promise!Next
    <3>1. PICK o \in Objects : o = list[l].ptr_[pos + 1] /\ o \in ToSet(list[l].ptr_)
      <4>1. /\ pos + 1 \in 1 .. n_(list[l]) /\ n_(list[l]) = Len(list[l].ptr_)
            /\ DOMAIN list[l].ptr_ = 1 .. Len(list[l].ptr_)
        BY <2>1, <2>7, ListTypes DEF GetRef, At, Slots
      <4> QED BY <2>1, <2>7, <4>1, ListTypes DEF GetRef, ToSet
    <3>2. /\ broken = {} /\ list' = list /\ handles' = [handles EXCEPT ![o] = @ + 1]
      BY <1>3, <2>7, <3>1 DEF GetRef
    <3>3. Promise!Leaves(Sequences_, Promise!More(o))
      <4>1. Sequences_' = Sequences_ /\ Alive_' = Promise!Owned(Sequences_, handles')
        BY <1>3, <2>1, <3>2, HandleStep
      <4>2. handles' = Promise!More(o)
        BY <3>2 DEF Promise!More
      <4> QED BY <1>3, <3>2, <4>1, <4>2 DEF Promise!Leaves, Sequences_, Alive_
    <3>4. Promise!Take(o)
      BY <3>1, <3>2, <3>3, OwnedIsAlive DEF Promise!Take, Alive_, Sequences_
    <3> QED BY <3>1, <3>4 DEF Promise!Next
  <2>8. ASSUME NEW l \in Lists, NEW pos, NEW new_pos \in Int, MoveTo(l, pos, new_pos)
        PROVE  Promise!Next
    <3> DEFINE s == list[l].ptr_
    <3>1. broken = {} /\ handles' = handles /\ At(list[l], pos) /\ At(list[l], new_pos)
      BY <1>3, <2>8 DEF MoveTo
    <3>2. list'[l].ptr_ = InsertAt(RemoveAt(s, pos + 1), new_pos + 1, s[pos + 1])
      BY <2>1, <2>8, <3>1, OwnersMoveTo
    <3>3. s \in Slots /\ pos + 1 \in 1 .. Len(s) /\ new_pos + 1 \in 1 .. Len(s)
      <4>1. s \in Slots /\ n_(list[l]) \in Nat /\ n_(list[l]) = Len(s)
        BY <2>1, ListTypes
      <4> QED BY <3>1, <4>1 DEF At
    <3> HIDE DEF s
    <3>4. Reordered(list'[l].ptr_, s)
      BY <3>2, <3>3, MoveReorders
    <3>5. \A k \in Lists : k # l => list'[k] = list[k]
      BY <2>2, <2>8 DEF MoveTo
    <3>6. Promise!Permute(l)
      BY <1>3, <2>1, <3>1, <3>4, <3>5, ReorderedIsPermuted DEF s
    <3> QED BY <3>6 DEF Promise!Next
  <2>9. ASSUME NEW l \in Lists, Clear(l) \/ ReleaseList(l) PROVE Promise!Next
    <3>1. broken = {} /\ handles' = handles
      BY <1>3, <2>9 DEF Clear, ReleaseList
    <3>2. list'[l].ptr_ = << >>
      BY <2>1, <2>9, <3>1, OwnersClear
    <3>3. \A k \in Lists : k # l => list'[k] = list[k]
      BY <2>2, <2>9 DEF Clear, ReleaseList
    <3>4. Promise!Leaves(Promise!With(l, list'[l].ptr_), handles)
      <4>1. /\ Sequences_' = Promise!With(l, list'[l].ptr_)
            /\ Alive_' = Promise!Owned(Promise!With(l, list'[l].ptr_), handles')
        BY <1>3, <2>1, <3>1, <3>3, SequenceStep
      <4>2. handles' = handles
        BY <3>1, <3>3
      <4> QED BY <1>3, <3>1, <4>1, <4>2 DEF Promise!Leaves, Sequences_, Alive_
    <3>5. Promise!Clear(l)
      BY <3>2, <3>4 DEF Promise!Clear
    <3> QED BY <3>5 DEF Promise!Next
  <2>10. ASSUME NEW l \in Lists, NEW from \in Lists, CopyFrom(l, from) \/ CopyList(l, from)
         PROVE  Promise!Next
    <3>1. broken = {} /\ handles' = handles
      BY <1>3, <2>10 DEF CopyFrom, CopyList, UsesNull, Breaks
    <3>2. list'[l].ptr_ = IF l = from THEN << >> ELSE list[from].ptr_
      <4>1. CASE CopyFrom(l, from)
        BY <1>3, <2>1, <3>1, <4>1, OwnersCopyFrom
      <4>2. CASE CopyList(l, from)
        <5>1. l # from
          BY <4>2 DEF CopyList
        <5> QED BY <1>3, <2>1, <3>1, <4>2, <5>1, OwnersCopyList
      <4> QED BY <2>10, <4>1, <4>2
    <3>3. \A k \in Lists : k # l => list'[k] = list[k]
      BY <1>3, <2>2, <2>10 DEF CopyFrom, CopyList, UsesNull, Breaks
    <3>4. Promise!Leaves(Promise!With(l, list'[l].ptr_), handles)
      <4>1. /\ Sequences_' = Promise!With(l, list'[l].ptr_)
            /\ Alive_' = Promise!Owned(Promise!With(l, list'[l].ptr_), handles')
        BY <1>3, <2>1, <3>1, <3>3, SequenceStep
      <4>2. handles' = handles
        BY <3>1, <3>3
      <4> QED BY <1>3, <3>1, <4>1, <4>2 DEF Promise!Leaves, Sequences_, Alive_
    <3>5. list'[l].ptr_ = IF l = from THEN << >> ELSE Sequences_[from]
      BY <3>2 DEF Sequences_
    <3>6. Promise!Assign(l, from)
      BY <3>4, <3>5 DEF Promise!Assign, Sequences_
    <3> QED BY <3>6 DEF Promise!Next
  <2>11. ASSUME NEW l \in Lists, NEW rank \in [1 .. n_(list[l]) -> Ranks], Sort(l, rank)
         PROVE  Promise!Next
    <3>1. broken = {} /\ handles' = handles
      BY <1>3, <2>11 DEF Sort, Breaks
    <3>2. Reordered(list'[l].ptr_, list[l].ptr_)
      BY <1>3, <2>1, <2>11, <3>1, OwnersSort
    <3>3. \A k \in Lists : k # l => list'[k] = list[k]
      BY <2>2, <2>11 DEF Sort
    <3>4. Promise!Permute(l)
      BY <1>3, <2>1, <3>1, <3>2, <3>3, ReorderedIsPermuted
    <3> QED BY <3>4 DEF Promise!Next
  <2>12. ASSUME NEW l \in Lists, NEW pos \in -1 .. n_(list[l]) - 1
         PROVE  pos \in Int /\ \A new_pos \in 0 .. n_(list[l]) - 1 : new_pos \in Int
    BY <2>1, ListTypes
  <2>13. ASSUME NEW l \in Lists, SortFails(l) PROVE FALSE
    BY <1>3, <2>13 DEF SortFails, Breaks
  <2>14. Promise!Next
    BY <1>3, <2>3, <2>4, <2>5, <2>6, <2>7, <2>8, <2>9, <2>10, <2>11, <2>12, <2>13 DEF Next
  <2> QED BY <2>14
<1> QED BY <1>1, <1>2, <1>3

LEMMA PromiseInit == ASSUME Init PROVE Promise!Init
BY DEF Init, New, Promise!Init

\* Until something is broken the lists are sequences of objects, which exist exactly
\* as long as the program or a list has them.
THEOREM ListsAreSequences == Spec => RefinesLists
<1>1. Init => OwnerInv /\ Promise!Init
  BY OwnerInit, PromiseInit
<1>2. OwnerInv /\ [Next]_vars => OwnerInv'
  BY OwnerStep
<1>3. OwnerInv /\ [Next]_vars => [Promise!Next]_(Promise!vars)
  BY PromiseStep
<1> QED BY <1>1, <1>2, <1>3, PTL DEF Spec, RefinesLists, Promise!Spec
================================================================================
