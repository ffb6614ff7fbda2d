-------------------------- MODULE OptionValues_proofs --------------------------
(***************************************************************************)
(* The options of module OptionValues, for any options, sets and defaults: *)
(* a set lists each key once, and what was set by hand stays.              *)
(***************************************************************************)
EXTENDS OptionValues, WellFoundedInduction, SequenceTheorems, FiniteSetTheorems, TLAPS

-----------------------------------------------------------------------------
(* Loops of the code over lists are functions of the number of rounds, defined *)
(* by recursion.  The library's theorems on induction and recursion have       *)
(* operators as parameters; here they have sets and functions in their place.  *)

LEMMA NatIsWellFounded == IsWellFoundedOn({p \in Nat \X Nat : p[1] < p[2]}, Nat)
BY NatLessThanWellFounded DEF OpToRel

\* A set with 0 and the successor of each member has all natural numbers.
LEMMA SetInduction ==
  ASSUME NEW S \in SUBSET Nat, 0 \in S, \A n \in S : n + 1 \in S
  PROVE  S = Nat
<1> DEFINE R == {p \in Nat \X Nat : p[1] < p[2]}
<1>1. SUFFICES ASSUME Nat \ S # {} PROVE FALSE
  OBVIOUS
<1>2. IsWellFoundedOn(R, Nat)
  BY NatIsWellFounded
<1> HIDE DEF R
<1>3. PICK n \in Nat \ S : \A m \in Nat \ S : ~ (<<m, n>> \in R)
  BY <1>1, <1>2, WFMin
<1>4. n # 0 /\ n - 1 \in Nat
  OBVIOUS
<1>5. <<n - 1, n>> \in R
  BY <1>4 DEF R
<1>6. n - 1 \in S
  BY <1>3, <1>4, <1>5
<1> QED BY <1>4, <1>6

\* The same up to a bound.
LEMMA BoundedInduction ==
  ASSUME NEW n \in Nat, NEW S, 0 \in S, \A k \in S : k \in 0 .. n - 1 => k + 1 \in S
  PROVE  0 .. n \subseteq S
<1> DEFINE T == {k \in Nat : k <= n => k \in S}
<1>1. 0 \in T
  OBVIOUS
<1>2. \A k \in T : k + 1 \in T
  OBVIOUS
<1>3. T = Nat
  <2> HIDE DEF T
  <2>1. T \in SUBSET Nat
    BY DEF T
  <2> QED BY <1>1, <1>2, <2>1, SetInduction
<1> QED BY <1>3

\* The values g of n rounds that begin with base, where round k makes Step[<<k, x>>]
\* of x.
AreRounds(g, n, base, Step) ==
  g = [k \in 0 .. n |-> IF k = 0 THEN base ELSE Step[<<k, g[k - 1]>>]]

\* There are such values, in the set that the rounds do not leave.
LEMMA RoundsExist ==
  ASSUME NEW X, NEW base \in X, NEW n \in Nat, NEW Step \in [(1 .. n) \X X -> X]
  PROVE  \E g \in [0 .. n -> X] : AreRounds(g, n, base, Step)
<1> DEFINE Solves(g, m) == /\ g \in [0 .. m -> X]
                           /\ g[0] = base
                           /\ \A k \in 1 .. m : g[k] = Step[<<k, g[k - 1]>>]
           S == {m \in Nat : m <= n => \E g : Solves(g, m)}
<1>1. 0 \in S
  <2>1. Solves([k \in 0 .. 0 |-> base], 0)
    OBVIOUS
  <2> QED BY <2>1
<1>2. ASSUME NEW m \in S, m + 1 <= n PROVE m + 1 \in S
  <2>1. PICK g : Solves(g, m)
    BY <1>2
  <2> DEFINE h == [k \in 0 .. (m + 1) |-> IF k <= m THEN g[k] ELSE Step[<<m + 1, g[m]>>]]
  <2>2. m \in Nat /\ m + 1 \in 1 .. n /\ g[m] \in X
    BY <1>2, <2>1
  <2>3. Step[<<m + 1, g[m]>>] \in X
    BY <2>2
  <2>4. h \in [0 .. (m + 1) -> X] /\ h[0] = base
    BY <2>1, <2>2, <2>3
  <2>5. ASSUME NEW k \in 1 .. (m + 1) PROVE h[k] = Step[<<k, h[k - 1]>>]
    <3>1. k - 1 \in 0 .. m /\ h[k - 1] = g[k - 1]
      BY <2>2
    <3>2. CASE k <= m
      <4>1. h[k] = g[k] /\ k \in 1 .. m
        BY <2>2, <3>2
      <4> QED BY <2>1, <3>1, <4>1
    <3>3. CASE k = m + 1
      <4>1. h[k] = Step[<<m + 1, g[m]>>] /\ k - 1 = m
        BY <2>2, <3>3
      <4> QED BY <3>1, <3>3, <4>1
    <3> QED BY <2>2, <3>2, <3>3
  <2>6. Solves(h, m + 1)
    BY <2>4, <2>5
  <2> HIDE DEF Solves
  <2> QED BY <2>2, <2>6
<1>3. S = Nat
  <2>1. \A m \in S : m + 1 \in S
    <3>1. ASSUME NEW m \in S, ~ (m + 1 <= n) PROVE m + 1 \in S
      BY <3>1
    <3> HIDE DEF S
    <3> QED BY <1>2, <3>1
  <2>2. S \in SUBSET Nat
    OBVIOUS
  <2> HIDE DEF S
  <2> QED BY <1>1, <2>1, <2>2, SetInduction
<1>4. PICK g : Solves(g, n)
  <2>1. n \in S
    BY <1>3
  <2> QED BY <2>1
<1>5. \A k \in 0 .. n : g[k] = IF k = 0 THEN base ELSE Step[<<k, g[k - 1]>>]
  BY <1>4
<1>6. g = [k \in 0 .. n |-> IF k = 0 THEN base ELSE Step[<<k, g[k - 1]>>]]
  <2>1. g = [k \in 0 .. n |-> g[k]]
    BY <1>4
  <2> QED BY <1>5, <2>1
<1> QED BY <1>4, <1>6 DEF AreRounds

-----------------------------------------------------------------------------

\* A value that is not set has no data; numbers are at least one, and one alone
\* unless they are a list.
Values == {r \in Options :
             /\ r.kind = "none" => r.of = << >>
             /\ r.kind \in Kinds => Len(r.of) > 0 /\ (~ r.list => Len(r.of) = 1)}

Types == /\ option \in [Ids -> Values \cup {Gone}]
         /\ sets \in [Sets -> Seq(Ids)]
         /\ doubled \subseteq Sets

LEMMA NothingIsGone ==
  /\ Gone \notin Ids /\ Gone \notin 1 .. Len(Defaults)
  /\ \A r \in Values : r # Gone /\ Stored(r) # Gone
<1>1. \A r \in Values : r \in Options /\ Stored(r) \in [key : Keys, kind : AllKinds, of : Data,
                                                       flags : SUBSET {"edit", "automatic"}]
  BY DEF Values, Options, Stored
<1> QED BY <1>1, OptionValuesAssumption

\* A value v with the content c and the marks of a value r, or more marks.
LEMMA StoredContent ==
  ASSUME NEW r, NEW v, NEW c, v.key = r.key, v.kind = c.kind, v.of = c.of
  PROVE  /\ v.flags = r.flags => Stored(v) = Store!WithContent(Stored(r), c)
         /\ v.flags = r.flags \cup {"edit"} =>
              Stored(v) = Store!ByHand(Store!WithContent(Stored(r), c))
         /\ v.flags = r.flags \cup {"edit", "automatic"} =>
              Stored(v) = Store!WithFlags(Store!WithContent(Stored(r), c),
                                          Stored(r).flags \cup {"edit", "automatic"})
BY DEF Stored, Store!WithContent, Store!ByHand, Store!WithFlags

-----------------------------------------------------------------------------
(* Setters of one value.                                                      *)

LEMMA EditedValue ==
  ASSUME NEW r \in Values
  PROVE  /\ Edited(r) \in Values
         /\ Edited(r).key = r.key /\ Edited(r).kind = r.kind /\ Edited(r).of = r.of
         /\ Edited(r).flags = r.flags \cup {"edit"}
BY DEF Edited, Values, Options

LEMMA TextValue ==
  ASSUME NEW r \in Values, NEW t \in Texts \cup Rules
  PROVE  /\ TextSet(r, t) \in Values
         /\ TextSet(r, t).key = r.key
         /\ TextSet(r, t).kind = "text" /\ TextSet(r, t).of = <<t>>
         /\ TextSet(r, t).flags = r.flags \cup {"edit"}
<1> DEFINE u == [r EXCEPT !.kind = "text", !.list = FALSE, !.of = <<t>>]
<1>1. <<t>> \in Data /\ "text" \in AllKinds /\ "text" \notin Kinds
  BY OptionValuesAssumption DEF Data, AllKinds
<1>2. u \in Values /\ u.key = r.key /\ u.kind = "text" /\ u.of = <<t>> /\ u.flags = r.flags
  BY <1>1 DEF Values, Options
<1>3. TextSet(r, t) = Edited(u)
  BY DEF TextSet
<1> HIDE DEF u
<1> QED BY <1>2, <1>3, EditedValue

LEMMA ObjectValue ==
  ASSUME NEW r \in Values, NEW x \in Objects
  PROVE  /\ ObjectIn(r, x) \in Values
         /\ ObjectIn(r, x).key = r.key
         /\ ObjectIn(r, x).kind = "object" /\ ObjectIn(r, x).of = <<x>>
         /\ ObjectIn(r, x).flags = r.flags
<1>1. <<x>> \in Data /\ "object" \in AllKinds /\ "object" \notin Kinds
  BY OptionValuesAssumption DEF Data, AllKinds
<1> QED BY <1>1 DEF ObjectIn, Values, Options

LEMMA DataValue ==
  ASSUME NEW r \in Values, NEW x \in Objects
  PROVE  /\ DataSet(r, x) \in Values
         /\ DataSet(r, x).key = r.key
         /\ DataSet(r, x).kind = "object" /\ DataSet(r, x).of = <<x>>
         /\ DataSet(r, x) = r \/ DataSet(r, x).flags = r.flags \cup {"edit"}
<1> DEFINE u == ObjectIn(r, x)
<1>1. u \in Values /\ u.key = r.key /\ u.kind = "object" /\ u.of = <<x>> /\ u.flags = r.flags
  BY ObjectValue
<1> HIDE DEF u
<1>2. /\ Edited(u) \in Values /\ Edited(u).key = r.key
      /\ Edited(u).kind = "object" /\ Edited(u).of = <<x>>
      /\ Edited(u).flags = r.flags \cup {"edit"}
  BY <1>1, EditedValue
<1>3. DataSet(r, x) = IF r.kind = "object" /\ r.of = <<x>> THEN r ELSE Edited(u)
  BY DEF DataSet, u
<1> QED BY <1>2, <1>3

LEMMA GrownValue ==
  ASSUME NEW r \in Values, NEW kind \in Kinds, NEW pos \in Nat
  PROVE  LET old == IF r.kind = kind THEN r.of ELSE << >>
         IN  /\ Grow(r, kind, pos) \in Values
             /\ Grow(r, kind, pos).key = r.key /\ Grow(r, kind, pos).kind = kind
             /\ Grow(r, kind, pos).flags = r.flags
             /\ Len(Grow(r, kind, pos).of) = pos + 1
             /\ \A i \in 1 .. pos + 1 :
                  Grow(r, kind, pos).of[i] = IF i <= Len(old) THEN old[i] ELSE 0
<1> DEFINE E   == Texts \cup Rules \cup Objects \cup Nat
           old == IF r.kind = kind THEN r.of ELSE << >>
           new == [i \in 1 .. pos + 1 |-> IF i <= Len(old) THEN old[i] ELSE 0]
<1>1. r.of \in Seq(E) /\ << >> \in Seq(E) /\ kind \in AllKinds /\ 0 \in E
  BY DEF Values, Options, Data, AllKinds
<1>2. old \in Seq(E)
  BY <1>1
<1> HIDE DEF E, old
<1>3. \A i \in 1 .. Len(old) : old[i] \in E
  BY <1>2, ElementOfSeq
<1>4. \A i \in 1 .. pos + 1 : new[i] \in E
  <2>1. Len(old) \in Nat
    BY <1>2, LenProperties
  <2> QED BY <1>1, <1>3, <2>1
<1>5. new \in Seq(E) /\ Len(new) = pos + 1
  <2>1. new \in [1 .. pos + 1 -> E] /\ pos + 1 \in Nat
    BY <1>4
  <2> HIDE DEF new
  <2>2. new \in Seq(E)
    BY <2>1
  <2> QED BY <2>1, <2>2, LenProperties
<1>6. new \in Data
  BY <1>5 DEF Data, E
<1>7. Grow(r, kind, pos) = [r EXCEPT !.kind = kind, !.list = TRUE, !.of = new]
  BY DEF Grow, old
<1>8. \A i \in 1 .. pos + 1 : new[i] = IF i <= Len(old) THEN old[i] ELSE 0
  OBVIOUS
<1>9. kind # "none"
  BY OptionValuesAssumption
<1> HIDE DEF new
<1>10. /\ Grow(r, kind, pos) \in Values /\ Grow(r, kind, pos).key = r.key
       /\ Grow(r, kind, pos).kind = kind /\ Grow(r, kind, pos).of = new
       /\ Grow(r, kind, pos).flags = r.flags
  <2> DEFINE g == Grow(r, kind, pos)
  <2>1. r \in Options
    BY DEF Values
  <2>2. /\ g \in Options /\ g.key = r.key /\ g.kind = kind /\ g.list = TRUE /\ g.of = new
        /\ g.flags = r.flags
    BY <1>1, <1>6, <1>7, <2>1 DEF Options
  <2> HIDE DEF g
  <2>3. Len(g.of) > 0
    BY <1>5, <2>2
  <2>4. g \in Values
    BY <1>9, <2>2, <2>3 DEF Values
  <2> QED BY <2>2, <2>4 DEF g
<1> QED BY <1>5, <1>8, <1>10 DEF old

\* What oyOption_SetFromInt() writes is what the store calls a number at a position.
LEMMA NumberValue ==
  ASSUME NEW r \in Values, NEW kind \in Kinds, NEW pos \in Nat, NEW n \in Nat
  PROVE  LET v == NumberSet(r, kind, pos, n)
         IN  \/ v = Gone /\ r.kind # "none"
             \/ /\ v \in Values /\ v.key = r.key
                /\ Stored(v) = Store!ByHand(Store!PutAt(Stored(r), kind, pos, n))
<1> DEFINE E     == Texts \cup Rules \cup Objects \cup Nat
           old   == IF r.kind = kind THEN r.of ELSE << >>
           len   == IF pos < Len(old) THEN Len(old) ELSE pos + 1
           grown == IF pos > 0 /\ ~(r.kind = kind /\ r.list /\ pos < Len(r.of))
                    THEN Grow(r, kind, pos)
                    ELSE IF r.kind = "none" THEN [r EXCEPT !.kind = kind, !.of = <<0>>] ELSE r
           v     == NumberSet(r, kind, pos, n)
           Right(g) == /\ g \in Values /\ g.key = r.key /\ g.kind = kind /\ g.flags = r.flags
                       /\ Len(g.of) = len
                       /\ \A i \in 1 .. len : g.of[i] = IF i <= Len(old) THEN old[i] ELSE 0
<1>1. /\ r.kind \in AllKinds /\ r.of \in Seq(E) /\ Len(r.of) \in Nat
      /\ r.kind = "none" => r.of = << >>
      /\ r.kind \in Kinds => Len(r.of) > 0 /\ (~ r.list => Len(r.of) = 1)
  BY DEF Values, Options, Data
<1>2. kind # "none" /\ Len(old) \in Nat /\ len \in Nat
  <2>1. kind # "none" /\ Len(<< >>) = 0
    BY OptionValuesAssumption
  <2> QED BY <1>1, <2>1
<1>3. v = IF grown.kind # kind THEN Gone ELSE Edited([grown EXCEPT !.of[pos + 1] = n])
  BY DEF NumberSet
<1>4. grown.kind = kind => Right(grown)
  <2>1. CASE pos > 0 /\ ~(r.kind = kind /\ r.list /\ pos < Len(r.of))
    <3> DEFINE g == Grow(r, kind, pos)
    <3>1. /\ g \in Values /\ g.key = r.key /\ g.kind = kind /\ Len(g.of) = pos + 1
          /\ g.flags = r.flags
          /\ \A i \in 1 .. pos + 1 : g.of[i] = IF i <= Len(old) THEN old[i] ELSE 0
      BY GrownValue
    <3>2. len = pos + 1
      <4>1. CASE r.kind = kind
        <5>1. old = r.of /\ Len(r.of) <= pos
          <6>1. r.list => ~ pos < Len(r.of)
            BY <2>1, <4>1
          <6>2. ~ r.list => Len(r.of) = 1 /\ pos > 0
            BY <1>1, <2>1, <4>1
          <6>3. Len(r.of) \in Nat
            BY <1>1
          <6>4. Len(r.of) <= pos
            <7>1. CASE r.list
              BY <6>1, <6>3, <7>1
            <7>2. CASE ~ r.list
              <8>1. Len(r.of) = 1 /\ pos > 0
                BY <6>2, <7>2, Zenon
              <8> QED BY <8>1
            <7> QED BY <7>1, <7>2
          <6> QED BY <4>1, <6>4
        <5> HIDE DEF old
        <5> QED BY <1>1, <5>1
      <4>2. CASE r.kind # kind
        <5>1. old = << >> /\ Len(<< >>) = 0
          BY <4>2
        <5> HIDE DEF old
        <5> QED BY <5>1
      <4> QED BY <4>1, <4>2
    <3>3. grown = g
      BY <2>1
    <3> HIDE DEF g, grown, old, len
    <3> QED BY <3>1, <3>2, <3>3
  <2>2. CASE ~(pos > 0 /\ ~(r.kind = kind /\ r.list /\ pos < Len(r.of))) /\ r.kind = "none"
    <3> DEFINE g == [r EXCEPT !.kind = kind, !.of = <<0>>]
    <3>1. old = << >> /\ pos = 0 /\ len = 1
      BY <1>2, <2>2
    <3>2. r \in Options /\ kind \in AllKinds /\ <<0>> \in Data
      BY DEF Values, AllKinds, Data
    <3>3. /\ g \in Options /\ g.key = r.key /\ g.kind = kind /\ g.of = <<0>> /\ Len(<<0>>) = 1
          /\ g.flags = r.flags
      BY <3>2 DEF Options
    <3>4. grown = g
      BY <2>2
    <3> HIDE DEF g, grown, old, len
    <3>5. g \in Values
      <4>1. Len(g.of) = 1
        BY <3>3
      <4>2. g.kind # "none"
        BY <1>2, <3>3
      <4>3. Len(g.of) > 0
        BY <4>1
      <4> QED BY <3>3, <4>1, <4>2, <4>3 DEF Values
    <3>6. g.of[1] = 0 /\ Len(g.of) = 1 /\ Len(old) = 0
      BY <3>1, <3>3
    <3>7. \A i \in 1 .. len : g.of[i] = IF i <= Len(old) THEN old[i] ELSE 0
      BY <3>1, <3>6
    <3>8. Right(g)
      BY <3>1, <3>3, <3>5, <3>6, <3>7
    <3> QED BY <3>4, <3>8
  <2>3. CASE ~(pos > 0 /\ ~(r.kind = kind /\ r.list /\ pos < Len(r.of))) /\ r.kind # "none"
    <3>1. grown = r
      BY <2>3
    <3>2. ASSUME r.kind = kind PROVE old = r.of /\ len = Len(r.of)
      BY <1>1, <2>3, <3>2
    <3> HIDE DEF grown, old, len
    <3> QED BY <3>1, <3>2
  <2> QED BY <2>1, <2>2, <2>3
<1>5. CASE grown.kind # kind
  <2>1. v = Gone
    BY <1>3, <1>5
  <2>2. ASSUME r.kind = "none" PROVE grown.kind = kind
    <3>1. CASE pos > 0
      <4>1. grown = Grow(r, kind, pos)
        BY <1>2, <2>2, <3>1
      <4> HIDE DEF grown
      <4> QED BY <4>1, GrownValue
    <3>2. CASE ~ pos > 0
      <4>1. grown = [r EXCEPT !.kind = kind, !.of = <<0>>]
        BY <2>2, <3>2
      <4> HIDE DEF grown
      <4> QED BY <4>1 DEF Values, Options
    <3> QED BY <3>1, <3>2
  <2> QED BY <1>5, <2>1, <2>2
<1>6. CASE grown.kind = kind
  <2> DEFINE w == [grown EXCEPT !.of[pos + 1] = n]
             new == [i \in 1 .. len |-> IF i = pos + 1 THEN n
                                       ELSE IF i <= Len(old) THEN old[i] ELSE 0]
  <2>1. Right(grown) /\ v = Edited(w)
    BY <1>3, <1>4, <1>6
  <2>2. pos + 1 \in 1 .. len
    BY <1>2
  <2> HIDE DEF grown, old, len
  <2>3. grown.of \in Seq(E) /\ n \in E
    BY <2>1 DEF Values, Options, Data
  <2>4. w.of = [grown.of EXCEPT ![pos + 1] = n]
    BY <2>1 DEF Values, Options
  <2>5. w.of \in Seq(E) /\ Len(w.of) = len /\ w.of = new
    <3>1. grown.of \in [1 .. len -> E]
      BY <2>1, <2>3
    <3>2. w.of \in [1 .. len -> E]
      BY <2>3, <2>4, <3>1
    <3>3. w.of = new
      BY <2>1, <2>4, <3>1
    <3> HIDE DEF w, E, new
    <3>4. w.of \in Seq(E)
      BY <1>2, <3>2
    <3> QED BY <1>2, <3>2, <3>3, <3>4, LenProperties
  <2>6. /\ w.key = grown.key /\ w.kind = grown.kind /\ w.list = grown.list
        /\ w.flags = grown.flags /\ w \in Options
    BY <2>1, <2>4, <2>5 DEF Values, Options, Data
  <2>7. w \in Values
    <3>1. grown.list \/ Len(grown.of) = 1
      BY <2>1 DEF Values
    <3> HIDE DEF w
    <3> QED BY <1>2, <2>1, <2>2, <2>5, <2>6, <3>1 DEF Values
  <2> HIDE DEF w
  <2>8. /\ v \in Values /\ v.key = r.key /\ v.kind = kind /\ v.of = new
        /\ v.flags = r.flags \cup {"edit"}
    BY <2>1, <2>5, <2>6, <2>7, EditedValue
  <2>9. Store!PutAt(Stored(r), kind, pos, n) = Store!WithContent(Stored(r), [kind |-> kind, of |-> new])
    BY DEF Store!PutAt, Stored, old, len
  <2> HIDE DEF v, new
  <2> DEFINE c == [kind |-> kind, of |-> new]
  <2>10. c.kind = kind /\ c.of = new /\ Store!PutAt(Stored(r), kind, pos, n) = Store!WithContent(Stored(r), c)
    BY <2>9
  <2> HIDE DEF c
  <2>11. Stored(v) = Store!ByHand(Store!WithContent(Stored(r), c))
    BY <2>8, <2>10, StoredContent
  <2> QED BY <2>8, <2>10, <2>11 DEF v
<1> QED BY <1>5, <1>6

-----------------------------------------------------------------------------
(* Keys of a set.                                                             *)

\* oyOptions_Find() finds an option of the key if there is one.
LEMMA FindProperties ==
  ASSUME NEW I, Gone \notin I, NEW list \in Seq(I), NEW heap, NEW k
  PROVE  \/ /\ FindIn(heap, list, k) = Gone
            /\ \A i \in 1 .. Len(list) : heap[list[i]].key # k
         \/ /\ FindIn(heap, list, k) \in I /\ FindIn(heap, list, k) # Gone
            /\ heap[FindIn(heap, list, k)].key = k
            /\ \E i \in 1 .. Len(list) : FindIn(heap, list, k) = list[i]
<1> DEFINE at == {i \in DOMAIN list : heap[list[i]].key = k}
           i == CHOOSE i \in at : \A j \in at : i <= j
<1>1. Len(list) \in Nat /\ DOMAIN list = 1 .. Len(list) /\ \A j \in 1 .. Len(list) : list[j] \in I
  BY ElementOfSeq, LenProperties
<1>2. FindIn(heap, list, k) = IF at = {} THEN Gone ELSE list[i]
  BY DEF FindIn
<1>3. CASE at = {}
  BY <1>1, <1>2, <1>3
<1>4. CASE at # {}
  <2>1. at \in SUBSET Nat
    BY <1>1
  <2>2. \E j \in at : \A h \in at : j <= h
    <3> HIDE DEF at
    <3>1. PICK j \in at : \A h \in at : ~ (<<h, j>> \in {p \in Nat \X Nat : p[1] < p[2]})
      BY <1>4, <2>1, NatIsWellFounded, WFMin
    <3>2. ASSUME NEW h \in at PROVE j <= h
      <4>1. h \in Nat /\ j \in Nat
        BY <2>1
      <4>2. ~ (h < j)
        BY <3>1, <4>1
      <4> QED BY <4>1, <4>2
    <3> QED BY <3>2
  <2>3. i \in at
    <3> HIDE DEF at
    <3> QED BY <2>2
  <2>4. i \in 1 .. Len(list) /\ heap[list[i]].key = k
    BY <1>1, <2>3
  <2>5. FindIn(heap, list, k) = list[i]
    BY <1>2, <1>4
  <2> HIDE DEF at, i
  <2>6. list[i] \in I
    BY <1>1, <2>4
  <2> QED BY <2>4, <2>5, <2>6
<1> QED BY <1>3, <1>4

LEMMA FindOption ==
  ASSUME Types, NEW s \in Sets, NEW k
  PROVE  \/ /\ Find(s, k) = Gone
            /\ \A i \in 1 .. Len(sets[s]) : option[sets[s][i]].key # k
         \/ /\ Find(s, k) \in Ids /\ Find(s, k) # Gone
            /\ option[Find(s, k)].key = k
            /\ \E i \in 1 .. Len(sets[s]) : Find(s, k) = sets[s][i]
<1>1. sets[s] \in Seq(Ids) /\ Gone \notin Ids
  BY NothingIsGone DEF Types
<1> QED BY <1>1, FindProperties DEF Find

OneKeyEach(heap, list) ==
  \A i, j \in 1 .. Len(list) : heap[list[i]].key = heap[list[j]].key => i = j

\* Nobody lists what is gone, and a set that looks for keys has each of them once.
KeysInv ==
  /\ Types
  /\ \A s \in Sets : \A i \in 1 .. Len(sets[s]) : option[sets[s][i]] # Gone
  /\ \A s \in Sets \ doubled : OneKeyEach(option, sets[s])

\* Options that exist go on to exist under their key.
KeepsKeys ==
  \A o \in Ids : option[o] # Gone => option'[o] # Gone /\ option'[o].key = option[o].key

LEMMA Listed ==
  ASSUME KeysInv, NEW s \in Sets
  PROVE  /\ sets[s] \in Seq(Ids) /\ Len(sets[s]) \in Nat
         /\ \A i \in 1 .. Len(sets[s]) : /\ sets[s][i] \in Ids
                                         /\ option[sets[s][i]] \in Values
                                         /\ option[sets[s][i]] # Gone
<1>1. sets[s] \in Seq(Ids)
  BY DEF KeysInv, Types
<1>2. \A i \in 1 .. Len(sets[s]) : sets[s][i] \in Ids
  BY <1>1, ElementOfSeq
<1> QED BY <1>1, <1>2, LenProperties DEF KeysInv, Types

LEMMA KeysStay ==
  ASSUME KeysInv, Types', sets' = sets, doubled \subseteq doubled', KeepsKeys
  PROVE  KeysInv'
<1>1. ASSUME NEW s \in Sets, NEW i \in 1 .. Len(sets[s])
      PROVE  option'[sets[s][i]] # Gone /\ option'[sets[s][i]].key = option[sets[s][i]].key
  BY Listed DEF KeepsKeys
<1>2. ASSUME NEW s \in Sets \ doubled' PROVE OneKeyEach(option', sets[s])
  <2>1. OneKeyEach(option, sets[s])
    BY DEF KeysInv
  <2> QED BY <1>1, <2>1 DEF OneKeyEach
<1> QED BY <1>1, <1>2 DEF KeysInv

LEMMA KeysGrow ==
  ASSUME KeysInv, Types', KeepsKeys, doubled \subseteq doubled',
         NEW s \in Sets, NEW o \in Ids, option'[o] # Gone,
         sets' = [sets EXCEPT ![s] = Append(@, o)],
         s \in doubled' \/ \A i \in 1 .. Len(sets[s]) : option[sets[s][i]].key # option'[o].key
  PROVE  KeysInv'
<1>1. ASSUME NEW u \in Sets, NEW i \in 1 .. Len(sets[u])
      PROVE  option'[sets[u][i]] # Gone /\ option'[sets[u][i]].key = option[sets[u][i]].key
  BY Listed DEF KeepsKeys
<1>2. /\ sets[s] \in Seq(Ids) /\ Len(sets[s]) \in Nat
      /\ sets'[s] = Append(sets[s], o)
      /\ \A u \in Sets : u # s => sets'[u] = sets[u]
  BY Listed DEF KeysInv, Types
<1>3. /\ Len(sets'[s]) = Len(sets[s]) + 1
      /\ \A i \in 1 .. Len(sets[s]) : sets'[s][i] = sets[s][i]
      /\ sets'[s][Len(sets[s]) + 1] = o
  BY <1>2, AppendProperties
<1>4. \A i \in 1 .. Len(sets'[s]) : i \in 1 .. Len(sets[s]) \/ i = Len(sets[s]) + 1
  BY <1>2, <1>3
<1>5. ASSUME NEW u \in Sets, NEW i \in 1 .. Len(sets'[u]) PROVE option'[sets'[u][i]] # Gone
  <2>1. CASE u = s
    BY <1>1, <1>3, <1>4, <2>1
  <2>2. CASE u # s
    BY <1>1, <1>2, <2>2
  <2> QED BY <2>1, <2>2
<1>6. ASSUME NEW u \in Sets \ doubled' PROVE OneKeyEach(option', sets'[u])
  <2>1. OneKeyEach(option, sets[u])
    BY DEF KeysInv
  <2>2. CASE u # s
    BY <1>1, <1>2, <2>1, <2>2 DEF OneKeyEach
  <2>3. CASE u = s
    <3> SUFFICES ASSUME NEW i \in 1 .. Len(sets'[s]), NEW j \in 1 .. Len(sets'[s]),
                        option'[sets'[s][i]].key = option'[sets'[s][j]].key
                 PROVE  i = j
      BY <2>3 DEF OneKeyEach
    <3>1. \A h \in 1 .. Len(sets[s]) : /\ option'[sets'[s][h]].key = option[sets[s][h]].key
                                       /\ option[sets[s][h]].key # option'[o].key
      BY <1>1, <1>3, <2>3
    <3>2. CASE i \in 1 .. Len(sets[s]) /\ j \in 1 .. Len(sets[s])
      BY <2>1, <2>3, <3>1, <3>2 DEF OneKeyEach
    <3>3. CASE ~ (i \in 1 .. Len(sets[s]) /\ j \in 1 .. Len(sets[s]))
      BY <1>3, <1>4, <3>1, <3>3
    <3> QED BY <3>2, <3>3
  <2> QED BY <2>2, <2>3
<1> QED BY <1>5, <1>6 DEF KeysInv

\* One option changes,
LEMMA KeysSetOne ==
  ASSUME KeysInv, NEW f \in Ids, option[f] # Gone, NEW r \in Values, r.key = option[f].key,
         option' = [option EXCEPT ![f] = r], sets' = sets, doubled' = doubled
  PROVE  KeysInv'
<1>1. Types'
  BY DEF KeysInv, Types
<1>2. KeepsKeys
  BY NothingIsGone DEF KeepsKeys, KeysInv, Types
<1> QED BY <1>1, <1>2, KeysStay

\* or is new.
LEMMA KeysNew ==
  ASSUME KeysInv, NEW s \in Sets, NEW r \in Values, New(s, r),
         doubled \subseteq doubled', doubled' \subseteq Sets,
         s \in doubled' \/ Find(s, r.key) = Gone
  PROVE  KeysInv'
<1>1. PICK o \in Ids : /\ option[o] = Gone
                       /\ option' = [option EXCEPT ![o] = r]
                       /\ sets' = [sets EXCEPT ![s] = Append(@, o)]
  BY DEF New, Free, Append1
<1>2. Types'
  <2>1. Append(sets[s], o) \in Seq(Ids)
    BY Listed, AppendProperties
  <2> QED BY <1>1, <2>1 DEF KeysInv, Types
<1>3. KeepsKeys /\ option'[o] = r /\ r # Gone
  BY <1>1, NothingIsGone DEF KeepsKeys, KeysInv, Types
<1>4. s \in doubled' \/ \A i \in 1 .. Len(sets[s]) : option[sets[s][i]].key # option'[o].key
  BY <1>3, FindOption DEF KeysInv
<1> QED BY <1>1, <1>2, <1>3, <1>4, KeysGrow

\* An option that exists enters a set that has none of its key.
LEMMA KeysShare ==
  ASSUME KeysInv, NEW s \in Sets, NEW o \in Ids, option[o] # Gone, Append1(s, o),
         option' = option, doubled' = doubled, Find(s, option[o].key) = Gone
  PROVE  KeysInv'
<1>1. Types'
  <2>1. Append(sets[s], o) \in Seq(Ids)
    BY Listed, AppendProperties
  <2> QED BY <2>1 DEF KeysInv, Types, Append1
<1>2. KeepsKeys
  BY DEF KeepsKeys
<1>3. \A i \in 1 .. Len(sets[s]) : option[sets[s][i]].key # option[o].key
  BY FindOption DEF KeysInv
<1> QED BY <1>1, <1>2, <1>3, KeysGrow DEF Append1

-----------------------------------------------------------------------------
(* Setters and merges.                                                        *)

LEMMA BlankIsValue ==
  \A k \in Keys : /\ Blank(k) \in Values /\ Blank(k).key = k
                  /\ Blank(k).kind = "none" /\ Blank(k).of = << >> /\ Blank(k).flags = {}
<1> SUFFICES ASSUME NEW k \in Keys
             PROVE  /\ Blank(k) \in Values /\ Blank(k).key = k
                    /\ Blank(k).kind = "none" /\ Blank(k).of = << >> /\ Blank(k).flags = {}
  OBVIOUS
<1>1. "none" \in AllKinds /\ << >> \in Data /\ "none" \notin Kinds
  BY OptionValuesAssumption DEF AllKinds, Data
<1> QED BY <1>1 DEF Blank, Values, Options

\* A setter of a set for a key, which makes one option or the other.
SetsTo(s, k, flag, made, changed) ==
  LET f == Find(s, k)
  IN  IF flag = "add_always" \/ (f = Gone /\ flag = "create_new")
      THEN /\ New(s, made)
           /\ doubled' = IF flag = "add_always" THEN doubled \cup {s} ELSE doubled
           /\ UNCHANGED down
      ELSE /\ f # Gone
           /\ IF changed = Gone THEN down' = TRUE /\ UNCHANGED option
              ELSE option' = [option EXCEPT ![f] = changed] /\ UNCHANGED down
           /\ UNCHANGED <<sets, doubled>>

LEMMA SettersSet ==
  ASSUME NEW s, NEW k, NEW flag
  PROVE  /\ SetFromNumber(s, k, flag) =>
              \E kind \in Kinds, pos \in Positions, n \in Numbers :
                SetsTo(s, k, flag, NumberSet(Blank(k), kind, pos, n),
                       NumberSet(option[Find(s, k)], kind, pos, n))
         /\ SetFromString(s, k, flag) =>
              \E t \in Texts :
                SetsTo(s, k, flag, TextSet(Blank(k), t), TextSet(option[Find(s, k)], t))
         /\ MoveInStruct(s, k, flag) =>
              \E x \in Objects :
                SetsTo(s, k, flag, ObjectIn(Blank(k), x), ObjectIn(option[Find(s, k)], x))
         /\ SetFromData(s, k, flag) =>
              \E x \in Objects :
                SetsTo(s, k, flag, DataSet(Blank(k), x), DataSet(option[Find(s, k)], x))
BY DEF SetFromNumber, SetFromString, MoveInStruct, SetFromData, SetFrom, SetsTo

LEMMA KeysSetsTo ==
  ASSUME KeysInv, NEW s \in Sets, NEW k \in Keys, NEW flag,
         NEW made \in Values, made.key = k, NEW changed,
         Find(s, k) # Gone => \/ changed = Gone
                              \/ changed \in Values /\ changed.key = option[Find(s, k)].key,
         SetsTo(s, k, flag, made, changed)
  PROVE  KeysInv'
<1> DEFINE f == Find(s, k)
<1>1. CASE flag = "add_always" \/ (f = Gone /\ flag = "create_new")
  <2>1. /\ New(s, made)
        /\ doubled' = IF flag = "add_always" THEN doubled \cup {s} ELSE doubled
    BY <1>1 DEF SetsTo
  <2>2. doubled \subseteq doubled' /\ doubled' \subseteq Sets
    BY <2>1 DEF KeysInv, Types
  <2>3. s \in doubled' \/ f = Gone
    BY <1>1, <2>1
  <2> QED BY <2>1, <2>2, <2>3, KeysNew
<1>2. CASE ~ (flag = "add_always" \/ (f = Gone /\ flag = "create_new"))
  <2>1. /\ f # Gone /\ sets' = sets /\ doubled' = doubled
        /\ \/ option' = option
           \/ changed # Gone /\ option' = [option EXCEPT ![f] = changed]
    BY <1>2 DEF SetsTo
  <2>2. f \in Ids /\ option[f] # Gone
    <3>1. f \in Ids /\ \E i \in 1 .. Len(sets[s]) : f = sets[s][i]
      BY <2>1, FindOption DEF KeysInv
    <3> QED BY <3>1, Listed
  <2>3. CASE option' = option
    BY <2>1, <2>3, KeysStay DEF KeepsKeys, KeysInv, Types
  <2>4. CASE changed # Gone /\ option' = [option EXCEPT ![f] = changed]
    <3>1. changed \in Values /\ changed.key = option[f].key
      BY <2>1, <2>4
    <3> HIDE DEF f
    <3> QED BY <2>1, <2>2, <2>4, <3>1, KeysSetOne
  <2> QED BY <2>1, <2>3, <2>4
<1> QED BY <1>1, <1>2

\* What is found is an option.
LEMMA FoundValue ==
  ASSUME KeysInv, NEW s \in Sets, NEW k, Find(s, k) # Gone
  PROVE  /\ Find(s, k) \in Ids /\ option[Find(s, k)] \in Values
         /\ option[Find(s, k)] # Gone /\ option[Find(s, k)].key = k
<1>1. /\ Find(s, k) \in Ids /\ option[Find(s, k)].key = k
      /\ \E i \in 1 .. Len(sets[s]) : Find(s, k) = sets[s][i]
  BY FindOption DEF KeysInv
<1> QED BY <1>1, Listed

LEMMA KeysSetters ==
  ASSUME KeysInv, NEW s \in Sets, NEW k \in Keys, NEW flag,
         \/ SetFromNumber(s, k, flag) \/ SetFromString(s, k, flag)
         \/ MoveInStruct(s, k, flag) \/ SetFromData(s, k, flag)
  PROVE  KeysInv'
<1> DEFINE r == option[Find(s, k)]
           b == Blank(k)
<1>1. b \in Values /\ b.key = k /\ b.kind = "none"
  BY BlankIsValue
<1>2. Find(s, k) # Gone => r \in Values
  BY FoundValue
<1> HIDE DEF r, b
<1>3. CASE SetFromNumber(s, k, flag)
  <2>1. PICK kind \in Kinds, pos \in Positions, n \in Numbers :
          SetsTo(s, k, flag, NumberSet(b, kind, pos, n), NumberSet(r, kind, pos, n))
    BY <1>3, SettersSet DEF r, b
  <2>2. pos \in Nat /\ n \in Nat
    BY OptionValuesAssumption
  <2> DEFINE made == NumberSet(b, kind, pos, n)
             changed == NumberSet(r, kind, pos, n)
  <2>3. made \in Values /\ made.key = k
    BY <1>1, <2>2, NumberValue
  <2>4. ASSUME Find(s, k) # Gone
        PROVE  changed = Gone \/ (changed \in Values /\ changed.key = r.key)
    <3>1. r \in Values
      BY <1>2, <2>4
    <3>2. \/ changed = Gone /\ r.kind # "none"
          \/ /\ changed \in Values /\ changed.key = r.key
             /\ Stored(changed) = Store!ByHand(Store!PutAt(Stored(r), kind, pos, n))
      BY <2>2, <3>1, NumberValue, Zenon
    <3> HIDE DEF changed
    <3> QED BY <3>2
  <2> HIDE DEF made, changed
  <2> QED BY <2>1, <2>3, <2>4, KeysSetsTo DEF made, changed, r
<1>4. CASE SetFromString(s, k, flag)
  <2>1. PICK t \in Texts : SetsTo(s, k, flag, TextSet(b, t), TextSet(r, t))
    BY <1>4, SettersSet DEF r, b
  <2> DEFINE made == TextSet(b, t)
             changed == TextSet(r, t)
  <2>2. made \in Values /\ made.key = k
    BY <1>1, TextValue
  <2>3. Find(s, k) # Gone => changed \in Values /\ changed.key = r.key
    BY <1>2, TextValue
  <2> HIDE DEF made, changed
  <2> QED BY <2>1, <2>2, <2>3, KeysSetsTo DEF made, changed, r
<1>5. CASE MoveInStruct(s, k, flag)
  <2>1. PICK x \in Objects : SetsTo(s, k, flag, ObjectIn(b, x), ObjectIn(r, x))
    BY <1>5, SettersSet DEF r, b
  <2> DEFINE made == ObjectIn(b, x)
             changed == ObjectIn(r, x)
  <2>2. made \in Values /\ made.key = k
    BY <1>1, ObjectValue
  <2>3. Find(s, k) # Gone => changed \in Values /\ changed.key = r.key
    BY <1>2, ObjectValue
  <2> HIDE DEF made, changed
  <2> QED BY <2>1, <2>2, <2>3, KeysSetsTo DEF made, changed, r
<1>6. CASE SetFromData(s, k, flag)
  <2>1. PICK x \in Objects : SetsTo(s, k, flag, DataSet(b, x), DataSet(r, x))
    BY <1>6, SettersSet DEF r, b
  <2> DEFINE made == DataSet(b, x)
             changed == DataSet(r, x)
  <2>2. made \in Values /\ made.key = k
    BY <1>1, DataValue
  <2>3. Find(s, k) # Gone => changed \in Values /\ changed.key = r.key
    BY <1>2, DataValue
  <2> HIDE DEF made, changed
  <2> QED BY <2>1, <2>2, <2>3, KeysSetsTo DEF made, changed, r
<1> QED BY <1>3, <1>4, <1>5, <1>6

\* oyOptions_Add() and oyOptions_Set() for an option that exists: the set gets a
\* copy or the option itself, or an option of the same key becomes like it, if
\* oyOptions_Add() prefers it.
LEMMA AddCases ==
  ASSUME KeysInv, NEW s \in Sets, NEW o \in Held, NEW object, Add(s, o, object)
  PROVE  /\ doubled' = doubled
         /\ \/ New(s, option[o]) /\ Find(s, option[o].key) = Gone
            \/ Append1(s, o) /\ option' = option /\ Find(s, option[o].key) = Gone
            \/ /\ sets' = sets
               /\ \E f \in Ids : /\ option[f] # Gone /\ option[f].key = option[o].key
                                 /\ Prefers(option[o], option[f])
                                 /\ option' = [option EXCEPT ![f] = option[o]]
            \/ sets' = sets /\ option' = option
<1> DEFINE f  == Find(s, option[o].key)
           st == [heap |-> option, list |-> sets[s]]
<1>1. f # Gone => f \in Ids /\ option[f] # Gone /\ option[f].key = option[o].key
  BY FoundValue
<1>2. sets \in [Sets -> Seq(Ids)] /\ option \in [Ids -> Values \cup {Gone}]
  BY DEF KeysInv, Types
<1>3. CASE object /\ f = Gone
  BY <1>3 DEF Add
<1>4. CASE ~ (object /\ f = Gone)
  <2>1. /\ option' = AddTo(st, o).heap /\ sets' = [sets EXCEPT ![s] = AddTo(st, o).list]
        /\ doubled' = doubled
    BY <1>4 DEF Add
  <2>2. AddTo(st, o) = IF f = Gone THEN [st EXCEPT !.list = Append(@, o)]
                       ELSE IF Prefers(option[o], option[f]) THEN [st EXCEPT !.heap[f] = option[o]]
                       ELSE st
    BY DEF AddTo, Find
  <2>3. CASE f = Gone
    <3>1. option' = option /\ sets' = [sets EXCEPT ![s] = Append(sets[s], o)]
      BY <2>1, <2>2, <2>3
    <3>2. Append1(s, o)
      BY <3>1 DEF Append1
    <3> QED BY <2>1, <2>3, <3>1, <3>2
  <2>4. CASE f # Gone /\ Prefers(option[o], option[f])
    <3>1. option' = [option EXCEPT ![f] = option[o]] /\ sets' = [sets EXCEPT ![s] = sets[s]]
      BY <2>1, <2>2, <2>4
    <3>2. sets' = sets
      BY <1>2, <3>1
    <3> QED BY <1>1, <2>1, <2>4, <3>1, <3>2
  <2>5. CASE f # Gone /\ ~ Prefers(option[o], option[f])
    <3>1. AddTo(st, o) = st
      BY <2>2, <2>5
    <3>2. AddTo(st, o).heap = option /\ AddTo(st, o).list = sets[s]
      BY <3>1
    <3>3. option' = option /\ sets' = [sets EXCEPT ![s] = sets[s]]
      BY <2>1, <3>2
    <3>4. sets' = sets
      BY <1>2, <3>3
    <3> QED BY <2>1, <3>3, <3>4
  <2> QED BY <2>3, <2>4, <2>5
<1> QED BY <1>3, <1>4

LEMMA MergeCases ==
  ASSUME KeysInv, NEW s \in Sets, NEW o \in Held, NEW object, Add(s, o, object) \/ Set(s, o, object)
  PROVE  /\ doubled' = doubled
         /\ \/ New(s, option[o]) /\ Find(s, option[o].key) = Gone
            \/ Append1(s, o) /\ option' = option /\ Find(s, option[o].key) = Gone
            \/ /\ sets' = sets
               /\ \E f \in Ids : /\ option[f] # Gone /\ option[f].key = option[o].key
                                 /\ option' = [option EXCEPT ![f] = option[o]]
            \/ sets' = sets /\ option' = option
<1> DEFINE f == Find(s, option[o].key)
<1>1. f # Gone => f \in Ids /\ option[f] # Gone /\ option[f].key = option[o].key
  BY FoundValue
<1>2. CASE Set(s, o, object)
  BY <1>1, <1>2 DEF Set
<1> QED BY <1>2, AddCases

LEMMA KeysMerge ==
  ASSUME KeysInv, NEW s \in Sets, NEW o \in Held, NEW object, Add(s, o, object) \/ Set(s, o, object)
  PROVE  KeysInv'
<1>1. o \in Ids /\ option[o] \in Values /\ option[o] # Gone
  BY DEF Held, KeysInv, Types
<1>2. doubled' = doubled /\ doubled \subseteq Sets
  BY MergeCases DEF KeysInv, Types
<1>3. CASE New(s, option[o]) /\ Find(s, option[o].key) = Gone
  BY <1>1, <1>2, <1>3, KeysNew
<1>4. CASE Append1(s, o) /\ option' = option /\ Find(s, option[o].key) = Gone
  BY <1>1, <1>2, <1>4, KeysShare
<1>5. ASSUME sets' = sets, NEW f \in Ids, option[f] # Gone, option[f].key = option[o].key,
             option' = [option EXCEPT ![f] = option[o]]
      PROVE  KeysInv'
  BY <1>1, <1>2, <1>5, KeysSetOne
<1>6. CASE sets' = sets /\ option' = option
  BY <1>2, <1>6, KeysStay DEF KeepsKeys, KeysInv, Types
<1> QED BY <1>3, <1>4, <1>5, <1>6, MergeCases

-----------------------------------------------------------------------------
(* The union with defaults.                                                   *)

\* Options in memory and the defaults.
Places == Ids \cup 1 .. Len(Defaults)

Heaps == [Places -> Values \cup {Gone}]

\* A mark that counts more counts more than what the other one counts more than.
LEMMA PrefersOn ==
  ASSUME NEW a, NEW b, NEW c, Prefers(a, b), Prefers(b, c)
  PROVE  Prefers(a, c)
BY DEF Prefers

\* An option is as it was, or took its value over from one with a mark that counts
\* more.
TookOver(heap, o, new) ==
  \/ new = heap[o]
  \/ heap[o] # Gone /\ Prefers(new, heap[o]) /\ \E p \in Places : heap[p] # Gone /\ new = heap[p]

\* What oyOptions_Add() may make of a heap: what exists goes on to exist under its
\* key.
Joined(heap) ==
  {st \in [heap : Heaps, list : Seq(Places)] :
     /\ \A i \in 1 .. Len(st.list) : heap[st.list[i]] # Gone
     /\ \A o \in Places :
          /\ heap[o] = Gone <=> st.heap[o] = Gone
          /\ heap[o] # Gone => st.heap[o].key = heap[o].key
          /\ TookOver(heap, o, st.heap[o])}

LEMMA AddToJoined ==
  ASSUME NEW heap \in Heaps, NEW st \in Joined(heap), NEW o \in Places, heap[o] # Gone
  PROVE  AddTo(st, o) \in Joined(heap)
<1> DEFINE f == FindIn(st.heap, st.list, st.heap[o].key)
<1>1. /\ st \in [heap : Heaps, list : Seq(Places)] /\ st.heap \in Heaps /\ st.list \in Seq(Places)
      /\ \A i \in 1 .. Len(st.list) : heap[st.list[i]] # Gone
      /\ \A p \in Places :
           /\ heap[p] = Gone <=> st.heap[p] = Gone
           /\ heap[p] # Gone => st.heap[p].key = heap[p].key
           /\ TookOver(heap, p, st.heap[p])
  BY DEF Joined
<1>2. Gone \notin Places
  BY NothingIsGone DEF Places
<1>3. f = Gone \/ (f \in Places /\ f # Gone /\ heap[f] # Gone /\ st.heap[f].key = st.heap[o].key)
  <2>1. \/ f = Gone
        \/ /\ f \in Places /\ f # Gone /\ st.heap[f].key = st.heap[o].key
           /\ \E i \in 1 .. Len(st.list) : f = st.list[i]
    BY <1>1, <1>2, FindProperties
  <2> HIDE DEF f
  <2>2. ASSUME NEW i \in 1 .. Len(st.list), f = st.list[i] PROVE heap[f] # Gone
    BY <1>1, <2>2
  <2> QED BY <2>1, <2>2
<1>4. AddTo(st, o) = IF f = Gone THEN [st EXCEPT !.list = Append(@, o)]
                     ELSE IF Prefers(st.heap[o], st.heap[f]) THEN [st EXCEPT !.heap[f] = st.heap[o]]
                     ELSE st
  BY DEF AddTo
<1> HIDE DEF f
<1>5. CASE f = Gone
  <2> DEFINE t == [st EXCEPT !.list = Append(@, o)]
             l == Append(st.list, o)
  <2>1. AddTo(st, o) = t
    BY <1>4, <1>5
  <2>2. /\ l \in Seq(Places) /\ Len(l) = Len(st.list) + 1 /\ Len(st.list) \in Nat
        /\ \A i \in 1 .. Len(st.list) : l[i] = st.list[i]
        /\ l[Len(st.list) + 1] = o
    BY <1>1, AppendProperties
  <2>3. t \in [heap : Heaps, list : Seq(Places)] /\ t.list = l /\ t.heap = st.heap
    BY <1>1, <2>2
  <2> HIDE DEF t, l
  <2>4. ASSUME NEW i \in 1 .. Len(l) PROVE heap[l[i]] # Gone
    <3>1. i \in 1 .. Len(st.list) \/ i = Len(st.list) + 1
      BY <2>2
    <3> QED BY <1>1, <2>2, <3>1
  <2> QED BY <1>1, <2>1, <2>3, <2>4 DEF Joined
<1>6. CASE f # Gone /\ Prefers(st.heap[o], st.heap[f])
  <2> DEFINE t == [st EXCEPT !.heap[f] = st.heap[o]]
             h == [st.heap EXCEPT ![f] = st.heap[o]]
  <2>1. AddTo(st, o) = t
    BY <1>4, <1>6
  <2>2. h \in Heaps /\ h[f] = st.heap[o] /\ \A p \in Places : p # f => h[p] = st.heap[p]
    BY <1>1, <1>3, <1>6 DEF Heaps
  <2>3. t \in [heap : Heaps, list : Seq(Places)] /\ t.list = st.list /\ t.heap = h
    BY <1>1, <2>2
  <2>4. TookOver(heap, f, st.heap[o])
    <3>1. Prefers(st.heap[o], heap[f])
      <4>1. st.heap[f] = heap[f] \/ Prefers(st.heap[f], heap[f])
        BY <1>1, <1>3, <1>6 DEF TookOver
      <4> QED BY <1>6, <4>1, PrefersOn
    <3>2. \E q \in Places : heap[q] # Gone /\ st.heap[o] = heap[q]
      BY <1>1 DEF TookOver
    <3> QED BY <1>3, <1>6, <3>1, <3>2 DEF TookOver
  <2> HIDE DEF t, h
  <2>5. ASSUME NEW p \in Places
        PROVE  /\ heap[p] = Gone <=> h[p] = Gone
               /\ heap[p] # Gone => h[p].key = heap[p].key
               /\ TookOver(heap, p, h[p])
    <3>1. CASE p # f
      BY <1>1, <2>2, <3>1
    <3>2. CASE p = f
      <4>1. h[p] = st.heap[o] /\ heap[p] # Gone /\ st.heap[o] # Gone
        BY <1>1, <1>3, <1>6, <2>2, <3>2
      <4>2. h[p].key = heap[p].key
        BY <1>1, <1>3, <1>6, <3>2, <4>1
      <4> QED BY <2>4, <3>2, <4>1, <4>2
    <3> QED BY <3>1, <3>2
  <2> QED BY <1>1, <2>1, <2>3, <2>5 DEF Joined
<1>7. CASE f # Gone /\ ~ Prefers(st.heap[o], st.heap[f])
  BY <1>4, <1>7
<1> QED BY <1>5, <1>6, <1>7

\* One round: g[k] of the values g of all rounds.
AddRound(heap, all, g, k) ==
  IF k = 0 THEN [heap |-> heap, list |-> << >>] ELSE AddTo(g[k - 1], all[k])

LEMMA UnitedIsAdded ==
  ASSUME NEW heap \in Heaps, NEW all \in Seq({o \in Places : heap[o] # Gone})
  PROVE  United(heap, all) = [k \in 0 .. Len(all) |-> AddRound(heap, all, United(heap, all), k)]
<1> DEFINE n == Len(all)
           X == Joined(heap)
           base == [heap |-> heap, list |-> << >>]
           Step == [p \in (1 .. n) \X X |-> AddTo(p[2], all[p[1]])]
<1>1. n \in Nat /\ \A k \in 1 .. n : all[k] \in Places /\ heap[all[k]] # Gone
  <2> DEFINE H == {o \in Places : heap[o] # Gone}
  <2>1. all \in Seq(H)
    OBVIOUS
  <2> HIDE DEF H
  <2>2. n \in Nat /\ \A k \in 1 .. n : all[k] \in H
    BY <2>1, ElementOfSeq
  <2> QED BY <2>2 DEF H
<1>2. base \in X
  <2>1. base \in [heap : Heaps, list : Seq(Places)] /\ base.heap = heap /\ Len(base.list) = 0
    OBVIOUS
  <2> HIDE DEF base
  <2> QED BY <2>1 DEF Joined, TookOver
<1>3. Step \in [(1 .. n) \X X -> X]
  <2>1. ASSUME NEW p \in (1 .. n) \X X PROVE AddTo(p[2], all[p[1]]) \in X
    <3>1. p[1] \in 1 .. n /\ p[2] \in X
      OBVIOUS
    <3> QED BY <1>1, <3>1, AddToJoined
  <2> HIDE DEF n, X
  <2> QED BY <2>1
<1>4. \E h : h = [k \in 0 .. n |-> AddRound(heap, all, h, k)]
  <2>1. PICK h \in [0 .. n -> X] : AreRounds(h, n, base, Step)
    <3>1. n \in Nat
      BY <1>1
    <3> HIDE DEF n, X, base, Step
    <3> QED BY <1>2, <1>3, <3>1, RoundsExist
  <2>2. ASSUME NEW k \in 0 .. n
        PROVE  (IF k = 0 THEN base ELSE Step[<<k, h[k - 1]>>]) = AddRound(heap, all, h, k)
    <3>1. CASE k = 0
      BY <3>1 DEF AddRound
    <3>2. CASE k # 0
      <4>1. k \in 1 .. n /\ k - 1 \in 0 .. n
        BY <1>1, <3>2
      <4>2. h[k - 1] \in X
        BY <4>1
      <4> HIDE DEF X, n
      <4>3. Step[<<k, h[k - 1]>>] = AddTo(h[k - 1], all[k])
        BY <4>1, <4>2
      <4> QED BY <3>2, <4>3 DEF AddRound
    <3> QED BY <3>1, <3>2
  <2> HIDE DEF n, X, base, Step
  <2>3. h = [k \in 0 .. n |-> AddRound(heap, all, h, k)]
    BY <2>1, <2>2 DEF AreRounds
  <2> QED BY <2>3
<1> DEFINE g == CHOOSE h : h = [k \in 0 .. n |-> AddRound(heap, all, h, k)]
<1>5. g = [k \in 0 .. n |-> AddRound(heap, all, g, k)]
  BY <1>4
<1>6. United(heap, all) = g
  BY DEF United, AddRound
<1> HIDE DEF g
<1> QED BY <1>5, <1>6

LEMMA UnitedJoined ==
  ASSUME NEW heap \in Heaps, NEW all \in Seq({o \in Places : heap[o] # Gone})
  PROVE  United(heap, all)[Len(all)] \in Joined(heap)
<1> DEFINE n == Len(all)
           g == United(heap, all)
           S == {k \in 0 .. n : g[k] \in Joined(heap)}
<1>1. n \in Nat /\ \A k \in 1 .. n : all[k] \in Places /\ heap[all[k]] # Gone
  <2> DEFINE H == {o \in Places : heap[o] # Gone}
  <2>1. all \in Seq(H)
    OBVIOUS
  <2> HIDE DEF H
  <2>2. n \in Nat /\ \A k \in 1 .. n : all[k] \in H
    BY <2>1, ElementOfSeq
  <2> QED BY <2>2 DEF H
<1>2. g = [k \in 0 .. n |-> AddRound(heap, all, g, k)]
  BY UnitedIsAdded
<1> HIDE DEF g, n
<1>3. 0 \in S
  <2>1. g[0] = [heap |-> heap, list |-> << >>]
    BY <1>1, <1>2 DEF AddRound
  <2>2. g[0] \in Joined(heap)
    <3> DEFINE base == [heap |-> heap, list |-> << >>]
    <3>1. base \in [heap : Heaps, list : Seq(Places)] /\ base.heap = heap /\ Len(base.list) = 0
      OBVIOUS
    <3> HIDE DEF base
    <3> QED BY <2>1, <3>1 DEF Joined, TookOver, base
  <2> QED BY <1>1, <2>2
<1>4. ASSUME NEW k \in S, k \in 0 .. n - 1 PROVE k + 1 \in S
  <2>1. k + 1 \in 1 .. n /\ k + 1 \in 0 .. n /\ (k + 1) - 1 = k /\ k + 1 # 0
    BY <1>1, <1>4
  <2>2. g[k + 1] = AddTo(g[k], all[k + 1])
    <3>1. g[k + 1] = AddRound(heap, all, g, k + 1)
      BY <1>2, <2>1
    <3> QED BY <2>1, <3>1 DEF AddRound
  <2>3. g[k] \in Joined(heap) /\ all[k + 1] \in Places /\ heap[all[k + 1]] # Gone
    BY <1>1, <2>1
  <2> QED BY <2>1, <2>2, <2>3, AddToJoined
<1>5. 0 .. n \subseteq S
  <2> HIDE DEF S
  <2> QED BY <1>1, <1>3, <1>4, BoundedInduction
<1> QED BY <1>1, <1>5 DEF g, n

\* A position of a list of d rounds over n options.
LEMMA RoundOf ==
  ASSUME NEW d \in Nat, NEW n \in Nat, n > 0, NEW i \in 1 .. 2 * d * n
  PROVE  ((i - 1) \div 2) \div n + 1 \in 1 .. d /\ (((i - 1) \div 2) % n) + 1 \in 1 .. n
<1> DEFINE m == (i - 1) \div 2
           q == m \div n
<1>1. 2 * d * n = 2 * (d * n) /\ d * n \in Nat
  OBVIOUS
<1>2. m \in Nat /\ m < d * n
  <2>1. \A e \in Nat : i \in 1 .. 2 * e => m \in Nat /\ m < e
    OBVIOUS
  <2> HIDE DEF m
  <2>2. i \in 1 .. 2 * (d * n)
    BY <1>1
  <2> QED BY <1>1, <2>1, <2>2
<1> HIDE DEF m
<1>3. q \in Nat /\ n * q <= m
  BY <1>2
<1>4. m % n \in 0 .. n - 1
  BY <1>2
<1> HIDE DEF q
<1>5. q < d
  <2>1. SUFFICES ASSUME d <= q PROVE FALSE
    BY <1>3
  <2>2. n * d <= n * q /\ n * d = d * n
    BY <1>3, <2>1
  <2>3. n * d \in Nat /\ n * q \in Nat
    BY <1>3
  <2> QED BY <1>2, <1>3, <2>2, <2>3
<1>6. q + 1 \in 1 .. d
  BY <1>3, <1>5
<1>7. (m % n) + 1 \in 1 .. n
  BY <1>4
<1> QED BY <1>6, <1>7 DEF q, m

LEMMA DefaultValues == \A i \in 1 .. Len(Defaults) : Defaults[i] \in Values
<1> DEFINE D == [key : Keys, kind : {"text"}, list : {FALSE},
                 of : {<<t>> : t \in Rules}, flags : {{}, {"edit"}}]
<1>1. \A i \in 1 .. Len(Defaults) : Defaults[i] \in D
  <2>1. Defaults \in Seq(D)
    BY OptionValuesAssumption
  <2> HIDE DEF D
  <2> QED BY <2>1, ElementOfSeq
<1>2. ASSUME NEW r \in D PROVE r \in Values
  <2>1. PICK t \in Rules : r.of = <<t>>
    OBVIOUS
  <2>2. <<t>> \in Data /\ "text" \in AllKinds /\ "text" \notin Kinds
    BY OptionValuesAssumption DEF Data, AllKinds
  <2> QED BY <2>1, <2>2 DEF Values, Options
<1> HIDE DEF D
<1> QED BY <1>1, <1>2

\* What is offered exists.
LEMMA OfferedExist ==
  ASSUME KeysInv, NEW s \in Sets, sets[s] # << >>,
         NEW heap \in Heaps,
         \A o \in Places : heap[o] = IF o \in Ids THEN option[o] ELSE Defaults[o]
  PROVE  Offered(s) \in Seq({o \in Places : heap[o] # Gone})
<1> DEFINE H == {o \in Places : heap[o] # Gone}
           n == Len(sets[s])
           d == Len(Defaults)
           At(i) == IF i % 2 = 1 THEN ((i - 1) \div 2) \div n + 1
                    ELSE sets[s][(((i - 1) \div 2) % n) + 1]
<1>1. d \in Nat /\ 1 .. d \subseteq H
  <2>1. d \in Nat
    BY OptionValuesAssumption, LenProperties
  <2>2. ASSUME NEW i \in 1 .. d PROVE i \in H
    <3>1. i \in Places /\ i \notin Ids
      BY OptionValuesAssumption DEF Places
    <3>2. heap[i] = Defaults[i]
      BY <3>1
    <3> QED BY <3>1, <3>2, DefaultValues, NothingIsGone
  <2> QED BY <2>1, <2>2
<1>2. n \in Nat /\ n > 0
  <2>1. sets[s] \in Seq(Ids) /\ n \in Nat
    BY Listed
  <2> QED BY <2>1, EmptySeq
<1>3. \A i \in 1 .. n : sets[s][i] \in H
  <2> SUFFICES ASSUME NEW i \in 1 .. n PROVE sets[s][i] \in H
    OBVIOUS
  <2>1. sets[s][i] \in Ids /\ option[sets[s][i]] # Gone
    BY Listed
  <2>2. sets[s][i] \in Places
    BY <2>1 DEF Places
  <2> QED BY <2>1, <2>2
<1>4. Offered(s) = [i \in 1 .. 2 * d * n |-> At(i)]
  BY DEF Offered
<1>5. 2 * d * n \in Nat
  <2>1. d \in Nat /\ n \in Nat
    BY <1>1, <1>2
  <2> HIDE DEF n, d
  <2> QED BY <2>1
<1>6. ASSUME NEW i \in 1 .. 2 * d * n PROVE At(i) \in H
  <2>1. ((i - 1) \div 2) \div n + 1 \in 1 .. d /\ (((i - 1) \div 2) % n) + 1 \in 1 .. n
    BY <1>1, <1>2, RoundOf
  <2> HIDE DEF H, n, d
  <2> QED BY <1>1, <1>3, <2>1
<1> HIDE DEF At, H, n, d
<1>7. Offered(s) \in [1 .. 2 * d * n -> H]
  BY <1>4, <1>6
<1>8. Offered(s) \in Seq(H)
  BY <1>5, <1>7
<1> QED BY <1>8 DEF H

\* Options of any set may take over what has a mark that counts more and the same key.
LEMMA UnionCases ==
  ASSUME KeysInv, NEW s \in Sets, UnionWithDefaults(s)
  PROVE  /\ sets' = sets /\ doubled' = doubled
         /\ option' \in [Ids -> Values \cup {Gone}]
         /\ \A o \in Ids :
              /\ option[o] = Gone <=> option'[o] = Gone
              /\ option[o] # Gone => option'[o].key = option[o].key
              /\ \/ option'[o] = option[o]
                 \/ /\ option[o] # Gone /\ Prefers(option'[o], option[o])
                    /\ \/ \E p \in Ids : option[p] # Gone /\ option'[o] = option[p]
                       \/ \E i \in 1 .. Len(Defaults) : option'[o] = Defaults[i]
<1> DEFINE heap == [o \in Ids \cup 1 .. Len(Defaults) |->
                      IF o \in Ids THEN option[o] ELSE Defaults[o]]
           all  == Offered(s)
           st   == United(heap, all)[Len(all)]
<1>1. /\ sets[s] # << >> /\ sets' = sets /\ doubled' = doubled
      /\ option' = [o \in Ids |-> st.heap[o]]
  BY DEF UnionWithDefaults
<1>2. heap \in Heaps /\ \A o \in Places : heap[o] = IF o \in Ids THEN option[o] ELSE Defaults[o]
  BY DefaultValues DEF Heaps, Places, KeysInv, Types
<1> HIDE DEF heap
<1>3. all \in Seq({o \in Places : heap[o] # Gone})
  BY <1>1, <1>2, OfferedExist
<1>4. st \in Joined(heap)
  BY <1>2, <1>3, UnitedJoined
<1> HIDE DEF st
<1>5. /\ st.heap \in Heaps
      /\ \A o \in Places :
           /\ heap[o] = Gone <=> st.heap[o] = Gone
           /\ heap[o] # Gone => st.heap[o].key = heap[o].key
           /\ TookOver(heap, o, st.heap[o])
  BY <1>4 DEF Joined
<1>6. \A o \in Ids : o \in Places /\ heap[o] = option[o] /\ option'[o] = st.heap[o]
                     /\ st.heap[o] \in Values \cup {Gone}
  BY <1>1, <1>2, <1>5 DEF Places, Heaps
<1>7. option' \in [Ids -> Values \cup {Gone}]
  BY <1>1, <1>6
<1>8. \A p \in Places : \/ p \in Ids /\ heap[p] = option[p]
                        \/ p \in 1 .. Len(Defaults) /\ heap[p] = Defaults[p]
  BY <1>2 DEF Places
<1>9. ASSUME NEW o \in Ids
      PROVE  \/ option'[o] = option[o]
             \/ /\ option[o] # Gone /\ Prefers(option'[o], option[o])
                /\ \/ \E p \in Ids : option[p] # Gone /\ option'[o] = option[p]
                   \/ \E i \in 1 .. Len(Defaults) : option'[o] = Defaults[i]
  <2>1. TookOver(heap, o, option'[o]) /\ heap[o] = option[o]
    BY <1>5, <1>6
  <2>2. CASE option'[o] # option[o]
    <3>1. PICK p \in Places : heap[p] # Gone /\ option'[o] = heap[p]
      BY <2>1, <2>2 DEF TookOver
    <3> QED BY <1>8, <2>1, <2>2, <3>1 DEF TookOver
  <2> QED BY <2>2
<1> QED BY <1>1, <1>5, <1>6, <1>7, <1>9

LEMMA KeysUnion ==
  ASSUME KeysInv, NEW s \in Sets, UnionWithDefaults(s)
  PROVE  KeysInv'
<1>1. Types'
  BY UnionCases DEF KeysInv, Types
<1>2. KeepsKeys
  BY UnionCases DEF KeepsKeys
<1> QED BY <1>1, <1>2, UnionCases, KeysStay

-----------------------------------------------------------------------------
(* Policies, flags, releases.                                                 *)

\* An option as the policy of the user makes it.
RuledBy(r, t) == [TextSet(r, t) EXCEPT !.flags = @ \cup {"automatic"}]

LEMMA RuledValue ==
  ASSUME NEW r \in Values, NEW t \in Rules
  PROVE  /\ RuledBy(r, t) \in Values /\ RuledBy(r, t).key = r.key
         /\ RuledBy(r, t).kind = "text" /\ RuledBy(r, t).of = <<t>>
         /\ RuledBy(r, t).flags = r.flags \cup {"edit", "automatic"}
<1> DEFINE u == TextSet(r, t)
           v == [u EXCEPT !.flags = @ \cup {"automatic"}]
<1>1. /\ u \in Values /\ u.key = r.key /\ u.kind = "text" /\ u.of = <<t>>
      /\ u.flags = r.flags \cup {"edit"}
  BY TextValue
<1> HIDE DEF u
<1>2. v \in Values /\ v.key = r.key /\ v.kind = "text" /\ v.of = <<t>>
  BY <1>1 DEF Values, Options
<1>3. v.flags = r.flags \cup {"edit", "automatic"}
  BY <1>1 DEF Values, Options
<1> QED BY <1>2, <1>3 DEF RuledBy, u

LEMMA PolicyCases ==
  ASSUME KeysInv, NEW s \in Sets, NEW k \in Keys, NEW t \in Rules, Policy(s, k, t)
  PROVE  /\ doubled' = doubled
         /\ \/ Find(s, k) = Gone /\ New(s, RuledBy(Blank(k), t))
            \/ /\ Find(s, k) # Gone /\ "edit" \notin option[Find(s, k)].flags
               /\ option' = [option EXCEPT ![Find(s, k)] = RuledBy(option[Find(s, k)], t)]
               /\ sets' = sets
BY DEF Policy, RuledBy

LEMMA KeysPolicy ==
  ASSUME KeysInv, NEW s \in Sets, NEW k \in Keys, NEW t \in Rules, Policy(s, k, t)
  PROVE  KeysInv'
<1> DEFINE f == Find(s, k)
<1>1. doubled' = doubled /\ doubled \subseteq Sets
  BY PolicyCases DEF KeysInv, Types
<1>2. CASE f = Gone /\ New(s, RuledBy(Blank(k), t))
  <2>1. RuledBy(Blank(k), t) \in Values /\ RuledBy(Blank(k), t).key = k
    BY BlankIsValue, RuledValue
  <2> QED BY <1>1, <1>2, <2>1, KeysNew
<1>3. CASE f # Gone /\ option' = [option EXCEPT ![f] = RuledBy(option[f], t)] /\ sets' = sets
  <2>1. f \in Ids /\ option[f] # Gone /\ option[f] \in Values
    BY <1>3, FoundValue
  <2>2. RuledBy(option[f], t) \in Values /\ RuledBy(option[f], t).key = option[f].key
    BY <2>1, RuledValue
  <2> HIDE DEF f
  <2> QED BY <1>1, <1>3, <2>1, <2>2, KeysSetOne
<1> QED BY <1>2, <1>3, PolicyCases

\* An option that is no longer marked.
LEMMA FlagsCases ==
  ASSUME KeysInv, NEW o \in Held, SetFlags(o)
  PROVE  /\ sets' = sets /\ doubled' = doubled
         /\ \E r \in Values : /\ r.key = option[o].key /\ r.kind = option[o].kind
                              /\ r.of = option[o].of /\ r.flags = option[o].flags \ {"edit"}
                              /\ option' = [option EXCEPT ![o] = r]
<1>1. o \in Ids /\ option[o] \in Values
  BY DEF Held, KeysInv, Types
<1> DEFINE q == option[o]
           r == [q EXCEPT !.flags = @ \ {"edit"}]
<1>2. option' = [option EXCEPT ![o] = r] /\ sets' = sets /\ doubled' = doubled
  BY DEF SetFlags
<1>3. q \in Values
  BY <1>1
<1> HIDE DEF q
<1>4. /\ r \in Values /\ r.key = q.key /\ r.kind = q.kind
      /\ r.of = q.of /\ r.flags = q.flags \ {"edit"}
  BY <1>3 DEF Values, Options
<1> HIDE DEF r
<1> QED BY <1>2, <1>4 DEF q

LEMMA KeysFlags ==
  ASSUME KeysInv, NEW o \in Held, SetFlags(o)
  PROVE  KeysInv'
<1>1. PICK r \in Values : r.key = option[o].key /\ option' = [option EXCEPT ![o] = r]
  BY FlagsCases
<1>2. o \in Ids /\ option[o] # Gone
  BY DEF Held
<1> QED BY <1>1, <1>2, FlagsCases, KeysSetOne

\* The other entries of a list stay in order.
LEMMA RemoveFromList ==
  ASSUME NEW I, NEW list \in Seq(I), NEW i \in 1 .. Len(list)
  PROVE  /\ RemoveAt(list, i) \in Seq(I)
         /\ Len(RemoveAt(list, i)) = Len(list) - 1
         /\ \A j \in 1 .. Len(list) - 1 :
              RemoveAt(list, i)[j] = list[IF j < i THEN j ELSE j + 1]
<1>1. Len(list) \in Nat /\ 1 <= i /\ i <= Len(list)
  BY LenProperties
<1> DEFINE a == SubSeq(list, 1, i - 1)
           b == SubSeq(list, i + 1, Len(list))
<1>2. a \in Seq(I) /\ Len(a) = i - 1 /\ \A j \in 1 .. i - 1 : a[j] = list[j]
  BY <1>1, SubSeqProperties
<1>3. b \in Seq(I) /\ Len(b) = Len(list) - i /\ \A j \in 1 .. Len(list) - i : b[j] = list[i + j]
  BY <1>1, SubSeqProperties
<1>4. RemoveAt(list, i) = a \o b
  BY DEF RemoveAt
<1> HIDE DEF a, b
<1>5. /\ a \o b \in Seq(I) /\ Len(a \o b) = Len(list) - 1
      /\ \A j \in 1 .. Len(list) - 1 : (a \o b)[j] = IF j <= i - 1 THEN a[j] ELSE b[j - (i - 1)]
  <2>1. /\ a \o b \in Seq(I) /\ Len(a \o b) = Len(a) + Len(b)
        /\ \A j \in 1 .. Len(a) + Len(b) :
             (a \o b)[j] = IF j <= Len(a) THEN a[j] ELSE b[j - Len(a)]
    BY <1>2, <1>3, ConcatProperties
  <2>2. Len(a) = i - 1 /\ Len(a) + Len(b) = Len(list) - 1
    BY <1>1, <1>2, <1>3
  <2> QED BY <2>1, <2>2
<1>6. ASSUME NEW j \in 1 .. Len(list) - 1
      PROVE  (a \o b)[j] = list[IF j < i THEN j ELSE j + 1]
  <2>1. CASE j < i
    BY <1>1, <1>2, <1>5, <2>1
  <2>2. CASE ~ (j < i)
    <3>1. j - (i - 1) \in 1 .. Len(list) - i /\ i + (j - (i - 1)) = j + 1 /\ ~ (j <= i - 1)
      BY <1>1, <2>2
    <3>2. b[j - (i - 1)] = list[j + 1]
      BY <1>3, <3>1
    <3> QED BY <1>5, <2>2, <3>1, <3>2
  <2> QED BY <2>1, <2>2
<1> QED BY <1>4, <1>5, <1>6

LEMMA ReleaseCases ==
  ASSUME KeysInv, NEW s \in Sets, NEW i \in DOMAIN sets[s], ReleaseAt(s, i)
  PROVE  /\ doubled' = doubled
         /\ sets' = [sets EXCEPT ![s] = RemoveAt(@, i)]
         /\ sets[s][i] \in Ids /\ option[sets[s][i]] # Gone
         /\ \/ option' = option
            \/ /\ option' = [option EXCEPT ![sets[s][i]] = Gone]
               /\ \A u \in Sets : \A j \in DOMAIN sets'[u] : sets'[u][j] # sets[s][i]
<1>1. i \in 1 .. Len(sets[s])
  BY Listed, LenProperties
<1> QED BY <1>1, Listed DEF ReleaseAt, ToSet

LEMMA KeysRelease ==
  ASSUME KeysInv, NEW s \in Sets, NEW i \in DOMAIN sets[s], ReleaseAt(s, i)
  PROVE  KeysInv'
<1> DEFINE less == RemoveAt(sets[s], i)
           n == Len(sets[s])
           Old(j) == IF j < i THEN j ELSE j + 1
<1>1. sets[s] \in Seq(Ids) /\ n \in Nat /\ i \in 1 .. n
  BY Listed, LenProperties
<1>2. /\ less \in Seq(Ids) /\ Len(less) = n - 1
      /\ \A j \in 1 .. n - 1 : less[j] = sets[s][Old(j)]
  BY <1>1, RemoveFromList
<1>3. /\ sets' = [sets EXCEPT ![s] = less] /\ doubled' = doubled
      /\ option' \in [Ids -> Values \cup {Gone}]
  BY ReleaseCases DEF KeysInv, Types
<1> HIDE DEF less
<1>4. Types' /\ sets'[s] = less /\ \A u \in Sets : u # s => sets'[u] = sets[u]
  BY <1>2, <1>3 DEF KeysInv, Types
<1>5. \A j, h \in 1 .. n - 1 : /\ Old(j) \in 1 .. n /\ Old(h) \in 1 .. n
                               /\ Old(j) = Old(h) => j = h
  BY <1>1
<1> HIDE DEF Old, n
<1>6. \A u \in Sets : \A j \in 1 .. Len(sets'[u]) : option[sets'[u][j]] # Gone
  <2> SUFFICES ASSUME NEW u \in Sets, NEW j \in 1 .. Len(sets'[u])
               PROVE  option[sets'[u][j]] # Gone
    OBVIOUS
  <2>1. CASE u # s
    BY <1>4, <2>1, Listed
  <2>2. CASE u = s
    <3>1. j \in 1 .. n - 1 /\ sets'[u][j] = sets[s][Old(j)] /\ Old(j) \in 1 .. n
      BY <1>2, <1>4, <1>5, <2>2
    <3> QED BY <3>1, Listed DEF n
  <2> QED BY <2>1, <2>2
<1>7. ASSUME NEW u \in Sets, NEW j \in 1 .. Len(sets'[u])
      PROVE  option'[sets'[u][j]] = option[sets'[u][j]]
  <2>1. CASE option' = option
    BY <2>1
  <2>2. CASE /\ option' = [option EXCEPT ![sets[s][i]] = Gone]
             /\ \A v \in Sets : \A h \in DOMAIN sets'[v] : sets'[v][h] # sets[s][i]
    <3>1. sets'[u] \in Seq(Ids)
      BY <1>4 DEF Types
    <3>2. sets'[u][j] \in Ids /\ j \in DOMAIN sets'[u]
      BY <3>1, ElementOfSeq, LenProperties
    <3>3. sets'[u][j] # sets[s][i]
      BY <2>2, <3>2
    <3> QED BY <2>2, <3>2, <3>3 DEF KeysInv, Types
  <2> QED BY <2>1, <2>2, ReleaseCases
<1>8. ASSUME NEW u \in Sets \ doubled' PROVE OneKeyEach(option', sets'[u])
  <2>1. OneKeyEach(option, sets[u])
    BY <1>3 DEF KeysInv
  <2>2. CASE u # s
    BY <1>4, <1>7, <2>1, <2>2 DEF OneKeyEach
  <2>3. CASE u = s
    <3> SUFFICES ASSUME NEW j \in 1 .. Len(sets'[s]), NEW h \in 1 .. Len(sets'[s]),
                        option'[sets'[s][j]].key = option'[sets'[s][h]].key
                 PROVE  j = h
      BY <2>3 DEF OneKeyEach
    <3>1. j \in 1 .. n - 1 /\ h \in 1 .. n - 1
      BY <1>2, <1>4
    <3>2. sets'[s][j] = sets[s][Old(j)] /\ sets'[s][h] = sets[s][Old(h)]
      BY <1>2, <1>4, <3>1
    <3>3. option[sets[s][Old(j)]].key = option[sets[s][Old(h)]].key
      BY <1>7, <3>2
    <3>4. Old(j) = Old(h)
      BY <1>5, <2>1, <2>3, <3>1, <3>3 DEF OneKeyEach, n
    <3> QED BY <1>5, <3>1, <3>4
  <2> QED BY <2>2, <2>3
<1> QED BY <1>4, <1>6, <1>7, <1>8 DEF KeysInv

LEMMA KeysInit == Init => KeysInv
<1> SUFFICES ASSUME Init PROVE KeysInv
  OBVIOUS
<1>1. sets = [s \in Sets |-> << >>] /\ Len(<< >>) = 0 /\ << >> \in Seq(Ids)
  BY DEF Init
<1>2. Types
  BY <1>1 DEF Init, Types
<1>3. \A s \in Sets : Len(sets[s]) = 0
  BY <1>1
<1> QED BY <1>2, <1>3 DEF KeysInv, OneKeyEach

LEMMA KeysNext == KeysInv /\ [Next]_vars => KeysInv'
<1> SUFFICES ASSUME KeysInv, [Next]_vars PROVE KeysInv'
  OBVIOUS
<1>1. ASSUME NEW s \in Sets, NEW k \in Keys, NEW flag \in Flags,
             \/ SetFromNumber(s, k, flag) \/ SetFromString(s, k, flag)
             \/ MoveInStruct(s, k, flag) \/ SetFromData(s, k, flag)
      PROVE  KeysInv'
  BY <1>1, KeysSetters
<1>2. ASSUME NEW s \in Sets, NEW o \in Held, NEW object \in BOOLEAN,
             Add(s, o, object) \/ Set(s, o, object)
      PROVE  KeysInv'
  BY <1>2, KeysMerge
<1>3. ASSUME NEW s \in Sets, UnionWithDefaults(s) PROVE KeysInv'
  BY <1>3, KeysUnion
<1>4. ASSUME NEW s \in Sets, NEW k \in Keys, NEW t \in Rules, Policy(s, k, t) PROVE KeysInv'
  BY <1>4, KeysPolicy
<1>5. ASSUME NEW o \in Held, SetFlags(o) PROVE KeysInv'
  BY <1>5, KeysFlags
<1>6. ASSUME NEW s \in Sets, NEW i \in DOMAIN sets[s], ReleaseAt(s, i) PROVE KeysInv'
  BY <1>6, KeysRelease
<1>7. CASE UNCHANGED vars
  BY <1>7, KeysStay DEF vars, KeysInv, Types, KeepsKeys
<1> QED BY <1>1, <1>2, <1>3, <1>4, <1>5, <1>6, <1>7 DEF Next

\* Nobody lists an option that is gone, and keys are not doubled: the inductive
\* invariant of oyOptions_s.
THEOREM KeysInvariant == Spec => []KeysInv
<1> QED BY KeysInit, KeysNext, PTL DEF Spec

\* For any number of options and sets, and any defaults: a set has each key once,
\* whether oyOptions_SetFrom...(), oyOptions_Add(), oyOptions_Set() or the policy
\* brought it in, unless OY_ADD_ALWAYS was asked for.
THEOREM KeysListedOnce == Spec => []KeysOnce
<1>1. KeysInv => KeysOnce
  <2> SUFFICES ASSUME KeysInv, NEW s \in Sets \ doubled, NEW k \in Keys
               PROVE  Cardinality({i \in DOMAIN sets[s] : option[sets[s][i]].key = k}) <= 1
    BY DEF KeysOnce
  <2> DEFINE at == {i \in DOMAIN sets[s] : option[sets[s][i]].key = k}
  <2>1. DOMAIN sets[s] = 1 .. Len(sets[s])
    BY Listed, LenProperties
  <2>2. \A i, j \in at : i = j
    BY <2>1 DEF KeysInv, OneKeyEach
  <2> HIDE DEF at
  <2>3. CASE at = {}
    <3>1. Cardinality(at) = 0
      BY <2>3, FS_EmptySet
    <3> QED BY <3>1 DEF at
  <2>4. CASE at # {}
    <3>1. PICK i \in at : TRUE
      BY <2>4
    <3>2. at = {i}
      BY <2>2, <3>1
    <3>3. Cardinality(at) = 1
      BY <3>2, FS_Singleton
    <3> QED BY <3>3 DEF at
  <2> QED BY <2>3, <2>4
<1> QED BY <1>1, KeysInvariant, PTL

-----------------------------------------------------------------------------
(* The options implement the store: what it sees of them, and its steps.      *)

V == [o \in Ids |-> IF option[o] = Gone THEN Gone ELSE Stored(option[o])]

UserContents == [kind : {"text"}, of : {<<t>> : t \in Texts}] \cup
                [kind : {"object"}, of : {<<x>> : x \in Objects}]

RuleContents == [kind : {"text"}, of : {<<t>> : t \in Rules}]

\* One option gets a value and marks.
Becomes(o, v) == V' = [V EXCEPT ![o] = v]

\* An option of memory as the store sees it.
LEMMA Seen ==
  ASSUME Types, NEW o \in Ids
  PROVE  /\ option[o] # Gone => V[o] # Gone /\ V[o] = Stored(option[o])
         /\ option[o] = Gone => V[o] = Gone
<1>1. option[o] # Gone => option[o] \in Values
  BY DEF Types
<1> QED BY <1>1, NothingIsGone DEF V

LEMMA OptionBecomes ==
  ASSUME Types, NEW o \in Ids, NEW r \in Values, option' = [option EXCEPT ![o] = r]
  PROVE  Becomes(o, Stored(r))
<1>1. \A p \in Ids : option'[p] = IF p = o THEN r ELSE option[p]
  BY DEF Types
<1>2. r # Gone
  BY NothingIsGone
<1>3. \A p \in Ids : V'[p] = IF p = o THEN Stored(r) ELSE V[p]
  BY <1>1, <1>2 DEF V
<1>4. V' = [p \in Ids |-> IF p = o THEN Stored(r) ELSE V[p]]
  BY <1>3 DEF V
<1> QED BY <1>4 DEF V, Becomes

LEMMA SameOptions == ASSUME option' = option PROVE V' = V
BY DEF V

LEMMA NewBecomes ==
  ASSUME KeysInv, NEW s \in Sets, NEW r \in Values, New(s, r)
  PROVE  \E o \in Ids : V[o] = Gone /\ Becomes(o, Stored(r))
<1>1. PICK o \in Ids : option[o] = Gone /\ option' = [option EXCEPT ![o] = r]
  BY DEF New, Free
<1> QED BY <1>1, Seen, OptionBecomes DEF KeysInv

-----------------------------------------------------------------------------
(* Setters and the policy.                                                    *)

\* What a setter starts from.
TargetOf(o, k) == IF V[o] # Gone THEN V[o] ELSE Stored(Blank(k))

\* What setters make of x, as the store sees it.
SetBy(x) ==
  {Store!ByHand(Store!PutAt(x, kind, pos, n)) :
     kind \in Kinds, pos \in Positions, n \in Numbers} \cup
  {Store!ByHand(Store!WithContent(x, c)) : c \in UserContents} \cup
  {Store!WithContent(x, c) : c \in UserContents}

LEMMA SetterSteps ==
  ASSUME NEW o \in Ids, NEW k \in Keys, NEW v, Becomes(o, v), V[o] # Gone => V[o].key = k
  PROVE  /\ v \in SetBy(TargetOf(o, k)) => Store!Setter
         /\ \A c \in RuleContents :
              /\ "edit" \notin TargetOf(o, k).flags
              /\ v = Store!WithFlags(Store!WithContent(TargetOf(o, k), c),
                                     TargetOf(o, k).flags \cup {"edit", "automatic"})
              => Store!Policy
<1>1. TargetOf(o, k) = Store!Target(o, k)
  BY DEF TargetOf, Store!Target, Store!Holds, V, Stored, Blank
<1>2. Store!HasKey(o, k)
  BY DEF Store!HasKey, Store!Holds, V
<1> DEFINE x == TargetOf(o, k)
<1>4. ASSUME NEW kind \in Kinds, NEW pos \in Positions, NEW n \in Numbers,
             v = Store!ByHand(Store!PutAt(x, kind, pos, n))
      PROVE  Store!Setter
  <2>1. Store!SetNumber(o, k, kind, pos, n)
    BY <1>1, <1>2, <1>4 DEF Store!SetNumber, Store!Becomes, Becomes, V
  <2> QED BY <2>1 DEF Store!Setter
<1>5. ASSUME NEW c \in UserContents, v = Store!ByHand(Store!WithContent(x, c)) PROVE Store!Setter
  <2>1. Store!SetContent(o, k, c)
    BY <1>1, <1>2, <1>5 DEF Store!SetContent, Store!Becomes, Becomes, V
  <2> QED BY <2>1 DEF Store!Setter, UserContents
<1>6. ASSUME NEW c \in UserContents, v = Store!WithContent(x, c) PROVE Store!Setter
  <2>1. Store!MoveIn(o, k, c)
    BY <1>1, <1>2, <1>6 DEF Store!MoveIn, Store!Becomes, Becomes, V
  <2> QED BY <2>1 DEF Store!Setter, UserContents
<1>7. ASSUME NEW c \in RuleContents, "edit" \notin x.flags,
             v = Store!WithFlags(Store!WithContent(x, c), x.flags \cup {"edit", "automatic"})
      PROVE  Store!Policy
  <2>1. Store!SetByPolicy(o, k, c)
    BY <1>1, <1>2, <1>7 DEF Store!SetByPolicy, Store!Becomes, Becomes, V
  <2> QED BY <2>1 DEF Store!Policy, RuleContents
<1> HIDE DEF x
<1>8. v \in SetBy(x) => Store!Setter
  BY <1>4, <1>5, <1>6 DEF SetBy
<1> QED BY <1>7, <1>8 DEF x

\* What a setter makes of a value r.
SetByUser(r, v) == v \in Values /\ Stored(v) \in SetBy(Stored(r))

LEMMA SetterCall ==
  ASSUME KeysInv, ~ down, NEW s \in Sets, NEW k \in Keys, NEW flag, NEW made, NEW changed,
         SetByUser(Blank(k), made),
         Find(s, k) # Gone => changed = Gone \/ SetByUser(option[Find(s, k)], changed),
         SetsTo(s, k, flag, made, changed),
         call' = IF down' THEN "failed" ELSE "setter"
  PROVE  Store!StoreNext
<1> DEFINE f == Find(s, k)
<1>1. CASE flag = "add_always" \/ (f = Gone /\ flag = "create_new")
  <2>1. New(s, made) /\ down' = down
    BY <1>1 DEF SetsTo
  <2>2. PICK o \in Ids : V[o] = Gone /\ Becomes(o, Stored(made))
    BY <2>1, NewBecomes DEF SetByUser
  <2>3. TargetOf(o, k) = Stored(Blank(k))
    BY <2>2 DEF TargetOf
  <2>4. Store!Setter
    BY <2>2, <2>3, SetterSteps DEF SetByUser
  <2>5. call' = "setter"
    BY <2>1
  <2> QED BY <2>4, <2>5 DEF Store!StoreNext
<1>2. CASE ~ (flag = "add_always" \/ (f = Gone /\ flag = "create_new")) /\ changed = Gone
  <2>1. down' = TRUE /\ option' = option
    BY <1>2 DEF SetsTo
  <2>2. Store!Same
    BY <2>1, SameOptions DEF Store!Same, V
  <2>3. call' = "failed"
    BY <2>1
  <2> QED BY <2>2, <2>3 DEF Store!StoreNext
<1>3. CASE ~ (flag = "add_always" \/ (f = Gone /\ flag = "create_new")) /\ changed # Gone
  <2>1. f # Gone /\ option' = [option EXCEPT ![f] = changed] /\ down' = down
    BY <1>3 DEF SetsTo
  <2>2. f \in Ids /\ option[f] # Gone /\ option[f].key = k
    BY <2>1, FoundValue
  <2>3. SetByUser(option[f], changed)
    BY <1>3, <2>1
  <2> HIDE DEF f
  <2>4. V[f] # Gone /\ V[f] = Stored(option[f]) /\ V[f].key = k
    BY <2>2, Seen DEF KeysInv, Stored
  <2>5. Becomes(f, Stored(changed)) /\ TargetOf(f, k) = Stored(option[f])
    BY <2>1, <2>2, <2>3, <2>4, OptionBecomes DEF KeysInv, SetByUser, TargetOf
  <2>6. Store!Setter
    BY <2>2, <2>3, <2>4, <2>5, SetterSteps DEF SetByUser
  <2>7. call' = "setter"
    BY <2>1
  <2> QED BY <2>6, <2>7 DEF Store!StoreNext
<1> QED BY <1>1, <1>2, <1>3

LEMMA NumberByUser ==
  ASSUME NEW r \in Values, NEW kind \in Kinds, NEW pos \in Positions, NEW n \in Numbers
  PROVE  LET v == NumberSet(r, kind, pos, n)
         IN  (v = Gone /\ r.kind # "none") \/ SetByUser(r, v)
<1> DEFINE v == NumberSet(r, kind, pos, n)
<1>1. pos \in Nat /\ n \in Nat
  BY OptionValuesAssumption
<1>2. \/ v = Gone /\ r.kind # "none"
      \/ /\ v \in Values /\ v.key = r.key
         /\ Stored(v) = Store!ByHand(Store!PutAt(Stored(r), kind, pos, n))
  BY <1>1, NumberValue, Zenon
<1> HIDE DEF v
<1>3. Store!ByHand(Store!PutAt(Stored(r), kind, pos, n)) \in SetBy(Stored(r))
  BY DEF SetBy
<1>4. (v = Gone /\ r.kind # "none") \/ SetByUser(r, v)
  BY <1>2, <1>3 DEF SetByUser
<1> QED BY <1>4 DEF v

LEMMA TextByUser ==
  ASSUME NEW r \in Values, NEW t \in Texts PROVE SetByUser(r, TextSet(r, t))
<1> DEFINE v == TextSet(r, t)
           c == [kind |-> "text", of |-> <<t>>]
<1>1. /\ v \in Values /\ v.key = r.key /\ v.kind = "text" /\ v.of = <<t>>
      /\ v.flags = r.flags \cup {"edit"}
  BY TextValue
<1> HIDE DEF v
<1>2. c \in UserContents /\ c.kind = "text" /\ c.of = <<t>>
  BY DEF UserContents
<1> HIDE DEF c
<1>3. Stored(v) = Store!ByHand(Store!WithContent(Stored(r), c))
  <2>1. /\ v.key = r.key /\ v.kind = c.kind /\ v.of = c.of
        /\ v.flags = r.flags \cup {"edit"}
    BY <1>1, <1>2
  <2> QED BY <2>1, StoredContent
<1> QED BY <1>1, <1>2, <1>3 DEF SetByUser, SetBy, v

LEMMA ObjectByUser ==
  ASSUME NEW r \in Values, NEW x \in Objects
  PROVE  SetByUser(r, ObjectIn(r, x)) /\ SetByUser(r, DataSet(r, x))
<1> DEFINE v == ObjectIn(r, x)
           w == DataSet(r, x)
           c == [kind |-> "object", of |-> <<x>>]
<1>1. /\ v \in Values /\ v.key = r.key /\ v.kind = "object" /\ v.of = <<x>>
      /\ v.flags = r.flags
  BY ObjectValue
<1>2. /\ w \in Values /\ w.key = r.key /\ w.kind = "object" /\ w.of = <<x>>
      /\ w = r \/ w.flags = r.flags \cup {"edit"}
  BY DataValue
<1> HIDE DEF v, w
<1>3. c \in UserContents /\ c.kind = "object" /\ c.of = <<x>>
  BY DEF UserContents
<1> HIDE DEF c
<1>4. Stored(v) = Store!WithContent(Stored(r), c)
  <2>1. v.key = r.key /\ v.kind = c.kind /\ v.of = c.of /\ v.flags = r.flags
    BY <1>1, <1>3
  <2> QED BY <2>1, StoredContent
<1>5. \/ Stored(w) = Store!WithContent(Stored(r), c)
      \/ Stored(w) = Store!ByHand(Store!WithContent(Stored(r), c))
  <2>1. /\ w.key = r.key /\ w.kind = c.kind /\ w.of = c.of
        /\ w.flags = r.flags \/ w.flags = r.flags \cup {"edit"}
    BY <1>2, <1>3
  <2> QED BY <2>1, StoredContent
<1>6. SetByUser(r, v)
  BY <1>1, <1>3, <1>4 DEF SetByUser, SetBy
<1>7. SetByUser(r, w)
  BY <1>2, <1>3, <1>5 DEF SetByUser, SetBy
<1> QED BY <1>6, <1>7 DEF v, w

LEMMA StoreSetters ==
  ASSUME KeysInv, ~ down, NEW s \in Sets, NEW k \in Keys, NEW flag,
         \/ SetFromNumber(s, k, flag) \/ SetFromString(s, k, flag)
         \/ MoveInStruct(s, k, flag) \/ SetFromData(s, k, flag),
         call' = IF down' THEN "failed" ELSE "setter"
  PROVE  Store!StoreNext
<1>1. Blank(k) \in Values /\ Blank(k).kind = "none"
  BY BlankIsValue
<1>2. Find(s, k) # Gone => option[Find(s, k)] \in Values
  BY FoundValue
<1>3. CASE SetFromNumber(s, k, flag)
  <2>1. PICK kind \in Kinds, pos \in Positions, n \in Numbers :
          SetsTo(s, k, flag, NumberSet(Blank(k), kind, pos, n),
                 NumberSet(option[Find(s, k)], kind, pos, n))
    BY <1>3, SettersSet
  <2> DEFINE made == NumberSet(Blank(k), kind, pos, n)
             changed == NumberSet(option[Find(s, k)], kind, pos, n)
  <2>2. SetByUser(Blank(k), made)
    BY <1>1, NumberByUser
  <2>3. Find(s, k) # Gone => changed = Gone \/ SetByUser(option[Find(s, k)], changed)
    BY <1>2, NumberByUser
  <2>4. SetsTo(s, k, flag, made, changed)
    BY <2>1
  <2> HIDE DEF made, changed
  <2> QED BY <2>2, <2>3, <2>4, SetterCall
<1>4. CASE SetFromString(s, k, flag)
  <2>1. PICK t \in Texts :
          SetsTo(s, k, flag, TextSet(Blank(k), t), TextSet(option[Find(s, k)], t))
    BY <1>4, SettersSet
  <2> QED BY <1>1, <1>2, <2>1, TextByUser, SetterCall
<1>5. CASE MoveInStruct(s, k, flag)
  <2>1. PICK x \in Objects :
          SetsTo(s, k, flag, ObjectIn(Blank(k), x), ObjectIn(option[Find(s, k)], x))
    BY <1>5, SettersSet
  <2> QED BY <1>1, <1>2, <2>1, ObjectByUser, SetterCall
<1>6. CASE SetFromData(s, k, flag)
  <2>1. PICK x \in Objects :
          SetsTo(s, k, flag, DataSet(Blank(k), x), DataSet(option[Find(s, k)], x))
    BY <1>6, SettersSet
  <2> QED BY <1>1, <1>2, <2>1, ObjectByUser, SetterCall
<1> QED BY <1>3, <1>4, <1>5, <1>6

LEMMA StorePolicy ==
  ASSUME KeysInv, NEW s \in Sets, NEW k \in Keys, NEW t \in Rules, Policy(s, k, t)
  PROVE  Store!Policy
<1> DEFINE f == Find(s, k)
           c == [kind |-> "text", of |-> <<t>>]
<1>1. c \in RuleContents /\ c.kind = "text" /\ c.of = <<t>>
  BY DEF RuleContents
<1> HIDE DEF c
<1>2. ASSUME NEW r \in Values
      PROVE  Stored(RuledBy(r, t)) = Store!WithFlags(Store!WithContent(Stored(r), c),
                                                     Stored(r).flags \cup {"edit", "automatic"})
  <2> DEFINE v == RuledBy(r, t)
  <2>1. /\ v.key = r.key /\ v.kind = "text" /\ v.of = <<t>>
        /\ v.flags = r.flags \cup {"edit", "automatic"}
    BY RuledValue
  <2> HIDE DEF v
  <2>2. Stored(v) = Store!WithFlags(Store!WithContent(Stored(r), c),
                                   Stored(r).flags \cup {"edit", "automatic"})
    BY <1>1, <2>1, StoredContent
  <2> QED BY <2>2 DEF v
<1>3. CASE f = Gone /\ New(s, RuledBy(Blank(k), t))
  <2>1. Blank(k) \in Values /\ Blank(k).flags = {} /\ RuledBy(Blank(k), t) \in Values
    BY BlankIsValue, RuledValue
  <2>2. PICK o \in Ids : V[o] = Gone /\ Becomes(o, Stored(RuledBy(Blank(k), t)))
    BY <1>3, <2>1, NewBecomes
  <2>3. TargetOf(o, k) = Stored(Blank(k)) /\ "edit" \notin TargetOf(o, k).flags
    BY <2>1, <2>2 DEF TargetOf, Stored
  <2> QED BY <1>1, <1>2, <2>1, <2>2, <2>3, SetterSteps
<1>4. CASE /\ f # Gone /\ "edit" \notin option[f].flags
           /\ option' = [option EXCEPT ![f] = RuledBy(option[f], t)]
  <2>1. f \in Ids /\ option[f] \in Values /\ option[f] # Gone /\ option[f].key = k
    BY <1>4, FoundValue
  <2> HIDE DEF f
  <2>2. RuledBy(option[f], t) \in Values
    BY <2>1, RuledValue
  <2>3. Becomes(f, Stored(RuledBy(option[f], t)))
    BY <1>4, <2>1, <2>2, OptionBecomes DEF KeysInv
  <2>4. V[f] # Gone /\ V[f] = Stored(option[f])
    BY <2>1, Seen DEF KeysInv
  <2>5. /\ TargetOf(f, k) = Stored(option[f]) /\ V[f].key = k
        /\ "edit" \notin TargetOf(f, k).flags
    BY <1>4, <2>1, <2>4 DEF TargetOf, Stored
  <2> QED BY <1>1, <1>2, <2>1, <2>3, <2>5, SetterSteps
<1> QED BY <1>3, <1>4, PolicyCases

-----------------------------------------------------------------------------
(* Merges and the rest.                                                       *)

LEMMA PrefersOutranks ==
  ASSUME NEW r, NEW old, r.key = old.key, Prefers(r, old)
  PROVE  Store!Outranks(Stored(r), Stored(old))
BY DEF Prefers, Stored, Store!Outranks

LEMMA StoreMerge ==
  ASSUME KeysInv, NEW s \in Sets, NEW o \in Held, NEW object
  PROVE  /\ Add(s, o, object) => Store!Add
         /\ Set(s, o, object) => Store!Set
<1>1. o \in Ids /\ option[o] \in Values /\ option[o] # Gone
  BY DEF Held, KeysInv, Types
<1>2. V[o] # Gone /\ V[o] = Stored(option[o])
  BY <1>1, Seen DEF KeysInv
<1>3. ASSUME New(s, option[o]) PROVE Store!Copied
  <2>1. PICK p \in Ids : V[p] = Gone /\ Becomes(p, V[o])
    BY <1>1, <1>2, <1>3, NewBecomes
  <2> QED BY <1>1, <1>2, <2>1 DEF Becomes, Store!Copied, Store!Holds, Store!Becomes, V
<1>4. ASSUME option' = option PROVE Store!Same
  BY <1>4, SameOptions DEF Store!Same, V
<1>5. ASSUME NEW f \in Ids, option[f] # Gone, option[f].key = option[o].key,
             option' = [option EXCEPT ![f] = option[o]]
      PROVE  /\ Store!Set
             /\ Prefers(option[o], option[f]) => Store!Add
  <2>1. Becomes(f, V[o]) /\ V[f] # Gone /\ V[f] = Stored(option[f])
    BY <1>1, <1>2, <1>5, OptionBecomes, Seen DEF KeysInv
  <2>2. V[o].key = V[f].key
    BY <1>2, <1>5, <2>1 DEF Stored
  <2>3. Store!Set
    BY <1>1, <1>2, <2>1, <2>2 DEF Becomes, Store!Set, Store!Holds, Store!Becomes, V
  <2>4. ASSUME Prefers(option[o], option[f]) PROVE Store!Add
    <3>1. Store!Outranks(V[o], V[f])
      BY <1>2, <1>5, <2>1, <2>4, PrefersOutranks
    <3> QED BY <1>1, <1>2, <2>1, <3>1 DEF Becomes, Store!Add, Store!Holds, Store!Becomes, V
  <2> QED BY <2>3, <2>4
<1>6. ASSUME Add(s, o, object) PROVE Store!Add
  BY <1>3, <1>4, <1>5, <1>6, AddCases DEF Store!Add
<1>7. ASSUME Set(s, o, object) PROVE Store!Set
  BY <1>3, <1>4, <1>5, <1>7, MergeCases DEF Store!Set
<1> QED BY <1>6, <1>7

LEMMA StoreUnion ==
  ASSUME KeysInv, NEW s \in Sets, UnionWithDefaults(s)
  PROVE  Store!Adopt
<1> DEFINE D == {Stored(Defaults[i]) : i \in DOMAIN Defaults}
           offers == D \cup {V[p] : p \in {q \in Ids : V[q] # Gone}}
<1>1. ASSUME NEW o \in Ids
      PROVE  \/ V'[o] = V[o]
             \/ V[o] # Gone /\ V'[o] \in offers /\ Store!Outranks(V'[o], V[o])
  <2>1. CASE option'[o] = option[o]
    BY <2>1 DEF V
  <2>2. CASE /\ option[o] # Gone /\ Prefers(option'[o], option[o])
             /\ \/ \E p \in Ids : option[p] # Gone /\ option'[o] = option[p]
                \/ \E i \in 1 .. Len(Defaults) : option'[o] = Defaults[i]
    <3>1. option'[o] # Gone /\ option'[o].key = option[o].key
      BY <2>2, UnionCases
    <3>2. V'[o] = Stored(option'[o]) /\ V[o] # Gone /\ V[o] = Stored(option[o])
      BY <2>2, <3>1, Seen DEF KeysInv, V
    <3>3. Store!Outranks(V'[o], V[o])
      BY <2>2, <3>1, <3>2, PrefersOutranks
    <3>4. CASE \E p \in Ids : option[p] # Gone /\ option'[o] = option[p]
      <4>1. PICK p \in Ids : option[p] # Gone /\ option'[o] = option[p]
        BY <3>4
      <4>2. V'[o] = V[p] /\ V[p] # Gone
        BY <3>2, <4>1, Seen DEF KeysInv
      <4> QED BY <3>2, <3>3, <4>2
    <3>5. CASE \E i \in 1 .. Len(Defaults) : option'[o] = Defaults[i]
      <4>1. PICK i \in DOMAIN Defaults : option'[o] = Defaults[i]
        BY <3>5, OptionValuesAssumption, LenProperties
      <4>2. V'[o] \in D
        BY <3>2, <4>1
      <4> QED BY <3>2, <3>3, <4>2
    <3> QED BY <2>2, <3>4, <3>5
  <2> QED BY <2>1, <2>2, UnionCases
<1>2. DOMAIN V' = Ids
  BY DEF V
<1> QED BY <1>1, <1>2 DEF Store!Adopt, Store!Holds, V

LEMMA StoreFlags ==
  ASSUME KeysInv, NEW o \in Held, SetFlags(o)
  PROVE  Store!Demote
<1>1. o \in Ids /\ option[o] \in Values /\ option[o] # Gone
  BY DEF Held, KeysInv, Types
<1>2. PICK r \in Values : /\ r.key = option[o].key /\ r.kind = option[o].kind
                          /\ r.of = option[o].of /\ r.flags = option[o].flags \ {"edit"}
                          /\ option' = [option EXCEPT ![o] = r]
  BY FlagsCases
<1>3. Becomes(o, Stored(r)) /\ V[o] # Gone /\ V[o] = Stored(option[o])
  BY <1>1, <1>2, OptionBecomes, Seen DEF KeysInv
<1>4. Stored(r) = Store!WithFlags(V[o], V[o].flags \ {"edit"})
  BY <1>2, <1>3 DEF Stored, Store!WithFlags
<1> QED BY <1>1, <1>3, <1>4 DEF Becomes, Store!Demote, Store!Holds, Store!Becomes, V

LEMMA StoreRelease ==
  ASSUME KeysInv, NEW s \in Sets, NEW i \in DOMAIN sets[s], ReleaseAt(s, i)
  PROVE  Store!Release
<1> DEFINE o == sets[s][i]
<1>1. /\ o \in Ids /\ option[o] # Gone
      /\ option' = option \/ option' = [option EXCEPT ![o] = Gone]
  BY ReleaseCases
<1> HIDE DEF o
<1>2. CASE option' = option
  BY <1>2, SameOptions DEF Store!Release, Store!Same, V
<1>3. CASE option' = [option EXCEPT ![o] = Gone]
  <2>1. \A p \in Ids : option'[p] = IF p = o THEN Gone ELSE option[p]
    BY <1>3 DEF KeysInv, Types
  <2>2. Becomes(o, Gone)
    BY <2>1 DEF V, Becomes
  <2>3. V[o] # Gone
    BY <1>1, Seen DEF KeysInv
  <2> QED BY <1>1, <2>2, <2>3 DEF Becomes, Store!Release, Store!Holds, Store!Becomes, V
<1> QED BY <1>1, <1>2, <1>3

LEMMA StoreNextStep == KeysInv /\ [Next]_vars => [Store!StoreNext]_(Store!storeVars)
<1> SUFFICES ASSUME KeysInv, [Next]_vars
             PROVE  Store!StoreNext \/ (V' = V /\ call' = call)
  BY DEF Store!storeVars, V
<1>1. ASSUME ~ down, NEW s \in Sets, NEW k \in Keys, NEW flag \in Flags,
             \/ SetFromNumber(s, k, flag) \/ SetFromString(s, k, flag)
             \/ MoveInStruct(s, k, flag) \/ SetFromData(s, k, flag),
             call' = IF down' THEN "failed" ELSE "setter"
      PROVE  Store!StoreNext
  BY <1>1, StoreSetters
<1>2. ASSUME NEW s \in Sets, NEW o \in Held, NEW object \in BOOLEAN,
             Add(s, o, object), call' = "add"
      PROVE  Store!StoreNext
  BY <1>2, StoreMerge DEF Store!StoreNext
<1>3. ASSUME NEW s \in Sets, NEW o \in Held, NEW object \in BOOLEAN,
             Set(s, o, object), call' = "set"
      PROVE  Store!StoreNext
  BY <1>3, StoreMerge DEF Store!StoreNext
<1>4. ASSUME NEW s \in Sets, UnionWithDefaults(s), call' = "union" PROVE Store!StoreNext
  BY <1>4, StoreUnion DEF Store!StoreNext
<1>5. ASSUME NEW s \in Sets, NEW k \in Keys, NEW t \in Rules, Policy(s, k, t), call' = "policy"
      PROVE  Store!StoreNext
  BY <1>5, StorePolicy DEF Store!StoreNext
<1>6. ASSUME NEW o \in Held, SetFlags(o), call' = "flags" PROVE Store!StoreNext
  BY <1>6, StoreFlags DEF Store!StoreNext
<1>7. ASSUME NEW s \in Sets, NEW i \in DOMAIN sets[s], ReleaseAt(s, i), call' = "release"
      PROVE  Store!StoreNext
  BY <1>7, StoreRelease DEF Store!StoreNext
<1>8. CASE UNCHANGED vars
  BY <1>8, SameOptions DEF vars
<1> QED BY <1>1, <1>2, <1>3, <1>4, <1>5, <1>6, <1>7, <1>8 DEF Next

LEMMA StoreInitial == Init => Store!StoreInit
BY DEF Init, Store!StoreInit

\* Every call does to values and marks of options what the store says of that call:
\* setters leave what they were given and lose nothing else, whatever the marks;
\* oyOptions_Add(), the union with defaults and the policy respect what was set by
\* hand; whichever sets share the options.
THEOREM OptionsImplementStore == Spec => RefinesStore
<1> QED BY StoreInitial, KeysInvariant, StoreNextStep, PTL DEF Spec, RefinesStore, Store!StoreSpec
===============================================================================
