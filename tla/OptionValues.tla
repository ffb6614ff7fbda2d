------------------------------ MODULE OptionValues ------------------------------
(* Options and their values (oyOption_s), and sets of them (oyOptions_s) that *)
(* are filled by setters, merged with each other, with the defaults of a      *)
(* module and with the policy of the user.  A merge without an object to copy *)
(* for shares the option, so that two sets may list the same one.             *)
EXTENDS Naturals, Sequences, SequencesExt

CONSTANTS
  Ids,       \* memory for options
  Sets,      \* sets of options
  Keys,      \* registrations
  Texts,     \* what a user sets,
  Rules,     \* and what defaults and policies hold
  Objects, Kinds, Numbers, Positions,
  Defaults,  \* options that the text of a set is merged with
  Gone

\* oyValue_s: nothing, a text, an object, one number or a list of numbers,
AllKinds == Kinds \cup {"none", "text", "object"}
Data == Seq(Texts \cup Rules \cup Objects \cup Nat)

\* and the option around it.
Options == [key : Keys, kind : AllKinds, list : BOOLEAN, of : Data,
            flags : SUBSET {"edit", "automatic"}]

ASSUME OptionValuesAssumption ==
  /\ Kinds \cap {"none", "text", "object"} = {}
  /\ Numbers \subseteq Nat /\ Positions \subseteq Nat
  /\ Defaults \in Seq([key : Keys, kind : {"text"}, list : {FALSE},
                       of : {<<t>> : t \in Rules}, flags : {{}, {"edit"}}])
  /\ Ids \cap 1 .. Len(Defaults) = {}
  /\ Gone \notin Ids \cup 1 .. Len(Defaults) \cup Options \cup
       [key : Keys, kind : AllKinds, of : Data, flags : SUBSET {"edit", "automatic"}]

VARIABLES
  option,   \* [Ids -> oyOption_s \cup {Gone}]
  sets,     \* oyOptions_s::list_
  doubled,  \* sets that were told not to look for the key
  down,     \* a number was written through a pointer that is none
  call      \* the last call, for the store

vars == <<option, sets, doubled, down, call>>

Init ==
  /\ option = [o \in Ids |-> Gone]
  /\ sets = [s \in Sets |-> <<>>]
  /\ doubled = {}
  /\ down = FALSE
  /\ call = "none"

Blank(k) == [key |-> k, kind |-> "none", list |-> FALSE, of |-> <<>>, flags |-> {}]

Free == {o \in Ids : option[o] = Gone}

\* oyOptions_Find(): the first one; a list of options of a heap.
FindIn(heap, list, k) ==
  LET at == {i \in DOMAIN list : heap[list[i]].key = k}
  IN  IF at = {} THEN Gone ELSE list[CHOOSE i \in at : \A j \in at : i <= j]

Find(s, k) == FindIn(option, sets[s], k)

-----------------------------------------------------------------------------
(* Values of one option.                                                      *)

Edited(r) == [r EXCEPT !.flags = @ \cup {"edit"}]

\* The growing list takes over the old list only.
MutGrow(r, kind, pos) ==
  LET old == IF r.kind = kind /\ r.list THEN r.of ELSE <<>>
  IN  [r EXCEPT !.kind = kind, !.list = TRUE,
                !.of = [i \in 1 .. pos + 1 |-> IF i <= Len(old) THEN old[i] ELSE 0]]

\* A new list of zeros with what the old list, or the single number, held.
Grow(r, kind, pos) ==
  LET old == IF r.kind = kind THEN r.of ELSE <<>>
  IN  [r EXCEPT !.kind = kind, !.list = TRUE,
                !.of = [i \in 1 .. pos + 1 |-> IF i <= Len(old) THEN old[i] ELSE 0]]

\* An object that nobody marked stays, and is marked.
MutTextSet(r, t) ==
  IF r.kind = "object" /\ r.flags = {} THEN Edited(r)
  ELSE Edited([r EXCEPT !.kind = "text", !.list = FALSE, !.of = <<t>>])

\* oyOption_SetFromInt(), oyOption_SetFromDouble(): the position 0 of a value of
\* another kind is written through the wrong member of the union.
NumberSet(r, kind, pos, n) ==
  LET grown == IF pos > 0 /\ ~(r.kind = kind /\ r.list /\ pos < Len(r.of))
               THEN Grow(r, kind, pos)
               ELSE IF r.kind = "none" THEN [r EXCEPT !.kind = kind, !.of = <<0>>] ELSE r
  IN  IF grown.kind # kind THEN Gone
      ELSE Edited([grown EXCEPT !.of[pos + 1] = n])

\* oyOption_SetFromString()
TextSet(r, t) == Edited([r EXCEPT !.kind = "text", !.list = FALSE, !.of = <<t>>])

\* oyOption_MoveInStruct() leaves the flags alone,
ObjectIn(r, x) == [r EXCEPT !.kind = "object", !.list = FALSE, !.of = <<x>>]

\* and oyOption_SetFromData() marks the option, unless it holds the same data.
DataSet(r, x) ==
  IF r.kind = "object" /\ r.of = <<x>> THEN r ELSE Edited(ObjectIn(r, x))

-----------------------------------------------------------------------------
(* Setters of a set: oyOptions_SetFromString(), oyOptions_SetFromInt(), ...   *)

Append1(s, o) == sets' = [sets EXCEPT ![s] = Append(@, o)]

New(s, r) ==
  \E o \in Free : /\ o = CHOOSE p \in Free : TRUE
                  /\ option' = [option EXCEPT ![o] = r]
                  /\ Append1(s, o)

\* OY_CREATE_NEW makes an option that is missing, OY_ADD_ALWAYS one more.
SetFrom(s, k, flag, Setter(_)) ==
  LET f == Find(s, k)
  IN  IF flag = "add_always" \/ (f = Gone /\ flag = "create_new")
      THEN /\ New(s, Setter(Blank(k)))
           /\ doubled' = IF flag = "add_always" THEN doubled \cup {s} ELSE doubled
           /\ UNCHANGED down
      ELSE /\ f # Gone
           /\ IF Setter(option[f]) = Gone
              THEN down' = TRUE /\ UNCHANGED option
              ELSE option' = [option EXCEPT ![f] = Setter(@)] /\ UNCHANGED down
           /\ UNCHANGED <<sets, doubled>>

Flags == {"none", "create_new", "add_always"}

SetFromNumber(s, k, flag) ==
  \E kind \in Kinds, pos \in Positions, n \in Numbers :
    SetFrom(s, k, flag, LAMBDA r : NumberSet(r, kind, pos, n))

SetFromString(s, k, flag) ==
  \E t \in Texts : SetFrom(s, k, flag, LAMBDA r : TextSet(r, t))

MoveInStruct(s, k, flag) ==
  \E x \in Objects : SetFrom(s, k, flag, LAMBDA r : ObjectIn(r, x))

SetFromData(s, k, flag) ==
  \E x \in Objects : SetFrom(s, k, flag, LAMBDA r : DataSet(r, x))

-----------------------------------------------------------------------------
(* Merging.                                                                   *)

\* The older mark does not count.
MutPrefers(new, old) ==
  \/ "edit" \in new.flags
  \/ "automatic" \in new.flags /\ {"automatic", "edit"} \cap old.flags = {}

\* oyOptions_Add(): "preserve manual / on the fly settings", and automatic ones.
Prefers(new, old) ==
  \/ "edit" \in new.flags /\ "edit" \notin old.flags
  \/ "automatic" \in new.flags /\ {"automatic", "edit"} \cap old.flags = {}

\* oyOptions_Add() for a list of options in a heap, without an object.
AddTo(st, o) ==
  LET f == FindIn(st.heap, st.list, st.heap[o].key)
  IN  IF f = Gone THEN [st EXCEPT !.list = Append(@, o)]
      ELSE IF Prefers(st.heap[o], st.heap[f]) THEN [st EXCEPT !.heap[f] = st.heap[o]]
      ELSE st

\* What is found is replaced, marked or not.
MutAdd(s, o, object) ==
  /\ LET f == Find(s, option[o].key)
     IN  IF f # Gone THEN option' = [option EXCEPT ![f] = option[o]] /\ UNCHANGED sets
         ELSE IF object THEN New(s, option[o])
         ELSE Append1(s, o) /\ UNCHANGED option
  /\ UNCHANGED <<doubled, down>>

\* With an object the option is copied when it is new to the set.
Add(s, o, object) ==
  /\ IF object /\ Find(s, option[o].key) = Gone
     THEN New(s, option[o])
     ELSE LET st == AddTo([heap |-> option, list |-> sets[s]], o)
          IN  option' = st.heap /\ sets' = [sets EXCEPT ![s] = st.list]
  /\ UNCHANGED <<doubled, down>>

\* The search ends before the last one.
MutSet(s, o, object) ==
  /\ LET f == FindIn(option, IF sets[s] = <<>> THEN <<>> ELSE Front(sets[s]),
                     option[o].key)
     IN  IF f # Gone THEN option' = [option EXCEPT ![f] = option[o]] /\ UNCHANGED sets
         ELSE IF object THEN New(s, option[o])
         ELSE Append1(s, o) /\ UNCHANGED option
  /\ UNCHANGED <<doubled, down>>

\* oyOptions_Set(): the new option wins.
Set(s, o, object) ==
  /\ LET f == Find(s, option[o].key)
     IN  IF f # Gone THEN option' = [option EXCEPT ![f] = option[o]] /\ UNCHANGED sets
         ELSE IF object THEN New(s, option[o])
         ELSE Append1(s, o) /\ UNCHANGED option
  /\ UNCHANGED <<doubled, down>>

\* Each default is followed by all options of the set.
Offered(s) ==
  LET n == Len(sets[s])
  IN  [i \in 1 .. 2 * Len(Defaults) * n |->
         IF i % 2 = 1 THEN ((i - 1) \div 2) \div n + 1
         ELSE sets[s][(((i - 1) \div 2) % n) + 1]]

\* The options and a new list, after oyOptions_Add() of so many of them.
United(heap, all) ==
  LET after[k \in 0 .. Len(all)] ==
        IF k = 0 THEN [heap |-> heap, list |-> <<>>] ELSE AddTo(after[k - 1], all[k])
  IN  after

\* The union with defaults, for the text of a hash, lists the options themselves.
UnionWithDefaults(s) ==
  LET heap == [o \in Ids \cup 1 .. Len(Defaults) |->
                 IF o \in Ids THEN option[o] ELSE Defaults[o]]
      all == Offered(s)
  IN  /\ sets[s] # <<>>
      /\ option' = [o \in Ids |-> United(heap, all)[Len(all)].heap[o]]
      /\ UNCHANGED <<sets, doubled, down>>

\* oiccChangeNodeOption(): "set missing options and overwrite filter inbuild
\* fallbacks.  Do not touch edits."
Policy(s, k, t) ==
  LET f == Find(s, k)
      Ruled(r) == [TextSet(r, t) EXCEPT !.flags = @ \cup {"automatic"}]
  IN  /\ IF f = Gone THEN New(s, Ruled(Blank(k)))
         ELSE /\ "edit" \notin option[f].flags /\ option[f].of # <<t>>
              /\ option' = [option EXCEPT ![f] = Ruled(@)]
              /\ UNCHANGED sets
      /\ UNCHANGED <<doubled, down>>

\* oyOption_SetFlags() without oyOPTIONATTRIBUTE_EDIT, as for a module's options.
SetFlags(o) ==
  /\ option' = [option EXCEPT ![o].flags = @ \ {"edit"}]
  /\ UNCHANGED <<sets, doubled, down>>

\* oyOptions_ReleaseAt(): the option ends with the last set that lists it.
ReleaseAt(s, i) ==
  LET o == sets[s][i]
  IN  /\ sets' = [sets EXCEPT ![s] = RemoveAt(@, i)]
      /\ option' = IF \E u \in Sets : o \in ToSet(sets'[u]) THEN option
                   ELSE [option EXCEPT ![o] = Gone]
      /\ UNCHANGED <<doubled, down>>

-----------------------------------------------------------------------------
Held == {o \in Ids : option[o] # Gone}

Next ==
  /\ ~down
  /\ \/ /\ \E s \in Sets, k \in Keys, flag \in Flags :
             \/ SetFromNumber(s, k, flag)
             \/ SetFromString(s, k, flag)
             \/ MoveInStruct(s, k, flag)
             \/ SetFromData(s, k, flag)
        /\ call' = IF down' THEN "failed" ELSE "setter"
     \/ \E s \in Sets, o \in Held, object \in BOOLEAN :
          \/ Add(s, o, object) /\ call' = "add"
          \/ Set(s, o, object) /\ call' = "set"
     \/ \E s \in Sets : UnionWithDefaults(s) /\ call' = "union"
     \/ \E s \in Sets, k \in Keys, t \in Rules : Policy(s, k, t) /\ call' = "policy"
     \/ \E o \in Held : SetFlags(o) /\ call' = "flags"
     \/ \E s \in Sets : \E i \in DOMAIN sets[s] : ReleaseAt(s, i) /\ call' = "release"

Spec == Init /\ [][Next]_vars

-----------------------------------------------------------------------------
\* A set lists each key once, whether its setters, oyOptions_Add() or
\* oyOptions_Set() list it, unless it is told not to look: "we must not add any
\* already listed option".
KeysOnce ==
  \A s \in Sets \ doubled : \A k \in Keys :
    Cardinality({i \in DOMAIN sets[s] : option[sets[s][i]].key = k}) <= 1

\* Whether numbers are a list is of no interest to the store.
Stored(r) == [key |-> r.key, kind |-> r.kind, of |-> r.of, flags |-> r.flags]

Store == INSTANCE OptionStore WITH
  Contents <- [kind : {"text"}, of : {<<t>> : t \in Texts}] \cup
              [kind : {"object"}, of : {<<x>> : x \in Objects}],
  Rules <- [kind : {"text"}, of : {<<t>> : t \in Rules}],
  Defaults <- {Stored(Defaults[i]) : i \in DOMAIN Defaults},
  held <- [o \in Ids |-> IF option[o] = Gone THEN Gone ELSE Stored(option[o])]

\* Each call does to values and marks what the store says of it: a setter leaves
\* what it was given at its position and loses nothing else, through growing lists
\* and changes of the kind of value, on marked options and others;
\* oyOptions_Add(), the union with defaults and the policy never replace a value
\* that was set by hand, and take a value over from an option of the same key with
\* a mark that counts more; only oyOptions_Set() and setters replace any value.
\* All of it whichever sets share the option.
RefinesStore == Store!StoreSpec
=============================================================================
