------------------------------ MODULE OptionStore ------------------------------
(* What options promise, call by call: a setter leaves what it was given, and *)
(* the mark of the user, or of nobody for an object that is moved in; options *)
(* that are added or adopted give way to what carries a mark; what is set for *)
(* an option wins.                                                            *)
EXTENDS Naturals, Sequences

CONSTANTS
  Ids,
  Keys,
  Contents,  \* texts and objects of the user: [kind, of]
  Rules,     \* texts of the policy: [kind, of]
  Kinds, Numbers, Positions,
  Defaults,  \* options of modules
  Gone

VARIABLES
  held,  \* options: [key, kind, of, flags], or Gone
  call   \* the last call

storeVars == <<held, call>>

StoreInit == held = [o \in Ids |-> Gone] /\ call = "none"

Holds(o) == held[o] # Gone

Same == UNCHANGED held

Becomes(o, r) == held' = [held EXCEPT ![o] = r]

-----------------------------------------------------------------------------
(* Setters, of an option of the key or of a new one.                          *)

Target(o, k) ==
  IF Holds(o) THEN held[o] ELSE [key |-> k, kind |-> "none", of |-> <<>>, flags |-> {}]

HasKey(o, k) == Holds(o) => held[o].key = k

WithContent(r, v) == [key |-> r.key, kind |-> v.kind, of |-> v.of, flags |-> r.flags]

WithFlags(r, flags) == [key |-> r.key, kind |-> r.kind, of |-> r.of, flags |-> flags]

ByHand(r) == WithFlags(r, r.flags \cup {"edit"})

\* Number n at position pos, after numbers that were there already or zeros.
PutAt(r, kind, pos, n) ==
  LET old == IF r.kind = kind THEN r.of ELSE <<>>
      len == IF pos < Len(old) THEN Len(old) ELSE pos + 1
  IN  WithContent(r, [kind |-> kind,
                      of |-> [i \in 1 .. len |-> IF i = pos + 1 THEN n
                                                 ELSE IF i <= Len(old) THEN old[i] ELSE 0]])

SetNumber(o, k, kind, pos, n) ==
  HasKey(o, k) /\ Becomes(o, ByHand(PutAt(Target(o, k), kind, pos, n)))

SetContent(o, k, v) == HasKey(o, k) /\ Becomes(o, ByHand(WithContent(Target(o, k), v)))

\* An object that is moved in does not count as set by hand.
MoveIn(o, k, v) == HasKey(o, k) /\ Becomes(o, WithContent(Target(o, k), v))

Setter ==
  \E o \in Ids, k \in Keys :
    \/ \E kind \in Kinds, pos \in Positions, n \in Numbers : SetNumber(o, k, kind, pos, n)
    \/ \E v \in Contents : SetContent(o, k, v) \/ MoveIn(o, k, v)

\* The policy of the user counts as set by hand, and yields to it.
SetByPolicy(o, k, v) ==
  /\ HasKey(o, k) /\ "edit" \notin Target(o, k).flags
  /\ Becomes(o, WithFlags(WithContent(Target(o, k), v),
                          Target(o, k).flags \cup {"edit", "automatic"}))

Policy == \E o \in Ids, k \in Keys, v \in Rules : SetByPolicy(o, k, v)

-----------------------------------------------------------------------------
(* Merges, of options of one key.                                             *)

Outranks(r, old) ==
  /\ r.key = old.key
  /\ "edit" \notin old.flags
  /\ "edit" \in r.flags \/ ("automatic" \in r.flags /\ "automatic" \notin old.flags)

\* A set lists a copy of an option,
Copied == \E o, p \in Ids : ~Holds(o) /\ Holds(p) /\ Becomes(o, held[p])

\* or the option itself, or an option of the same key takes over its value if that
\* outranks its own,
Add ==
  \/ Same \/ Copied
  \/ \E o, p \in Ids : Holds(o) /\ Holds(p) /\ Outranks(held[p], held[o]) /\ Becomes(o, held[p])

\* or in any case.
Set ==
  \/ Same \/ Copied
  \/ \E o, p \in Ids :
       Holds(o) /\ Holds(p) /\ held[p].key = held[o].key /\ Becomes(o, held[p])

\* Many options take over what outranks them, of each other and of the defaults.
Adopt ==
  LET offers == Defaults \cup {held[p] : p \in {q \in Ids : Holds(q)}}
  IN  /\ DOMAIN held' = Ids
      /\ \A o \in Ids :
           \/ held'[o] = held[o]
           \/ Holds(o) /\ held'[o] \in offers /\ Outranks(held'[o], held[o])

-----------------------------------------------------------------------------
\* Only the user takes the mark away.
Demote == \E o \in Ids : Holds(o) /\ Becomes(o, WithFlags(held[o], held[o].flags \ {"edit"}))

Release == Same \/ \E o \in Ids : Holds(o) /\ Becomes(o, Gone)

StoreNext ==
  \/ call' = "setter" /\ Setter
  \/ call' = "failed" /\ Same
  \/ call' = "policy" /\ Policy
  \/ call' = "add" /\ Add
  \/ call' = "set" /\ Set
  \/ call' = "union" /\ Adopt
  \/ call' = "flags" /\ Demote
  \/ call' = "release" /\ Release

StoreSpec == StoreInit /\ [][StoreNext]_storeVars
=============================================================================
