---------------------------- MODULE Contexts_proofs ----------------------------
(* For all options, modules, profiles and layouts: the caches are honest, and *)
(* therefore a context that is kept, found or made is one of the present      *)
(* options and images, apart from changes that are not signalled.             *)
EXTENDS Contexts, TLAPS

\* What the two properties need to know of the variables: opt is a function of all
\* names, whatever the values are.
ContextTypes ==
  /\ opt = [n \in Names |-> opt[n]]
  /\ choice \in [core : Cores \cup {Unknown, NoCore}, edit : BOOLEAN]

\* A context found in a cache is as good as one that is made, which is why the two
\* properties go together.
ContextInv == ContextTypes /\ CacheHonest /\ FreshContext

-----------------------------------------------------------------------------
(* oyFilterNode_SetContext_().                                                 *)

\* A link or transform is of the module c and of the options and images as they are.
LinkNow(link, c) == link.core = c /\ link.profile = image.profile /\ link.opt = opt

Now(transform, c) == LinkNow(transform.link, c) /\ transform.layout = image.layout

\* A transform made of such a device link leaves honest caches behind.
LEMMA ConvertHonest ==
  ASSUME CacheHonest, NEW c, NEW link, LinkNow(link, c), Convert(c, link),
         links' = links \/ links' = Put(links, Hash4(c), link)
  PROVE  CacheHonest' /\ Now(context', c) /\ unheard' = {}
<1> DEFINE Honest(l, h) == l.core = h.core /\ l.profile = h.profile /\ l.opt = h.opt
<1>1. /\ Honest(link, Hash4(c))
      /\ Honest(TransformOf(link).link, Hash7(c).link)
      /\ TransformOf(link).layout = Hash7(c).layout
  BY DEF LinkNow, Hash4, Hash7, TransformOf
<1>2. \A h \in DOMAIN links' : Honest(links'[h], h)
  <2>1. CASE links' = links
    BY <2>1 DEF CacheHonest
  <2>2. CASE links' = Put(links, Hash4(c), link)
    <3>1. /\ DOMAIN links' = DOMAIN links \cup {Hash4(c)}
          /\ \A h \in DOMAIN links \cup {Hash4(c)} :
               links'[h] = IF h = Hash4(c) THEN link ELSE links[h]
      BY <2>2 DEF Put
    <3>2. QED
      BY <3>1, <1>1 DEF CacheHonest
  <2>3. QED
    BY <2>1, <2>2
<1>3. /\ \A h \in DOMAIN transforms' : Honest(transforms'[h].link, h.link)
      /\ \A h \in DOMAIN transforms' : transforms'[h].layout = h.layout
  <2>1. /\ DOMAIN transforms' = DOMAIN transforms \cup {Hash7(c)}
        /\ \A h \in DOMAIN transforms \cup {Hash7(c)} :
             transforms'[h] = IF h = Hash7(c) THEN TransformOf(link) ELSE transforms[h]
    BY DEF Convert, Put
  <2>2. QED
    BY <2>1, <1>1 DEF CacheHonest
<1>4. Now(context', c) /\ unheard' = {}
  BY DEF Convert, TransformOf, Now, LinkNow
<1>5. QED
  BY <1>2, <1>3, <1>4 DEF CacheHonest

\* A context made now is fresh, if its module is the selected one or the fallback
\* where that one fails.
LEMMA NowFresh ==
  ASSUME NEW c, Now(context', c), UNCHANGED <<opt, choice, image>>,
         \/ c = Selected
         \/ c = Fallback /\ ~choice.edit /\ ~CanLink(Selected)
  PROVE  FreshContext'
<1>1. /\ context'.link.core = c /\ context'.link.profile = image'.profile
      /\ context'.link.opt = opt' /\ context'.layout = image'.layout
  BY DEF Now, LinkNow
<1>2. choice'.core # NoCore =>
        \/ context'.link.core = choice'.core
        \/ /\ ~choice'.edit /\ context'.link.core = Fallback
           /\ <<choice'.core, context'.link.profile>> \notin Linkable
  BY <1>1 DEF Selected, CanLink
<1>3. QED
  BY <1>1, <1>2 DEF FreshContext

\* oyFilterNode_SetContext_() keeps the caches honest and the context fresh,
\* whether it finds a transform, a device link, or nothing.
LEMMA SetContextKeeps ==
  ASSUME CacheHonest, FreshContext, SetContext, UNCHANGED <<opt, choice, image>>
  PROVE  CacheHonest' /\ FreshContext'
<1> DEFINE c == Selected
<1>1. CASE UNCHANGED <<context, links, transforms, unheard>>
  BY <1>1 DEF CacheHonest, FreshContext
<1>2. CASE TakeTransform(c)
  <2>1. Now(context', c) /\ CacheHonest'
    BY <1>2 DEF TakeTransform, Found, CacheHonest, Hash7, Hash4, Now, LinkNow
  <2>2. QED
    BY <2>1, NowFresh
<1>3. CASE ConvertLink(c)
  <2>1. LinkNow(links[Hash4(c)], c)
    BY <1>3 DEF ConvertLink, CacheHonest, Hash4, LinkNow
  <2>2. Convert(c, links[Hash4(c)]) /\ links' = links
    BY <1>3 DEF ConvertLink
  <2>3. CacheHonest' /\ Now(context', c)
    BY <2>1, <2>2, ConvertHonest
  <2>4. QED
    BY <2>3, NowFresh
<1>4. CASE MakeLink(c)
  <2>1. Convert(c, LinkOf(c)) /\ links' = Put(links, Hash4(c), LinkOf(c))
    BY <1>4 DEF MakeLink
  <2>2. LinkNow(LinkOf(c), c)
    BY DEF LinkOf, LinkNow
  <2>3. CacheHonest' /\ Now(context', c)
    BY <2>1, <2>2, ConvertHonest
  <2>4. QED
    BY <2>3, NowFresh
<1>5. CASE MakeFallback(c)
  <2>1. /\ Convert(Fallback, LinkOf(Fallback))
        /\ links' = Put(links, Hash4(Fallback), LinkOf(Fallback))
        /\ ~choice.edit /\ ~CanLink(c)
    BY <1>5 DEF MakeFallback
  <2>2. LinkNow(LinkOf(Fallback), Fallback)
    BY DEF LinkOf, LinkNow
  <2>3. CacheHonest' /\ Now(context', Fallback)
    BY <2>1, <2>2, ConvertHonest
  <2>4. QED
    BY <2>1, <2>3, NowFresh
<1>6. CASE NoLink(c)
  BY <1>6, <1>1 DEF NoLink
<1>7. QED
  BY <1>1, <1>2, <1>3, <1>4, <1>5, <1>6 DEF SetContext

-----------------------------------------------------------------------------
(* The steps.                                                                 *)

LEMMA InitContextInv == Init => ContextInv
<1> SUFFICES ASSUME Init PROVE ContextInv
  OBVIOUS
<1>1. ContextTypes
  BY ContextsAssumption DEF Init, ContextTypes
<1>2. CacheHonest
  BY DEF Init, CacheHonest
<1>3. FreshContext
  BY DEF Init, FreshContext
<1>4. QED
  BY <1>1, <1>2, <1>3 DEF ContextInv

LEMMA PrepareKeeps ==
  ASSUME CacheHonest, FreshContext, NEW flags \in BOOLEAN, Prepare(flags),
         UNCHANGED <<opt, choice, image>>
  PROVE  CacheHonest' /\ FreshContext'
<1>1. CASE SetContext
  BY <1>1, SetContextKeeps
<1>2. CASE UNCHANGED <<core, context, links, transforms, unheard, seen>>
  BY <1>2 DEF CacheHonest, FreshContext
<1>3. QED
  BY <1>1, <1>2 DEF Prepare

\* A step that leaves options, images, contexts and caches alone.
LEMMA QuietStep ==
  ASSUME ContextInv,
         UNCHANGED <<opt, choice, image, context, links, transforms, unheard>>
  PROVE  ContextInv'
  BY DEF ContextInv, ContextTypes, CacheHonest, FreshContext

LEMMA NextContextInv == ContextInv /\ [Next]_vars => ContextInv'
<1> SUFFICES ASSUME ContextInv, [Next]_vars PROVE ContextInv'
  OBVIOUS
<1> USE DEF ContextInv
<1>1. ASSUME NEW n \in Names, NEW v \in Values, SetOption(n, v) PROVE ContextInv'
  <2>1. ContextTypes' /\ CacheHonest'
    BY <1>1 DEF SetOption, ContextTypes, CacheHonest
  <2>2. \A k \in Names : k # n => opt'[k] = opt[k]
    BY <1>1 DEF SetOption, ContextTypes
  <2>3. FreshContext'
    BY <1>1, <2>2 DEF SetOption, Signal, FreshContext
  <2>4. QED
    BY <2>1, <2>3
<1>2. ASSUME NEW n \in Names, NEW v \in Values, MoveInOption(n, v) PROVE ContextInv'
  <2>1. ContextTypes' /\ CacheHonest'
    BY <1>2 DEF MoveInOption, ContextTypes, CacheHonest
  <2>2. \A k \in Names : k # n => opt'[k] = opt[k]
    BY <1>2 DEF MoveInOption, ContextTypes
  <2>3. FreshContext'
    BY <1>2, <2>2 DEF MoveInOption, FreshContext
  <2>4. QED
    BY <2>1, <2>3
<1>3. ASSUME NEW c \in Cores \cup {Unknown}, SetChoice(c) PROVE ContextInv'
  <2>1. ContextTypes' /\ CacheHonest'
    BY <1>3 DEF SetChoice, ContextTypes, CacheHonest
  <2>2. FreshContext'
    BY <1>3 DEF SetChoice, Signal, FreshContext
  <2>3. QED
    BY <2>1, <2>2
<1>4. ASSUME NEW p \in Profiles \cup {NoImage}, NEW l \in Layouts, SetData(p, l)
      PROVE  ContextInv'
  <2>1. ContextTypes' /\ CacheHonest'
    BY <1>4 DEF SetData, ContextTypes, CacheHonest
  <2>2. FreshContext'
    BY <1>4 DEF SetData, FreshContext
  <2>3. QED
    BY <2>1, <2>2
<1>5. CASE GetOptions
  BY <1>5, QuietStep DEF GetOptions
<1>6. CASE ToBlob
  BY <1>6, QuietStep DEF ToBlob
<1>7. ASSUME NEW flags \in BOOLEAN, PrepareContexts(flags) PROVE ContextInv'
  <2>1. CacheHonest' /\ FreshContext'
    BY <1>7, PrepareKeeps DEF PrepareContexts
  <2>2. ContextTypes'
    BY <1>7 DEF PrepareContexts, ContextTypes
  <2>3. QED
    BY <2>1, <2>2
<1>8. CASE RunGood
  BY <1>8, QuietStep DEF RunGood
<1>9. CASE RunAgain
  <2>1. CacheHonest' /\ FreshContext'
    BY <1>9, PrepareKeeps DEF RunAgain
  <2>2. ContextTypes'
    BY <1>9 DEF RunAgain, ContextTypes
  <2>3. QED
    BY <2>1, <2>2
<1>10. CASE RunFails
  BY <1>10, QuietStep DEF RunFails
<1>11. CASE UNCHANGED vars
  BY <1>11, QuietStep DEF vars
<1>12. QED
  BY <1>1, <1>2, <1>3, <1>4, <1>5, <1>6, <1>7, <1>8, <1>9, <1>10, <1>11 DEF Next

-----------------------------------------------------------------------------
(* Why a run fails.                                                            *)

\* The types that tell an empty context from none, and what is known of an option
\* "context" that nobody edited.
MadeTypes ==
  /\ opt \in [Names -> Values \cup {Unset}]
  /\ image \in [profile : Profiles \cup {NoImage}, layout : Layouts]
  /\ core \in Cores
  /\ context \in Transforms \cup {NoContext}
  /\ \A h \in DOMAIN links : links[h] \in DeviceLinks
  /\ \A h \in DOMAIN transforms : transforms[h] \in Transforms
  /\ choice \in [core : Cores \cup {Unknown, NoCore}, edit : BOOLEAN]
  /\ IF choice.edit THEN choice.core # NoCore ELSE choice.core \in {Main, NoCore}

FailInv == MadeTypes /\ FailsForCause

LEMMA InitFailInv == Init => FailInv
<1> SUFFICES ASSUME Init PROVE FailInv
  OBVIOUS
<1>1. FailsForCause
  BY DEF Init, FailsForCause
<1>2. (CHOOSE v \in Values : TRUE) \in Values /\ (CHOOSE l \in Layouts : TRUE) \in Layouts
  BY ContextsAssumption
<1>3. opt \in [Names -> Values \cup {Unset}]
  BY <1>2 DEF Init
<1>4. /\ core \in Cores /\ context = NoContext
      /\ links = <<>> /\ transforms = <<>>
  BY ContextsAssumption DEF Init
<1>5. DOMAIN links = {} /\ DOMAIN transforms = {}
  BY <1>4
<1>6. image \in [profile : Profiles \cup {NoImage}, layout : Layouts]
  BY <1>2 DEF Init
<1>7. /\ choice \in [core : Cores \cup {Unknown, NoCore}, edit : BOOLEAN]
      /\ ~choice.edit /\ choice.core \in {Main, NoCore}
  BY ContextsAssumption DEF Init
<1>8. MadeTypes
  BY <1>3, <1>4, <1>5, <1>6, <1>7 DEF MadeTypes
<1>9. QED
  BY <1>1, <1>8 DEF FailInv

\* A module that makes a device link is one of the modules, and the image is there.
LEMMA LinkIsTyped ==
  ASSUME MadeTypes, NEW c, CanLink(c)
  PROVE  LinkOf(c) \in DeviceLinks
  BY ContextsAssumption DEF CanLink, MadeTypes, LinkOf, DeviceLinks

LEMMA TransformIsTyped ==
  ASSUME MadeTypes, NEW link \in DeviceLinks
  PROVE  TransformOf(link) \in Transforms
<1>1. image.layout \in Layouts /\ (image.layout \in Convertible) \in BOOLEAN
  BY DEF MadeTypes
<1>2. QED
  BY <1>1 DEF TransformOf, Transforms

\* A transform that is made is a context, and the caches keep their types.
LEMMA ConvertMakes ==
  ASSUME MadeTypes, NEW c, NEW k \in Cores, NEW link \in DeviceLinks,
         core' = k, context' = TransformOf(link),
         transforms' = Put(transforms, Hash7(c), TransformOf(link)),
         \/ links' = links
         \/ links' = Put(links, Hash4(c), link),
         UNCHANGED <<opt, choice, image>>
  PROVE  MadeTypes' /\ context' \in Transforms
<1>1. TransformOf(link) \in Transforms
  BY TransformIsTyped
<1>2. \A h \in DOMAIN transforms' : transforms'[h] \in Transforms
  BY <1>1 DEF Put, MadeTypes
<1>3. \A h \in DOMAIN links' : links'[h] \in DeviceLinks
  <2>1. CASE links' = links
    BY <2>1 DEF MadeTypes
  <2>2. CASE links' = Put(links, Hash4(c), link)
    BY <2>2 DEF Put, MadeTypes
  <2>3. QED
    BY <2>1, <2>2
<1>4. QED
  BY <1>1, <1>2, <1>3 DEF MadeTypes

\* Without a known module, or without a device link, nothing is made.
NothingMade ==
  ~CanLink(Selected) /\ (choice.edit \/ ~CanLink(Fallback))

\* oyFilterNode_SetContext_() leaves a context behind, or keeps what there was for
\* a cause that is still there afterwards.
LEMMA SetContextMakes ==
  ASSUME MadeTypes, SetContext, UNCHANGED <<opt, choice, image>>
  PROVE  /\ MadeTypes'
         /\ context' \in Transforms \/ (context' = context /\ NothingMade')
<1> DEFINE c == Selected
<1>1. CASE choice.core = Unknown
  <2>1. UNCHANGED <<core, context, links, transforms, unheard>>
    BY <1>1 DEF SetContext
  <2>2. MadeTypes'
    BY <2>1 DEF MadeTypes
  <2>3. choice.edit /\ Unknown # NoCore /\ \A p : <<Unknown, p>> \notin Linkable
    BY <1>1, ContextsAssumption DEF MadeTypes
  <2>4. NothingMade'
    BY <1>1, <2>1, <2>3 DEF NothingMade, Selected, CanLink
  <2>5. QED
    BY <2>1, <2>2, <2>4
<1>2. CASE choice.core # Unknown
  <2> USE <1>2
  <2>1. c \in Cores /\ Fallback \in Cores
    BY ContextsAssumption DEF Selected, MadeTypes
  <2>2. CASE TakeTransform(c)
    <3>1. context' \in Transforms
      BY <2>2 DEF TakeTransform, Found, MadeTypes
    <3>2. MadeTypes'
      BY <2>1, <2>2, <3>1 DEF TakeTransform, MadeTypes
    <3>3. QED
      BY <3>1, <3>2
  <2>3. CASE ConvertLink(c)
    <3>1. links[Hash4(c)] \in DeviceLinks
      BY <2>3 DEF ConvertLink, MadeTypes
    <3>2. QED
      BY <2>1, <2>3, <3>1, ConvertMakes DEF ConvertLink, Convert
  <2>4. CASE MakeLink(c)
    <3>1. LinkOf(c) \in DeviceLinks
      BY <2>4, LinkIsTyped DEF MakeLink
    <3>2. QED
      BY <2>1, <2>4, <3>1, ConvertMakes DEF MakeLink, Convert
  <2>5. CASE MakeFallback(c)
    <3>1. LinkOf(Fallback) \in DeviceLinks
      BY <2>5, LinkIsTyped DEF MakeFallback
    <3>2. QED
      BY <2>1, <2>5, <3>1, ConvertMakes DEF MakeFallback, Convert
  <2>6. CASE NoLink(c)
    <3>1. /\ core' = IF choice.edit THEN c ELSE Fallback
          /\ UNCHANGED <<context, links, transforms>>
          /\ ~CanLink(c) /\ (choice.edit \/ ~CanLink(Fallback))
      BY <2>6 DEF NoLink
    <3>2. MadeTypes'
      BY <2>1, <3>1 DEF MadeTypes
    <3>3. NothingMade'
      BY <3>1 DEF NothingMade, Selected, CanLink, MadeTypes
    <3>4. QED
      BY <3>1, <3>2, <3>3
  <2>7. QED
    BY <2>2, <2>3, <2>4, <2>5, <2>6 DEF SetContext
<1>3. QED
  BY <1>1, <1>2

LEMMA PrepareMakes ==
  ASSUME MadeTypes, NEW flags \in BOOLEAN, Prepare(flags),
         UNCHANGED <<opt, choice, image>>
  PROVE  /\ MadeTypes'
         /\ \/ context' \in Transforms
            \/ context' = context /\ (context = NoContext => NothingMade')
<1>1. CASE flags \/ context = NoContext
  BY <1>1, SetContextMakes DEF Prepare
<1>2. CASE ~(flags \/ context = NoContext)
  <2>1. UNCHANGED <<core, context, links, transforms, unheard, seen>>
    BY <1>2 DEF Prepare
  <2>2. QED
    BY <1>2, <2>1 DEF MadeTypes
<1>3. QED
  BY <1>1, <1>2

\* A change of the application is no failed run, and leaves links and transforms.
LEMMA ChangeKeepsFailInv ==
  ASSUME MadeTypes, Changed, context' \in {context, NoContext},
         UNCHANGED <<core, links, transforms>>,
         opt' \in [Names -> Values \cup {Unset}],
         image' \in [profile : Profiles \cup {NoImage}, layout : Layouts],
         choice' \in [core : Cores \cup {Unknown, NoCore}, edit : BOOLEAN],
         IF choice'.edit THEN choice'.core # NoCore ELSE choice'.core \in {Main, NoCore}
  PROVE  FailInv'
<1>1. MadeTypes'
  BY DEF MadeTypes
<1>2. FailsForCause'
  BY DEF Changed, FailsForCause
<1>3. QED
  BY <1>1, <1>2 DEF FailInv

LEMMA NextFailInv == FailInv /\ [Next]_vars => FailInv'
<1> SUFFICES ASSUME FailInv, [Next]_vars PROVE FailInv'
  OBVIOUS
<1>0. MadeTypes /\ FailsForCause
  BY DEF FailInv
<1>1. ASSUME NEW n \in Names, NEW v \in Values, SetOption(n, v) PROVE FailInv'
  <2>1. opt' \in [Names -> Values \cup {Unset}]
    BY <1>0, <1>1 DEF SetOption, MadeTypes
  <2>2. /\ Changed /\ context' \in {context, NoContext}
        /\ UNCHANGED <<core, links, transforms, image, choice>>
    BY <1>1 DEF SetOption, Signal
  <2>3. QED
    BY <1>0, <2>1, <2>2, ChangeKeepsFailInv DEF MadeTypes
<1>2. ASSUME NEW n \in Names, NEW v \in Values, MoveInOption(n, v) PROVE FailInv'
  <2>1. opt' \in [Names -> Values \cup {Unset}]
    BY <1>0, <1>2 DEF MoveInOption, MadeTypes
  <2>2. /\ Changed /\ context' \in {context, NoContext}
        /\ UNCHANGED <<core, links, transforms, image, choice>>
    BY <1>2 DEF MoveInOption
  <2>3. QED
    BY <1>0, <2>1, <2>2, ChangeKeepsFailInv DEF MadeTypes
<1>3. ASSUME NEW c \in Cores \cup {Unknown}, SetChoice(c) PROVE FailInv'
  <2>1. choice' = [core |-> c, edit |-> TRUE] /\ c # NoCore
    BY <1>3, ContextsAssumption DEF SetChoice
  <2>2. /\ Changed /\ context' \in {context, NoContext}
        /\ UNCHANGED <<core, links, transforms, image, opt>>
    BY <1>3 DEF SetChoice, Signal
  <2>3. QED
    BY <1>0, <2>1, <2>2, ChangeKeepsFailInv DEF MadeTypes
<1>4. ASSUME NEW p \in Profiles \cup {NoImage}, NEW l \in Layouts, SetData(p, l)
      PROVE  FailInv'
  BY <1>0, <1>4, ChangeKeepsFailInv DEF SetData, MadeTypes
<1>5. CASE GetOptions
  BY <1>0, <1>5 DEF GetOptions, FailInv, MadeTypes, FailsForCause, CanLink, Selected
<1>6. CASE ToBlob
  <2>1. core' \in Cores /\ Selected' = Selected
    BY <1>0, <1>6 DEF ToBlob, Selected, MadeTypes
  <2>2. UNCHANGED <<opt, choice, image, context, links, transforms, result>>
    BY <1>6 DEF ToBlob
  <2>3. MadeTypes'
    BY <1>0, <2>1, <2>2 DEF MadeTypes
  <2>4. FailsForCause'
    BY <1>0, <2>1, <2>2 DEF FailsForCause, CanLink
  <2>5. QED
    BY <2>3, <2>4 DEF FailInv
<1>7. ASSUME NEW flags \in BOOLEAN, PrepareContexts(flags) PROVE FailInv'
  <2>1. MadeTypes'
    BY <1>0, <1>7, PrepareMakes DEF PrepareContexts
  <2>2. FailsForCause'
    BY <1>7 DEF PrepareContexts, FailsForCause
  <2>3. QED
    BY <2>1, <2>2 DEF FailInv
<1>8. CASE RunGood
  BY <1>0, <1>8 DEF RunGood, FailInv, MadeTypes, FailsForCause
<1>9. CASE RunAgain
  <2>1. UNCHANGED <<opt, choice, image>> /\ Prepare(FALSE)
    BY <1>9 DEF RunAgain
  <2>2. /\ MadeTypes'
        /\ \/ context' \in Transforms
           \/ context' = context /\ (context = NoContext => NothingMade')
    BY <1>0, <2>1, PrepareMakes
  <2>3. result' = "failed" =>
          image.profile = NoImage \/ context' = NoContext \/ ~context'.good
    BY <1>9 DEF RunAgain
  <2>4. NoContext \notin Transforms
    BY ContextsAssumption
  <2>5. FailsForCause'
    BY <2>1, <2>2, <2>3, <2>4 DEF FailsForCause, NothingMade
  <2>6. QED
    BY <2>2, <2>5 DEF FailInv
<1>10. CASE RunFails
  <2>1. image.profile = NoImage
    BY <1>10 DEF RunFails, Spoil
  <2>2. QED
    BY <1>0, <1>10, <2>1 DEF RunFails, FailInv, MadeTypes, FailsForCause
<1>11. CASE UNCHANGED vars
  BY <1>0, <1>11 DEF vars, FailInv, MadeTypes, FailsForCause, CanLink, Selected
<1>12. QED
  BY <1>1, <1>2, <1>3, <1>4, <1>5, <1>6, <1>7, <1>8, <1>9, <1>10, <1>11 DEF Next

-----------------------------------------------------------------------------
(* The theorems.                                                              *)

\* The caches and the context of the node agree with what they stand for, in
\* every state of every conversion: the inductive invariant.
THEOREM ContextInvariant == Spec => []ContextInv
  BY InitContextInv, NextContextInv, PTL DEF Spec

\* What oyHash_Get() finds under a hash was made of what the hash stands for, also
\* after another module stepped in.
THEOREM CachesHonest == Spec => []CacheHonest
<1>1. ContextInv => CacheHonest
  BY DEF ContextInv
<1>2. QED
  BY <1>1, ContextInvariant, PTL

\* The context of a node is that of its options, images and module, apart from what
\* changed without a signal.
THEOREM ContextsFresh == Spec => []FreshContext
<1>1. ContextInv => FreshContext
  BY DEF ContextInv
<1>2. QED
  BY <1>1, ContextInvariant, PTL

\* A conversion that fails has no image, keeps an empty context, or neither module
\* can make a device link: what an option's signal released is made again on the way.
THEOREM FailuresHaveCause == Spec => []FailsForCause
<1>1. FailInv => FailsForCause
  BY DEF FailInv
<1>2. QED
  BY <1>1, InitFailInv, NextFailInv, PTL DEF Spec
=============================================================================
