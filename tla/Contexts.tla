------------------------------- MODULE Contexts -------------------------------
(* The context of a filter node: what a colour module made of the options and *)
(* images of the node, so that the conversion can process pixels.  A context  *)
(* is made on demand, kept in two caches under a hash of what it was made of, *)
(* and released when an observed option changes.                              *)
(*                                                                            *)
(* One conversion is modelled: an image, a node of the lcm2 module, and an    *)
(* output.  Another node of the program shares the caches and nothing else;   *)
(* it is this node with other options at another time.                        *)
EXTENDS Naturals

CONSTANTS
  Names,        \* options of the node, apart from the one named "context"
  Objects,      \* those that hold an object, which is moved in
  Values,       \* what an option can be set to, other than its default
  Unset,        \* the option does not exist
  Cores,        \* modules that make a device link
  Main,         \* the module that the node has first
  Fallback,     \* the module that the policy module names if another one fails
  Unknown,      \* a name for which there is no module
  NoCore,       \* there is no option "context"
  Profiles,     \* profiles of images
  NoImage,      \* there is no image
  Layouts,      \* pixel layouts of images
  Linkable,     \* pairs of module and profile for which a device link is made
  Convertible,  \* layouts for which a device link becomes a transform
  NoContext,
  MaxChanges    \* bounds the changes by the application

\* What there is in the caches: device links, and transforms made of them.
DeviceLinks == [core : Cores, opt : [Names -> Values \cup {Unset}], profile : Profiles]
Transforms  == [link : DeviceLinks, layout : Layouts, good : BOOLEAN]

ASSUME ContextsAssumption ==
  /\ Objects \subseteq Names /\ Values # {} /\ Layouts # {}
  /\ {Main, Fallback} \subseteq Cores /\ {Unknown, NoCore} \cap Cores = {}
  /\ Unknown # NoCore
  /\ Linkable \subseteq Cores \X Profiles /\ Convertible \subseteq Layouts
  /\ NoImage \notin Profiles /\ MaxChanges \in Nat
  /\ NoContext \notin Transforms

VARIABLES
  opt,         \* node->core->options_
  choice,      \* the option "context": a module, and whether a user edited it
  seen,        \* the options with the node as observer
  image,       \* data of the sockets
  core,        \* node->core
  context,     \* node->backend_data
  links,       \* cache of device links by hash (api4)
  transforms,  \* cache of transforms by hash (api7)
  dirty,       \* option "dirty" of the ticket's graph
  result,      \* of oyConversion_RunPixels(), until something changes
  unheard,     \* what changed since the context was made without a signal
  changes

vars == <<opt, choice, seen, image, core, context, links, transforms, dirty,
          result, unheard, changes>>

Init ==
  /\ opt \in [Names -> {CHOOSE v \in Values : TRUE, Unset}]
  /\ choice \in [core : {Main, NoCore}, edit : {FALSE}]
  /\ seen = {}
  /\ image = [profile |-> NoImage, layout |-> CHOOSE l \in Layouts : TRUE]
  /\ core = Main
  /\ context = NoContext
  /\ links = <<>> /\ transforms = <<>>
  /\ dirty = FALSE
  /\ result = "none"
  /\ unheard = {}
  /\ changes = 0

-----------------------------------------------------------------------------
(* Hashes and what is found under them.                                       *)

\* The hash of a device link: module, options and profile of the image.  An
\* option "context" counts if it was edited.
Hash4(c) == [core |-> c, opt |-> opt, profile |-> image.profile,
             choice |-> IF choice.edit THEN choice.core ELSE NoCore]

\* The hash of a transform has the pixel layout, too.
Hash7(c) == [link |-> Hash4(c), layout |-> image.layout]

\* What a device link is made of.
LinkOf(c) == [core |-> c, opt |-> opt, profile |-> image.profile]

CanLink(c) == <<c, image.profile>> \in Linkable

\* A transform for the images; a failed conversion leaves an empty one behind.
TransformOf(link) == [link |-> link, layout |-> image.layout,
                      good |-> image.layout \in Convertible]

\* oyHash_SetPointer()
Put(cache, hash, entry) ==
  [h \in DOMAIN cache \cup {hash} |-> IF h = hash THEN entry ELSE cache[h]]

Found(c) == Hash7(c) \in DOMAIN transforms /\ transforms[Hash7(c)].good

Usable == context # NoContext /\ context.good

Present == {n \in Names : opt[n] # Unset} \cup
           {n \in {"context"} : choice.core # NoCore}

-----------------------------------------------------------------------------
(* oyFilterNode_SetContext_()                                                 *)

\* The module that the option "context" selects, or else the present one.
Selected == IF choice.core = NoCore THEN core ELSE choice.core

\* The transform is in the cache.
TakeTransform(c) ==
  /\ Found(c)
  /\ core' = c
  /\ context' = transforms[Hash7(c)]
  /\ unheard' = {}
  /\ UNCHANGED <<links, transforms>>

\* A transform is made of a device link and goes into the cache.
Convert(c, link) ==
  /\ core' = c
  /\ context' = TransformOf(link)
  /\ transforms' = Put(transforms, Hash7(c), TransformOf(link))
  /\ unheard' = {}

ConvertLink(c) ==
  /\ ~Found(c) /\ Hash4(c) \in DOMAIN links
  /\ Convert(c, links[Hash4(c)])
  /\ UNCHANGED links

Missing(c) == ~Found(c) /\ Hash4(c) \notin DOMAIN links

MakeLink(c) ==
  /\ Missing(c) /\ CanLink(c)
  /\ Convert(c, LinkOf(c))
  /\ links' = Put(links, Hash4(c), LinkOf(c))

\* The hashes of the first module, as if the fallback changed nothing.
MutMakeFallback(c) ==
  /\ Missing(c) /\ ~CanLink(c) /\ ~choice.edit /\ CanLink(Fallback)
  /\ core' = Fallback
  /\ context' = TransformOf(LinkOf(Fallback))
  /\ transforms' = Put(transforms, Hash7(c), TransformOf(LinkOf(Fallback)))
  /\ unheard' = {}
  /\ links' = Put(links, Hash4(c), LinkOf(Fallback))

\* Another module makes the device link, which is cached under the hash of the
\* node with that module.
MakeFallback(c) ==
  /\ Missing(c) /\ ~CanLink(c) /\ ~choice.edit /\ CanLink(Fallback)
  /\ Convert(Fallback, LinkOf(Fallback))
  /\ links' = Put(links, Hash4(Fallback), LinkOf(Fallback))

\* Without a device link the node keeps the context it may have.
NoLink(c) ==
  /\ Missing(c) /\ ~CanLink(c) /\ (choice.edit \/ ~CanLink(Fallback))
  /\ core' = IF choice.edit THEN c ELSE Fallback
  /\ UNCHANGED <<context, links, transforms, unheard>>

\* The text of the hash is made with oyFilterNode_GetOptions(), after which the
\* node observes its options.
SetContext ==
  /\ seen' = Present
  /\ IF choice.core = Unknown
     THEN UNCHANGED <<core, context, links, transforms, unheard>>
     ELSE \/ TakeTransform(Selected)
          \/ ConvertLink(Selected)
          \/ MakeLink(Selected)
          \/ MakeFallback(Selected)
          \/ NoLink(Selected)

-----------------------------------------------------------------------------
(* The application.                                                           *)

Changed == /\ changes < MaxChanges
           /\ changes' = changes + 1
           /\ result' = "none"

\* The context is kept.
MutSignal(n) == UNCHANGED <<context, unheard>>

\* An option n got another value: oyFilterNode_Observe_() releases the context if
\* the node observes the option.
Signal(n) ==
  IF n \in seen THEN context' = NoContext /\ UNCHANGED unheard
  ELSE UNCHANGED context /\ unheard' = unheard \cup {n}

\* oyOptions_SetFromString() with OY_CREATE_NEW; the same value is ignored.
SetOption(n, v) ==
  /\ n \notin Objects /\ v # opt[n] /\ Changed
  /\ opt' = [opt EXCEPT ![n] = v]
  /\ Signal(n)
  /\ UNCHANGED <<choice, seen, image, core, links, transforms, dirty>>

\* oyOptions_MoveInStruct() sends no signal.
MoveInOption(n, v) ==
  /\ n \in Objects /\ v # opt[n] /\ Changed
  /\ opt' = [opt EXCEPT ![n] = v]
  /\ unheard' = unheard \cup {n}
  /\ UNCHANGED <<choice, seen, image, core, context, links, transforms, dirty>>

\* Setting the option "context" marks it as edited, and signals another value.
SetChoice(c) ==
  /\ choice # [core |-> c, edit |-> TRUE] /\ Changed
  /\ choice' = [core |-> c, edit |-> TRUE]
  /\ IF c # choice.core THEN Signal("context")
     ELSE UNCHANGED context /\ unheard' = unheard \cup {"context"}
  /\ UNCHANGED <<opt, seen, image, core, links, transforms, dirty>>

\* oyFilterNode_SetData() of the node with the image.
SetData(p, l) ==
  /\ image # [profile |-> p, layout |-> l] /\ Changed
  /\ image' = [profile |-> p, layout |-> l]
  /\ unheard' = unheard \cup {"image"}
  /\ UNCHANGED <<opt, choice, seen, core, context, links, transforms, dirty>>

GetOptions ==
  /\ seen # Present
  /\ seen' = Present
  /\ UNCHANGED <<opt, choice, image, core, context, links, transforms, dirty,
                 result, unheard, changes>>

\* oyFilterNode_ToBlob(): the module may change, and the context stays.
ToBlob ==
  /\ seen' = Present
  /\ core' = IF choice.core = Unknown THEN core ELSE Selected
  /\ UNCHANGED <<opt, choice, image, context, links, transforms, dirty, result,
                 unheard, changes>>

\* A node that has a context is passed over without flags.
Prepare(flags) ==
  IF flags \/ context = NoContext THEN SetContext
  ELSE UNCHANGED <<core, context, links, transforms, unheard, seen>>

\* oyFilterGraph_PrepareContexts() for a graph object of the application, which
\* is not the one of the ticket.
PrepareContexts(flags) ==
  /\ Prepare(flags)
  /\ result' = "none"
  /\ UNCHANGED <<opt, choice, image, dirty, changes>>

-----------------------------------------------------------------------------
(* oyConversion_RunPixels()                                                   *)

\* The ticket is not marked.
MutSpoil(flag) == flag

\* The module's run without a usable context marks the ticket; it does not come
\* so far if the node of the image, which runs first, fails.
Spoil(flag) == flag \/ image.profile # NoImage

RunGood ==
  /\ image.profile # NoImage /\ Usable
  /\ result' = "good"
  /\ UNCHANGED <<opt, choice, seen, image, core, context, links, transforms,
                 dirty, unheard, changes>>

\* After an error the contexts are prepared if the ticket is dirty, and the
\* graph runs again.
RunAgain ==
  /\ ~(image.profile # NoImage /\ Usable) /\ Spoil(dirty)
  /\ Prepare(FALSE)
  /\ LET good == image.profile # NoImage /\ context' # NoContext /\ context'.good
     IN  /\ result' = IF good THEN "good" ELSE "failed"
         /\ dirty' = (~good /\ Spoil(FALSE))
  /\ UNCHANGED <<opt, choice, image, changes>>

RunFails ==
  /\ ~(image.profile # NoImage /\ Usable) /\ ~Spoil(dirty)
  /\ result' = "failed"
  /\ UNCHANGED <<opt, choice, seen, image, core, context, links, transforms,
                 dirty, unheard, changes>>

Next ==
  \/ \E n \in Names, v \in Values : SetOption(n, v) \/ MoveInOption(n, v)
  \/ \E c \in Cores \cup {Unknown} : SetChoice(c)
  \/ \E p \in Profiles \cup {NoImage}, l \in Layouts : SetData(p, l)
  \/ GetOptions
  \/ ToBlob
  \/ \E flags \in BOOLEAN : PrepareContexts(flags)
  \/ RunGood
  \/ RunAgain
  \/ RunFails

Spec == Init /\ [][Next]_vars

-----------------------------------------------------------------------------
\* The caches tell the truth: what is found under a hash was made of the module,
\* the options in the text, the profile and the layout that the hash stands for,
\* whatever module made it in the end.
CacheHonest ==
  LET Honest(link, h) ==
        link.core = h.core /\ link.profile = h.profile /\ link.opt = h.opt
  IN  /\ \A h \in DOMAIN links : Honest(links[h], h)
      /\ \A h \in DOMAIN transforms : /\ Honest(transforms[h].link, h.link)
                                      /\ transforms[h].layout = h.layout

\* Pixels are processed with what the options and images are now, apart from
\* those changes that nobody signals: an option created after the options were
\* last looked at, an object moved in, an image replaced.  The module is the one
\* a user chose, and a fallback only stands in where the selected one fails.
FreshContext ==
  context # NoContext =>
    /\ \A n \in Names \ unheard : context.link.opt[n] = opt[n]
    /\ "image" \notin unheard => /\ context.link.profile = image.profile
                                 /\ context.layout = image.layout
    /\ "context" \notin unheard /\ choice.core # NoCore =>
         \/ context.link.core = choice.core
         \/ /\ ~choice.edit /\ context.link.core = Fallback
            /\ <<choice.core, context.link.profile>> \notin Linkable

\* oyConversion_RunPixels() fails for a cause only: no image, an empty context
\* that is kept, or neither the selected module nor the fallback can make a device
\* link.  A context that an option's change released is made on the way.
FailsForCause ==
  result = "failed" =>
    \/ image.profile = NoImage
    \/ context # NoContext /\ ~context.good
    \/ /\ context = NoContext
       /\ ~CanLink(Selected) /\ (choice.edit \/ ~CanLink(Fallback))
=============================================================================
