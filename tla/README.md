# Oyranos in TLA+

Oyranos is a colour management system: a C library with an object system of its
own, a data base of settings and devices, a graph of filters for images, and
modules that are loaded at run time. This directory holds TLA+ models of the parts
whose correctness depends on order (threads, reference counts, callbacks and
shared lists), the TLC configurations that check them, and proofs for TLAPS.

Paths are relative to the repository: `sources/` stands for `src/sources/`, which
holds the class methods. The generator combines them with `src/templates/` into
`src/API_generated/`; the models follow the sources, not the generated code.

## 1. The system

| Component | State | Operations | Hard behaviour | What makes it correct |
|---|---|---|---|---|
| Job queue, module "trds" (`src/modules/color/modules/oyranos_cmm_trds.c`, interface in `src/liboyranos_modules/oyranos_threads.c`) | job list, message list, worker threads, a lock per list | `oyJob_Add`, `oyJob_Get`, `oyMsg_Add`, `oyJobResult`, the worker's loop, `trdsCMMInit`, `trdsCMMReset` | threads; a condition variable that is used without a loop; one list for jobs to do and jobs done; a reset without joining the threads | no job lost, done twice or finished too early; no lost wakeup; messages in order; every job is finished; the queue starts again after a reset |
| Observers and reference counts (`sources/Observer.*`, release in `src/templates/Base_s_.c`) | per object `ref_` and two lists of edges; a disable count per edge; one global flag | `oyStruct_ObserverAdd`, `Remove`, `ObserversCopy`, `ObserverSignal`, `Disable`/`EnableSignalSend`, copy and release of every class | edges count as references but must not keep an object alive; nested releases; handlers that change the list under way; cycles | an object lives while it is used; no edge to a destroyed object; each observer served once; signals end |
| Object lists (`sources/StructList.*`) | slots, length, capacity | `MoveIn`, `ReleaseAt`, `GetRef`, `MoveTo`, `Sort`, `CopyFrom`, `Clear`, copy, release | growth, empty slots, failing allocations, one owner for each reference | a sequence of shared objects, inside of its memory |
| Options (`sources/Option*`, `sources/Options*`) | a value, which is a text, an object or numbers, with marks "edit" and "automatic"; sets of options | setters by key, `oyOptions_Add`, `Set`, the union with defaults, the policy of `oyranos_cmm_oicc.c` | lists that grow by a position; several sets list one option; every merge decides by the marks | what was set is found; a default or a policy never replaces it |
| Filter graph (`sources/FilterPlug*`, `FilterSocket*`, `FilterNode*`, `FilterGraph*`) | nodes with plugs and a socket, which refer to each other in rings | connect, disconnect, copy and release, lists of nodes and edges, signals through the graph | one connection is in three objects; destruction of a node in use; cycles | both ends of a connection agree; nobody refers to what is gone; a traversal finds all |
| Contexts (`sources/FilterNode.private_methods_definitions.c`, `Conversion*`, lcm2) | a context per node, kept in caches by hash (`src/liboyranos_object/oyranos_cache.c`) | `oyFilterNode_SetContext_`, `oyFilterGraph_PrepareContexts`, `oyConversion_RunPixels`, signals of options | a context older than its options; a fallback module; a hash taken too early; a retry that depends on a mark | caches hold what the hash says; the context in use is current; a run fails for a cause |
| Devices and ranks (`sources/Config*`, `src/templates/oyranos_devices.template.c`) | devices, configurations, rank maps | compare, select best | scores from many keys | the best configuration wins, exclusion beats score |
| Settings data base (`src/liboyranos_config/oyranos_db.c`) | files of openicc | get, set, erase | several processes | (of openicc) |
| Modules (`src/templates/oyranos_module.template.c`) | loaded libraries, registered interfaces | load, register, select, unload | order of loading, fallbacks | the wished module or the best one |
| Profiles, images, colour modules, X11 monitor set up, tools | file formats, pixels, X properties | | | |

**How they interact.** Every class derives from `oyStruct_s` and holds an
`oyObject_s` with the reference count, the lock and, under `handles_`, its lists of
observers. These lists, the job list, the message list, options, nodes and devices
are `oyStructList_s`. Options tell filter nodes of a change by signals, a
list forwards signals of its entries to its observers, and the conversion of an
image uses the job queue for profiles that must be computed. The application polls
`oyJobResult()` in its event loop. Calls are synchronous apart from the job queue.

## 2. Plan

The order is that of importance: what is concurrent and what everything else is
built upon comes first. "done" means modelled and checked.

| | Module | Content | Composes | State |
|---|---|---|---|---|
| 1 | `JobPool` | what the job interface promises | | done |
| 1 | `TrdsJobs` | the queue between two resets | implements `JobPool` | done, proofs in `TrdsJobs_proofs` |
| 2 | `TrdsReset` | life cycle of the queue | | done, proofs in `TrdsReset_proofs` |
| 3 | `ObserverRefs` | edges and reference counts | | done, proofs in `ObserverRefs_proofs` |
| 3 | `ObserverSignals` | delivery of signals | | done, proofs in `ObserverSignals_proofs` |
| 4 | `SharedLists` | what lists promise | | done |
| 4 | `StructList` | slots, growth, owners | implements `SharedLists` | done, proofs in `StructList_proofs` |
| 5 | `FilterEdges` | plugs, sockets, nodes, their connections and references | | done, proofs in `FilterGraph_proofs` |
| 5 | `FilterGraph` | traversals of a graph against closures of its connections | extends `FilterEdges` | done, proofs in `FilterGraph_proofs` |
| 6 | `Contexts` | contexts of a node, caches, signals, runs and retries of a conversion | | done, proofs in `Contexts_proofs` |
| 7 | `OptionStore` | what options promise | | done |
| 7 | `OptionValues` | values, marks, setters, merges and policy | implements `OptionStore` | done, proofs in `OptionValues_proofs` |
| 8 | `ConfigRank` | `oyConfig_Compare()` over bounded devices against a reference; selection with `oyConfigs_SelectSimiliars()` | uses `StructList`'s sort | planned |
| 9 | `ModuleLoad` | registration, selection and unloading, with the reset of the queue | composes `TrdsReset` | planned |

Next in `OptionValues`: `oyOptions_MoveIn()` and `oyOptions_AppendOpts()`, which list an option without a look for its key.

## 3. The models

`PROJECT.json` maps each definition to the lines it models. Definitions that begin
with `Mut` are mutants: plausible mistakes that a property must detect when they
replace the definition they are named after. They are not part of any specification.
Members keep the names they have in the source; those marked *history* exist for
properties only.

### 3.1 The job queue: JobPool, TrdsJobs

One process is the managing thread (`main`, its job `mjob`), which adds jobs and polls;
the others are the workers (`thread[w]`, `job[w]`). A step is one critical section of a
list's lock or one call of a user callback, since everything else touches local
variables only.

| Action | Code |
|---|---|
| `Add`, `MoveIn`, `Signal` | `oyJob_Add_(&job, 0, flags)`: threads are created as needed, the job enters the list in one critical section, `pthread_cond_signal()` follows in another |
| `JobResult`, `DrainMessage`, `DrainEnd`, `GetDone`, `FinishJob` | `oyJobResult_()`: all messages first, then one finished job |
| `TakeJob`, `Wait`, `SpuriousWakeup`, `Return` | `oyJob_Get_(&job, 0)` of a worker |
| `PostStart`, `Work`, `PostDone`, `AddDone` | the body of `oyJobWorker()`; `Work` may post a message of its own |

Both kinds of entries share `oy_job_list_`, and both sides look at its last entry only.
What is left out: contexts and texts of messages, other managing threads (the
documentation demands one), and that 20 ms pass between two looks.

`TypeOK` also says where a thread has a local job. `UniqueJob`, `JobKept` and
`WorkThenFinish` are about the fate of a job; `NoLostWakeup` that a job to be done always
has a worker that will look; `OrdinaryWorkers` that persistent jobs leave `NBase` workers
to the others, whoever takes them; `MessageOrder` and `DoneReported` relate the two lists,
which have separate locks. `JobsFinish`, `PersistentJobsStart` and `DoneDelivered` are
their liveness. `RefinesPool` shows that each job goes through the phases of `JobPool`,
one after the other, with a free worker for each one that runs. A job counts as submitted from the call of `oyJob_Add()` on: with one
base worker the thread that is created there may look for jobs, and end with an older persistent one, before the new
job is in the list. `QueueInv` is the inductive invariant of section 6; TLC checks that it holds, the proofs that it is inductive.

*Fairness* (`FairSpec`): the managing thread completes what it began and goes on
polling, as `oyLoopDBusObserver()` and the tests do; each worker is scheduled; `work()` returns
unless the job is persistent, which "may run over the whole process live time". Weak
fairness suffices: a worker between two steps can always take the next one.

### 3.2 The reset: TrdsReset

`trdsCMMReset()` runs without the job list's lock while workers may be anywhere. Here
`oyJob_Get_()` is taken apart: `Enter` (the test of the list before the lock), `LockList`, the
wait, and the way out on which the last one inside, by the lock's count `ref`, releases
the list. The reset is taken apart as well: `Reset` counts the threads and sets the flag, `ResetTest` tests the list,
`ResetFetch` reads it once more for its lock `m`, and `ResetSignal` sends one signal of the loop; workers run between any two of
these. `m` also says what became of that lock. Messages and persistent jobs are not repeated from `TrdsJobs`. Use of a
list that was released or is `NULL`, and the release of a lock that others are inside of, end
a behaviour with `main = "undefined"`, or with `main = "late"` if it is the reset itself that comes late to them (`ResetLate`).

What holds: nothing is undefined before a reset (`SoundBeforeReset`), `ref` counts right
(`RefCountsInside`), and a reset of workers that all wait wakes each of them, the last one to leave releases the list, and no worker uses it
afterwards (`QuietReset`); when all have left in time, the next use works (`CleanRestart`). A reset signals
as many workers as the thread list has entries, and threads that outlived an earlier reset are in no list any more: `quiet` notes a reset
that finds all workers waiting, and no more of them than it signals.
What does not: section 5.

*Fairness*: as above. Workers sleep outside of the lock in each round, so that nobody is
kept from it for ever, which is strong fairness for each thread's step.

### 3.3 Observers: ObserverRefs, ObserverSignals

An edge model–observer–signal function is kept as two `oyObserver_s`, one in the model's
`observers` and one in the observer's `models`; each references both objects. A release
therefore compares `ref_` with twice the number of entries in the object's own lists. In
`ObserverRefs` lists are sets (their entries differ), an operation is one step, since there
is no second thread, and the nested calls of a release are summed up:
`EndedObservers` and `EndedModels` are the edges that vanish in the course of it. `Hold` stands
for `oyStruct_DisableSignalSend()` and its relatives, which keep a reference to the list. `defined` becomes `FALSE`
when a destroyed object is used. `users` is what the program holds itself.

`Mirror` relates the two lists and their owners, `RefsCounted` the count and the lists, `LivesWhileUsed` the
end of an object and its users: edges neither keep it nor end it, in cycles, with itself,
after copies of edges from another object. `NoDangling` says that
destroyed objects are in no list unless that list is held, and that without such
lists nothing is ever used after its end. `parent_refs`, which is zero in most classes, and `user_data` are left out.

`ObserverSignals` has the order of the list, the loop of `oyStruct_ObserverSignal()` as a stack of
frames, and handlers as calls during which the program may do anything, also to
the list under way, and signal again. `ServesInOrder`: without removals each observer of the
beginning is served once and in order, and nobody is listed twice. `EnabledAgain`: even calls of disable
and enable leave nobody silent or in debt. `SignalReturns`: a signal ends.

*Fairness*: the loop runs on, and every handler returns, at each depth of the stack: it sends
finitely many signals. The latter is strong fairness since the handler's
step is interrupted by the signals it sends.

### 3.4 Lists: SharedLists, StructList

`SharedLists` is the promise: sequences without gaps, objects that exist as long as someone
has them. `StructList` has the slots, the capacity the list believes in (`n_reserved_`) and the one it
has (`room`), and reference counts. `Inserted` is the growth and shift of `oyStructList_MoveIn()`, `Fills` its search for empty slots,
`SortRound` one round of the sort's outer loop. Loops (`CopiedInto`, `Behind`, `Rounds`) are functions of the number of their rounds. `Small` and `First` are 7 and 10 in the code. Small
instances need smaller ones; the assumption `2 <= Small <= First` is what makes every
growth one.

`broken` notes what ends the promise: a failed allocation (of an insertion, a copy or, with the list left locked, a sort: `SortFails`), a rank of `INT32_MIN`, the use
of `NULL`. `InsideRoom`, `OneOwner`, `MovesToPlace` (the position counts after the removal),
`SortsByRank` (a stable sort: some order of the positions, by descending rank and as before among equals) and `RefinesLists` hold until then.
Names of entries, which are options in a list, observers of lists, and that a sort also sorts the caller's ranks are left out.

### 3.5 Connections: FilterEdges, FilterGraph

A connection is a plug's `remote_socket_` and an entry of the socket's `requesting_plugs_`; plug and
socket refer to their nodes, and the nodes to them. `FilterEdges` has the three kinds of objects with the
reference counts the code compares: `PlugLess`, `SocketLess` and `Release` are the releases of the three
classes, each of which subtracts references of its own members. The functions below change a record of the whole
graph, so that an action composes them as the code calls them (`Connect` is seven calls). `CutOff` and `PlugsReleased` are the two loops
of a node's destruction, functions of the number of rounds.

| Action | Code |
|---|---|
| `Connect`, `ConnectFull`, `ConnectMismatch` | `oyFilterNode_Connect()` and its two early ends; a plug that is in use changes its socket |
| `Disconnect` | `oyFilterNode_Disconnect()`: the callbacks of the socket and of the plug |
| `Copy`, `Release` | references of the application; the last one destroys the node with its connections on both sides |
| `GetPlug`, `ReleasePlug` | a plug that the application asks for, before or after a connection, and keeps while the graph changes |
| `SignalRelease`, `VisitPlug`, `VisitNode`, `CallPlug`, `SignalDone` (`FilterGraph`) | `oyFilterSocket_SignalToGraph()` with `oyCONNECTOR_EVENT_RELEASED`: the loops over the socket's plugs, the nodes behind each, and the plugs of each node, which `oyFilterSocket_Callback()` disconnects on the way; `walk` is where the loops are |

`waste` counts the references that failed or repeated connections and release signals lose, and `MaxWaste` bounds those. `broken` ends a
behaviour before a call whose effect is undefined: the disconnection of a plug that was asked for and never connected (`Loose`), and two
steps of a release signal that follow from counts taken too early (section 5). What is left out: patterns of connectors, which
`Matches` stands for, images, nodes with several sockets, which no module has, observers that handle a signal and so end it, or that change the graph
in it, and the reference that the caller of a signal has for the time of the call.

`EdgesHaveTwoEnds`: a plug is in the list of the socket it points to, once, and in no other. `OwnersCounted`: the
references that slots, lists and the application hold are all counted, between calls and at each step of a release signal, and no node that ends leaves somebody with a reference to it.
`GoneWithNode`: the rings do not keep plugs or sockets whose node is gone. `FilterGraph` has the recursion of
`oyFilterNode_AddToAdjacencyLst_()` and compares it with the closure of the connections: `GraphComplete` (each edge
once, all nodes) and `SignalsReachOutputs` (all nodes that depend on a socket, and no others, for every signal but the release, whose callbacks change the graph under way;
for the others `oyFilterSocket_Callback()` does nothing). `Ways` are the plugs that
the code's two loops try at a node, in their order, `AddEdge` is what it does with one of them, and `Tried` goes through them. The calls of the
function inside each other are levels of the function `visit` in `Adjacency`: each call has one more edge in its list than the call around it, so
that there are at most as many levels as edges. A theorem says that this cuts nothing off (section 6).

### 3.6 Contexts

`Contexts` has one conversion: an image, a node of the lcm2 module and an output. `opt` are the options of the node, and
`choice` the one named "context", which selects the module. `context` is `backend_data`, and `links` and `transforms` are the entries of
the cache for device links and transforms. `oyFilterNode_SetContext_()` is split by what it finds: `TakeTransform`,
`ConvertLink`, `MakeLink`, `MakeFallback`, `NoLink`. `Linkable` says with which module and profile a device link succeeds, `Convertible` for
which pixel layouts a transform does. A hash is the record of what its text is made of; that texts and MD5 sums tell these apart is assumed.

The application sets options, moves objects in, replaces images and runs the conversion at any time. An option sends a
signal to the node if the node has observed it, which it does when it looks at its options (`seen`). `unheard` (*history*)
collects what changed since the context was made without a signal. `RunGood`, `RunAgain` and `RunFails` are `oyConversion_RunPixels()`: after an error
the contexts are prepared and the graph runs again, provided that the module marked the graph as dirty.

`CacheHonest`: what a cache has under a hash was made of what the hash stands for, although a fallback changes the
module between the first look and the entry. `FreshContext`: apart from `unheard`, the context is one of the options, images and module as they
are. `FailsForCause`: a run that fails has no image, an empty context that was kept, or no module that could make a link.

### 3.7 Options: OptionStore, OptionValues

`OptionStore` is the promise, call by call. `held` are the options with key, kind of value, value and marks, and `call` says which call a step is,
so that each has to do what is promised of it: `Setter` leaves exactly what it was given, a number at its position after what was there or
zeros, marked or not, and the mark of the user except for an object; `Add`, `Adopt` (the union with defaults) and `SetByPolicy` never touch what carries the user's mark, and the first two take
over only from an option of the same key that outranks the old one (`Outranks`); `Set` always replaces an option of the same key; `Demote` takes the mark away. `OptionValues` has options as
objects that several sets may list, since `oyOptions_Add()` and `oyOptions_Set()` without an object to copy for share them.
`NumberSet` and `Grow` are the growing lists of `oyOption_SetFromInt()` and `oyOption_SetFromDouble()`, `Prefers` the rule of
`oyOptions_Add()`, `UnionWithDefaults` the `oyOptions_FromBoolean()` (its two loops are `Offered`, the additions one after the other `United`) by which a node's options enter the text of its hash, and `Policy` the
module oicc. `down` ends a behaviour that writes a number through the wrong member of the value's union. `doubled` are the sets
that were told to add an option in any case.

`RefinesStore`: each step of `OptionValues` is the step of the store with the name of its call, which the history variable `call` keeps; an addition that overwrites
what was set by hand would not be one, nor a setter with another result, on an option with or without marks. A call that failed changes nothing. Defaults and policies have texts (`Rules`) that
the user does not set. `KeysOnce`: a set lists a key once, when setters, `oyOptions_Add()`, `oyOptions_Set()` and the policy fill it; `oyOptions_MoveIn()` and
`oyOptions_AppendOpts()`, which do not look for the key, are not modelled.

## 4. Runs

| Run | Instance | Shows |
|---|---|---|
| `trds_safety` | 3 jobs (one persistent, one with progress and own messages), 1 + 1 workers | all safety properties, the inductive invariant `QueueInv`, and `RefinesPool` |
| `trds_live` | 3 jobs, 1 + 1 workers | liveness; one base worker is the case where a persistent job could starve the others |
| `trds_reset_safety` | 2 jobs, 2 workers before and after 1 reset | what a reset preserves |
| `trds_reset_clean` | from waiting workers, 1 job | the next use works after a clean reset |
| `observer_refs` | 3 objects, 1 signal function, 2 references of the program | all properties of `ObserverRefs` |
| `signals_safety` | a tree of 3 edges with one forwarding, 2 signals at once, 1 disable | all properties of `ObserverSignals` |
| `lists` | 2 lists, 2 objects, 3 entries, 3 references | all properties of `StructList` |
| `filter_graph` | 3 nodes with 0, 2 and 1 inputs, 2 references to each node, 1 plug held, release signals | all properties of `FilterEdges` and `FilterGraph` |
| `contexts` | 2 options, 2 modules, 3 profiles, 2 layouts, 4 changes | all properties of `Contexts` |
| `options` | 2 options in memory, 2 sets, 2 keys, 2 entries in a set | `KeysOnce` and `RefinesStore` |
| `trds_reset_jobs`, `filter_shared_socket` | small | section 5 |

**Bounds, and why they are enough.** Jobs: two meet in the list, a third is with a worker at the same
time; more repeat this. Workers: one takes what another one was woken for, and either of them may end with the persistent job; the theorems are for any number.
Resets: `MaxResets` 1, and `MaxThreads` allows the threads of the use before and
after it. Objects: three make a chain, a cycle, and a pair with a bystander; `MaxUsers` 2 tells
"not the last reference" from "the last". Two signal functions between one pair behave as two edges do,
and `ObserverRefs` treats the pair as a whole where the code does. `MaxNested` 2 lets a handler signal the model that is
under way; `MaxDepth` 4 is what two signals through one forward need, so that it cuts nothing off. `MaxDisabled` 1
leaves an observer that comes between disable and enable, the case with a count at its lower end. `MaxLength` 3 with `First` 2 has a list grow
from 0 to 2 and to 3; `MaxRefs` 3 puts an object in both lists, or twice in one, and in the program's hands.

Three nodes make a chain, a cycle, a socket with two plugs, a node without a free plug and a pair whose connectors differ; `MaxUsers` 2 as above, `MaxHeld` 1 keeps
one plug over the end of its node, `MaxWaste` 1 shows what one lost reference does, and lets a release signal begin (it may lose several on its way). A node connected with itself, which the code accepts, is in
the model and in the theorems but not in `SomeMatches`. `MaxChanges` 4: a context is made, a change is
missed, another one is signalled, and the first value returns, for which a cache has an entry. Of three profiles one has
a link by both modules, one by the fallback only, one by none. Two options in memory are one that two sets share, or an own one for each;
positions 0 and 2 grow a single number to a list with a gap. The run `options` has a `VIEW` without `call`: no step depends on the
call before it, so that states that differ in it only go on alike. What is lost is small, a call that wrongly changes nothing is not told from a pause after
a call of the same name, and the theorem has no such gap.

`CHECK_DEADLOCK FALSE` stands where the program may be at its end: after a reset without another
use, when all objects are released, and at the bounds. In `TrdsJobs`, the managing thread polls for ever.

## 5. Where code and documentation differ

* `trds_reset_jobs`: a worker that is not inside of `oyJob_Get_()` at a reset leaves the job list behind. The next
  use takes the list for a sign of running workers and starts none; its jobs are never worked on.
* `filter_shared_socket`: when one plug leaves a socket the socket forgets its node, also for its other plugs. They lead to nothing
  until another connection is made. `sources/FilterNode.dox` has sockets accept "arbitrary numbers of connections".

Remarks without a run of their own.

*Jobs*: the queue is called FIFO in a comment, and takes the newest job first
(`GetDone`, `TakeJob`). `cb_progress()` is documented to be called with 0.0 before `work()` starts; it is called by
polling, possibly after `work()` has returned (`PostStart`, `DrainMessage`). The reset takes the lock functions away while workers may be alive (`ResetLocks`). A second reset signals as many workers as the second use created: if threads of the first use still wait, some of those that wait get no signal and go on waiting (`QuietReset` excludes this).
The reset sends its signals without the job list's lock, one for each entry of a list that counts the managing thread too: when all workers wait, those that were
woken first may all have left, and the last one freed the list with its lock, before the last `pthread_cond_signal( &m->cond )`; so may the list be gone between its test and the look
at its lock, when workers leave without a signal (`ResetLate`). The documentation does not speak of this order.

*Observers*: `oyStruct_DisableSignalSend()`, `oyStruct_EnableSignalSend()` and `oyStruct_IsObserved()` with an observer do
not release the list they looked at, and when the model is destroyed its observers keep edges to it (`Hold`). An observer behind one that a handler removes is passed
over (`HandlerReturns`). Forwarding edges in a cycle, which the documentation allows, make a signal recurse without end (`SendForward`).
`oyStruct_ObserverRemove()` with one signal function removes all edges of the pair (`Remove`). An observer that
is added to a disabled model is served (`ObserverAdd`).

*Lists*: after a failed allocation `n_reserved_` exceeds the memory
(`NotReserved`). `oyStructList_Sort()` loses entries of rank `INT32_MIN` and
`oyStructList_MoveIn()` then puts one reference into all the empty slots and leaves it to the caller as well (`MovedIn`, `MoveIn`).

*Graph*: a failed `oyFilterNode_Connect()` loses a reference to the socket and, if connectors do not match, one to the plug; to connect a plug anew loses one to
the plug (`waste`). A plug that was asked for by `oyFilterNode_GetPlug()` and never connected refers to its node without the second reference that a connection brings; to disconnect
it, as the destruction of its node does with every plug, takes the reference of the node's slot instead, so that the slot leads to a plug that is gone (`Loose`, where the model stops). The loop that disconnects the plugs of a destroyed
node passes over every second one (`Reached`). A signal that a node handles is forgotten if a later one does not handle it.
A release signal takes the plugs of each node by their number among the connected ones, which its callbacks disconnect: of two it disconnects the first, and then asks for a plug -1, that is, for
one that is not there; and when the graph leads back to the socket, its list may become shorter than it was counted (`CallPlug`, `VisitPlug`). Each plug it disconnects
keeps the reference by which it was found in the list (`Dropped`).

*Contexts*: an option that is created after the node looked at its options, an object that is moved in, and an image that
is replaced send no signal to the node (`unheard`). A conversion of a device link that fails leaves an empty context, which
`oyFilterGraph_PrepareContexts()` without flags takes for a good one: the run fails until an option changes. With flags, a failure keeps the old
context. `oyFilterNode_ToBlob()` may change the module and keeps the context.

*Options*: position 0 of a value that is no number is written through the wrong member of the union (`down`).
`oyOption_MoveInStruct()` sets neither a mark nor a signal, so that an object is not protected as a text is. The union with defaults gives the mark "edit" of a module's default to an option
that nobody edited (`UnionWithDefaults`). What a policy sets counts as edited, so that a second policy does not change it (`Policy`). `oyValueCopy()` and
`oyValueEqual()` do not end for lists of texts.

## 6. Proofs

The theorems hold for every value of the constants under the assumptions of the models, for
any number of jobs, workers, resets, objects, edges, entries, options and changes. Bounds such as `MaxUsers` or `MaxLength` are
constants too: the theorems hold for each of them. `PROJECT.json` lists them all.

| Module | Theorems | From |
|---|---|---|
| `TrdsJobs_proofs` | `TypeCorrect`, `JobInvariant`, `UniqueJobs`, `JobsKept`, `WorkOnceThenFinish`, `WorkersInvariant`, `OrdinaryWorkersRemain`, `NoWakeupLost`, `QueueInvariant`, `MessagesInOrder`, `DoneIsReported`, and the refinement `QueueImplementsPool` | `JobsAssumption` (finitely many jobs, `NoJob` none of them), `NBaseAssumption` (one worker at least) |
| `TrdsReset_proofs` | `ResetInvariant`, `ResetTypes`, `SoundUntilReset`, `RefCounted`, `QuietResetIsSound` | `ResetAssumption` |
| `ObserverRefs_proofs` | `RefsInvariant`, `ListsMirror`, `ReferencesCounted`, `AliveWhileUsed`, `NothingDangles` | `RefsAssumption` (finitely many objects and signal functions) |
| `ObserverSignals_proofs` | `DisabledNoMore`, `ServedInOrder` | `SignalsAssumption` |
| `StructList_proofs` | `ListsHaveRoom`, `ReferencesHaveOwners`, the action properties `EntriesMoveToPlace` and `SortIsStable`, and the refinement `ListsAreSequences` | `ListAssumption` (finitely many lists; `2 <= Small <= First`) |
| `Contexts_proofs` | `ContextInvariant`, `CachesHonest`, `ContextsFresh`, `FailuresHaveCause` | `ContextsAssumption` |
| `OptionValues_proofs` | `KeysInvariant`, `KeysListedOnce`, and the refinement `OptionsImplementStore` | `OptionValuesAssumption` (defaults are texts) |
| `FilterGraph_proofs` | `GraphInvariant`, `ConnectionsHaveTwoEnds`, `SearchesNeedNoBound`, `GraphsAreComplete`, `SignalsReachAllOutputs`; `PlugsCounted`, `OwnersAreCounted`, `NodesLeaveNothing` | `FilterAssumption` (finitely many nodes, told from `NoNode`) |

### 6.1 Inductive invariants, and why they are needed

*Jobs.* `UniqueJob` and `JobKept` say where a job is, but a step from one place to the next preserves them only if the members
of the job agree with its place: an entry that `GetDone` takes must have been worked on, one that `AddDone` puts back must be
nowhere else. `JobProgress` says this, with `works` and `finishes` at each place; `LocalJobs`, a part of `TypeOK`, makes the places of the
threads and their local jobs one thing. The proof goes by the actions that move a job or change its members (one lemma each)
and one lemma, `QuietStep`, for all others.

*Workers.* That `NBase` workers remain for ordinary jobs does not follow from itself, since it says nothing of how many were created.
`ThreadsCounted` does: one worker per persistent job that was added, and as many have ended as persistent jobs came back.
A lost wakeup is a matter of numbers too: a signal wakes one worker, which may find a newer job than the one it was sent for. `WakeupsPending` says that, if anybody
waits, there are no more jobs to be done than workers that will look at the list, and a signal under way.

*Messages.* The lists of jobs and messages have locks of their own. `MessageInv` bounds the progress that was posted or delivered by
what the job's worker has done (`Posted`), so that a later message can not be overtaken by an earlier one.

`QueueInv` is the conjunction of all that.

*Reset.* `ResetInv` has `Control` (which thread can be where while the reset is where), `LocksInv` (the count `ref` is the number of
threads inside), `SoundInv` (lists and locks exist from the first use to the first reset), and for a reset of waiting workers
`NobodyComes` and `LastOneReleases`: nobody enters the lock any more, the signals that are left suffice for those who still wait (each one
sent wakes one of them, or there is none), and there is one who releases the list after all have left. That the reset may itself be late to the list is one of its ends, not an assumption. `OnceInv` follows the jobs, which may be lost in a reset but are not worked on twice.

*Observers.* The four properties of `ObserverRefs` are inductive only together (`RefsInv`): the release of an object ends it when its count
equals twice the entries of its own lists, which is right only if edges are counted (`RefsCounted`) at both of their ends
(`Mirror`). The heart of the proof is the arithmetic of `Ended`: the edges that vanish in a nested release, and what
each other object loses by them.

*Signals.* `SignalsInv` says of every frame on the stack: while nothing was removed, the list at its beginning is the head of the present one, those
served are the head of that, and only the last frame is between two entries. `DisableInv` says that no entry has more debts than its model has calls
of disable outstanding; `EnabledAgain` is a part of it.

*Lists.* `RoomInv` is `InsideRoom` with types: the length and the room of each list. `OwnerInv` adds `OneOwner`, a sum over all lists; the lemmas from
`CountFew` to `SameOwners` say what an insertion, a removal and a reordering do to the number of places of an object, and
that only one list changes in a step. `CopiedProperties` and `SortedProperties` go through the rounds of the loops. For the sort
each round leaves those with the highest rank behind the others in their order, so that after as many rounds as there are entries none is left; this
gives `RefinesLists` (nothing is lost) and `SortsByRank` (in which order).

*Graph.* `Good(g, d)` is the invariant of a graph `g` while the node `d` is being destroyed, or of none (`NoNode`): the functions that
change a graph keep it one by one (`SocketCallbackGood`, `ConnectedIntoGood`, `BothNodesGood`, ...), and so do the rounds of `CutOff` and `PlugsReleased`, in which
the counts of `d` alone may be wrong. `EdgesHaveTwoEnds` needs that a plug with a remote socket is in the slot of a living node
(`GoodPlug`), as only such plugs are disconnected with their nodes. The counts need `EdgesHaveTwoEnds`, since a callback
subtracts for what it finds in a list, and that a socket with both a node and a list has two references (`GoodSocket`), or its
release would take it for unused. What a node's own plugs and socket
hold is a cardinality (`Inner`), of which `PlugPartChange` says that one plug changes it by one. The references to plugs are kept apart (`CountedPlugs`), since
nothing of the nodes, the sockets and the ends of connections depends on them. A plug that knows its node without a connection is loose, or has lost a reference before, which
its disconnection then takes (`CountedPlug`): this is why only loose plugs are a danger. The steps of a release signal keep the same invariants (`DroppedGood`), as each
disconnects at most one plug, whatever counts led to it.
`Grows` and `Shrinks` are what a connection and a destruction may change of the objects they are not about.
`JoinedPlugs` says that a plug with a connection refers to its node; a search goes on there without a look at anything else.

*Searches.* What a search finds can not be proved of one call alone: on a cycle a call comes back to a node that an outer call
has not finished. `Grown` says what holds at any time: the list has each edge once, what was added belongs to nodes that the search can reach
(to any set of nodes that is `Closed` under the ways), and beyond each edge that was added all edges of the node are in the list, or the node is the one where the call
still is. `Thorough` adds that a call that returns has taken all edges of its node (`Covered`). `TwoWays` is what makes this hold when the search
passes an edge it already has: the same plug is found from its node and from the socket, and either way leads to where the other one
comes from. It follows from `EdgesHaveTwoEnds` and `JoinedPlugs` (`EdgesLeadBack`). `SearchesThorough` is an induction over the levels:
a list of different edges that is as long as there are edges has them all (`AllListed`). At the end no call is under way, so that all nodes within reach are covered
(`AdjacencyThorough`, `SearchFinds`). `WithinIs` gives the set with which the properties compare. For `SignalsReachOutputs` a search in
one direction begins at each consumer, which `SearchOutputs` puts together; `RemoteNodeKnown` is not needed, since the plugs in a
list know their own nodes. `SearchesNeedNoBound` compares level by level with a function that calls itself: there is one, and all
such functions find the same.

*Contexts.* `ContextInv` is `CacheHonest` and `FreshContext`, since a context that is taken from a cache is fresh only if
the cache is honest, with a little about types. `SetContextKeeps` follows the five cases of `oyFilterNode_SetContext_()`. `FailInv`
needs the types of all that is made, and that a module that was not chosen by hand is the main one or none.

*Options.* A set has a key once (`KeysInv`) only if it lists no option that is gone, numbers have the form of their kind, and options keep their keys while they are shared
between sets. For the refinement, `V` is what the store sees of the options; most calls change one of them (`Becomes`), and `SetterSteps` says which changes are steps of a setter (`SetBy`). The
additions of a union are rounds in each of which an option stays or takes over what counts more (`TookOver`, `Joined`); that two such rounds make one, from an option that was there
at the beginning, is `PrefersOn`.

### 6.2 Induction over data

Loops over lists are functions of the number of rounds. Theorems of the library about them have operators as parameters, which
the provers can not instantiate. The first section of `ObserverSignals_proofs`, `StructList_proofs`, `OptionValues_proofs` and `FilterGraph_proofs`
states what is needed with sets and functions instead (it is the same in each): induction as a statement on a set of natural
numbers, and recursion as the existence of a function whose step is itself a function. They follow from the least element
of a set of numbers. Each proof about a loop first shows that its function exists with `RoundsExist` and then goes through the rounds
with `SetInduction` or `BoundedInduction`.

### 6.3 What the attempts changed

* `RefinesPool` was true on the instance with two base workers and false with one: `oyJob_Add()` creates the thread before the job is in the list, and
  that thread could end with an older persistent job. A job now counts as submitted from the call on, as its caller sees it, and the run has one base worker.
* `QuietReset` failed for a second reset, which signals only as many workers as its own use created. `quiet` now says so (section 5).
* `OwnersCounted` and `GoneWithNode` failed when plugs are asked for before they are connected, and had the condition that this does not happen. The attempt to do without it
  showed that asking is harmless, also while the plug is connected and disconnected later, and that the one thing that goes wrong is the disconnection of a plug that
  never had a connection (section 5). The model now has early calls, and stops before that one.
* `QuietReset` had the reset send all of its signals in one step. Sent one by one, the last of them may come late to a lock that is gone (section 5).
* `RefinesStore` had a store in which any option could replace any other, so that a wrong merge could pass for a right one. Its steps now carry the name of the call.
* `FilterEdges` removed a plug from a socket's list wherever it was. It now removes the first entry, as the loop of `oyFilterSocket_Callback()` does, which breaks off there;
  that no second one exists is a part of the theorem.
* `FilterGraph` had the search as a recursive operator, which the provers do not accept in a module with theorems. It is now a function of levels, and a
  theorem compares it with the recursion. The attempt also showed that the invariant of the connections did not say that a connected
  plug refers to its node, without which a search towards the outputs would stop there.
* `SortsByRank` was stated by an operator that computes the order; it now says what a stable sort is, and a theorem says that the rounds of the code are one.

### 6.4 Only model-checked

Liveness, and everything under fairness, which the prover does not handle: `JobsFinish`, `PersistentJobsStart`, `DoneDelivered`, `CleanRestart`, `SignalReturns`.
Every other property of a passing run is stated by a theorem.

## 7. Not modelled

Devices and module loading are planned (section 2). Of options, lists of texts, `oyOption_Clear()`, the data base, filters by level and XML or JSON are left out;
of the graph, pixel access, patterns and texts; of the caches, the reference counts of their entries. Profiles, images and the colour
modules parse files and compute pixels: their correctness is numerical. The X11 set up talks to an X server and a
colour server that are not part of this repository. The settings data base forwards to openicc. Generated classes repeat
the sources and templates; tools, examples, tests and vendored libraries are not part of the library.
