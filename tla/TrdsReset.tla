------------------------------ MODULE TrdsReset ------------------------------
(***************************************************************************)
(* The life cycle of the "trds" job queue: first use, trdsCMMReset() from  *)
(* the library's shutdown, and the first use after it.  The module is the  *)
(* linked-in one (liboyranos static, oyranos_cmm_oall.c), whose variables  *)
(* outlive a reset; a dlopen'ed one is unloaded by oyAlphaFinish_().       *)
(*                                                                         *)
(* TrdsJobs has the queue with its messages, signals and persistent jobs   *)
(* in detail and no reset.  Here oyJob_Get_() is taken apart instead: the  *)
(* test of the list, the lock, the look at the list, pthread_cond_wait()   *)
(* and the way out, since trdsCMMReset() runs without the lock.            *)
(*                                                                         *)
(* Using a list after its release, or a NULL one, ends the behaviour: with *)
(* main = "undefined", and so does releasing a lock that others are inside *)
(* of; with main = "late" when it is trdsCMMReset() itself that is left    *)
(* behind, with a list or a lock that the last worker has released.        *)
(***************************************************************************)
EXTENDS Naturals, Sequences, FiniteSets

CONSTANTS
  Jobs,        \* oyJob_s objects; each is added at most once
  Progress,    \* jobs with a cb_progress callback
  NBase,       \* worker threads started together with a new list
  MaxThreads,  \* bound: threads the process ever starts
  MaxResets,   \* bound: calls of trdsCMMReset() that do something
  NoJob,       \* the NULL job pointer
  Null         \* the NULL list pointer

ASSUME ResetAssumption == /\ NoJob \notin Jobs
                          /\ Progress \subseteq Jobs
                          /\ Null \notin Seq(Jobs)
                          /\ NBase \in Nat \ {0}
                          /\ MaxThreads \in Nat \ {0}
                          /\ MaxResets \in Nat

Threads == 1 .. MaxThreads
Nobody  == 0

VARIABLES
  trds_reset,           \* the flag the workers look at
  oy_job_list_,         \* Null or the jobs, new entries at the end
  oy_job_message_list_, \* does the message list exist?
  oy_threads_,          \* does the thread list exist?
  locking,              \* are the lock functions set? else they do nothing
  owner, ref,           \* of the list's lock: the pthread mutex and ms->ref
  status_done_,         \* member of each job
  main, mjob,           \* the managing thread, and the job it adds
  signals, m,           \* of trdsCMMReset(): how many are left to send, and what
                        \* became of the list's lock since it was fetched
  thread, job,          \* the workers, and the job each one handles
  resets, quiet, clean, \* history: resets so far; of the last one: did all
                        \* workers of the list wait, and had all ended at its end?
  added, works          \* history: resets before the job came in, calls of work()

lists   == <<oy_job_list_, oy_job_message_list_, oy_threads_>>
lock    == <<locking, owner, ref>>
locals  == <<mjob, signals, m>>
history == <<resets, quiet, clean, added>>
vars    == <<trds_reset, lists, lock, status_done_, main, locals, thread, job,
             history, works>>

MainAt   == {"run", "movein", "test", "fetch", "signal", "messages", "threads",
             "locks", "down", "undefined", "late"}
LockAt   == {"none", "exists", "freed", "kept"}
ThreadAt == {"none", "loop", "enter", "lock", "nojob", "wait", "woken", "held",
             "release", "check", "work", "add", "movein", "exit", "undefined"}

Defined    == main \notin {"undefined", "late"}
Started    == {w \in Threads : thread[w] # "none"}
Alive      == {w \in Threads : thread[w] \notin {"none", "exit"}}
Waiting    == {w \in Threads : thread[w] = "wait"}
LastJob    == oy_job_list_[Len(oy_job_list_)]
Shortened  == SubSeq(oy_job_list_, 1, Len(oy_job_list_) - 1)

\* Workers between the lock and the unlock of oyJob_Get_(), asleep or awake.
Inside     == {w \in Threads : thread[w] \in {"nojob", "wait", "woken", "held"}}

Init == /\ trds_reset = 0
        /\ oy_job_list_ = Null
        /\ oy_job_message_list_ = FALSE
        /\ oy_threads_ = FALSE
        /\ locking = FALSE
        /\ owner = Nobody
        /\ ref = 0
        /\ status_done_ = [j \in Jobs |-> 0]
        /\ main = "run"
        /\ mjob = NoJob
        /\ signals = 0
        /\ m = "none"
        /\ thread = [w \in Threads |-> "none"]
        /\ job = [w \in Threads |-> NoJob]
        /\ resets = 0
        /\ quiet = FALSE
        /\ clean = FALSE
        /\ added = [j \in Jobs |-> 0]
        /\ works = [j \in Jobs |-> 0]

-----------------------------------------------------------------------------
(* oyObject_Lock() and oyObject_UnLock() of the job list's object. *)

CanLock == ~locking \/ owner = Nobody

Lock(w) == /\ CanLock
           /\ owner' = IF locking THEN w ELSE owner
           /\ ref' = IF locking THEN ref + 1 ELSE ref
           /\ UNCHANGED locking

UnLock == /\ owner' = IF locking THEN Nobody ELSE owner
          /\ ref' = IF locking THEN ref - 1 ELSE ref
          /\ UNCHANGED locking

\* The program has done what C leaves undefined; nothing after it means anything.
Ends(how) == /\ main' = how
             /\ thread' = [w \in Threads |-> "undefined"]
             /\ UNCHANGED <<trds_reset, lists, lock, status_done_, locals, job, history, works>>

GoesWrong == Ends("undefined")

\* oyThreadsInit_(): without a job list everything is made new, whatever else
\* there is.  threadAt says where the threads are that exist already.
ThreadsInit(threadAt) ==
  IF oy_job_list_ = Null
  THEN LET n == Cardinality(Started) IN
       /\ n + NBase <= MaxThreads
       /\ oy_job_list_' = << >>
       /\ oy_job_message_list_' = TRUE
       /\ oy_threads_' = TRUE
       /\ locking' = TRUE
       /\ owner' = Nobody
       /\ ref' = 0
       /\ thread' = [w \in Threads |-> IF n < w /\ w <= n + NBase THEN "loop"
                                         ELSE threadAt[w]]
  ELSE /\ thread' = threadAt
       /\ UNCHANGED <<lists, lock>>

\* oyStructList_MoveIn( oy_job_list_, &blob, -1, 0 )
ListMoveIn(j) == /\ CanLock
                 /\ oy_job_list_' = Append(oy_job_list_, j)
                 /\ UNCHANGED <<oy_job_message_list_, oy_threads_>>

-----------------------------------------------------------------------------
(* The managing thread. *)

\* oyJob_Add_(&job, 0, 0) up to the list operation.
Add(j) ==
  /\ main = "run"
  /\ added[j] = 0
  /\ ThreadsInit(thread)
  /\ added' = [added EXCEPT ![j] = resets + 1]
  /\ main' = "movein"
  /\ mjob' = j
  /\ UNCHANGED <<signals, m, trds_reset, status_done_, job, resets, quiet, clean, works>>

\* The list operation and the signal, which TrdsJobs keeps apart.
MoveIn ==
  /\ main = "movein"
  /\ oy_job_list_ # Null
  /\ ListMoveIn(mjob)
  /\ IF Waiting = {} THEN UNCHANGED thread
     ELSE \E w \in Waiting : thread' = [thread EXCEPT ![w] = "woken"]
  /\ main' = "run"
  /\ mjob' = NoJob
  /\ UNCHANGED <<signals, m, trds_reset, lock, status_done_, job, history, works>>

MoveInNull == main = "movein" /\ oy_job_list_ = Null /\ GoesWrong

\* oyJobResult_() takes a done job from the top of the list; messages and
\* finish() are the subject of TrdsJobs.
JobResult ==
  /\ main = "run"
  /\ oy_job_list_ \notin {Null, << >>}
  /\ CanLock
  /\ status_done_[LastJob] = 1
  /\ oy_job_list_' = Shortened
  /\ UNCHANGED <<trds_reset, oy_job_message_list_, oy_threads_, lock, status_done_,
                 main, locals, thread, job, history, works>>

\* trdsCMMReset() counts the thread list and sets the flag, ...  quiet: all workers
\* wait, and they are not more than the thread list counts, which it does with the
\* managing thread.  (Threads that outlive a reset are in no list after it.)
Reset ==
  /\ main = "run"
  /\ trds_reset = 0
  /\ resets < MaxResets
  /\ trds_reset' = 1
  /\ main' = "test"
  /\ signals' = IF oy_threads_ THEN NBase + 1 ELSE 0
  /\ resets' = resets + 1
  /\ quiet' = (Waiting # {} /\ Alive = Waiting /\ Cardinality(Waiting) <= NBase + 1)
  /\ clean' = FALSE
  /\ UNCHANGED <<lists, lock, status_done_, mjob, m, thread, job, added, works>>

\* ... tests the list, ...
ResetTest ==
  /\ main = "test"
  /\ main' = IF oy_job_list_ = Null THEN "messages" ELSE "fetch"
  /\ signals' = IF oy_job_list_ = Null THEN 0 ELSE signals
  /\ UNCHANGED <<trds_reset, lists, lock, status_done_, mjob, m, thread, job, history,
                 works>>

\* ... reads the list again to fetch its lock, ...
ResetFetch ==
  /\ main = "fetch"
  /\ oy_job_list_ # Null
  /\ main' = "signal"
  /\ m' = "exists"
  /\ UNCHANGED <<trds_reset, lists, lock, status_done_, mjob, signals, thread, job,
                 history, works>>

\* Mutant: one signal is sent instead of one for each thread.
MutResetSignal ==
  /\ main = "signal"
  /\ m # "freed"
  /\ main' = "messages"
  /\ m' = "none"
  /\ signals' = 0
  /\ IF Waiting = {} THEN UNCHANGED thread
     ELSE \E w \in Waiting : thread' = [thread EXCEPT ![w] = "woken"]
  /\ UNCHANGED <<trds_reset, lists, lock, status_done_, mjob, job, history, works>>

\* ... sends one signal after the other, without the lock, ...
ResetSignal ==
  /\ main = "signal"
  /\ signals > 0
  /\ m # "freed"
  /\ signals' = signals - 1
  /\ IF Waiting = {} THEN UNCHANGED thread
     ELSE \E w \in Waiting : thread' = [thread EXCEPT ![w] = "woken"]
  /\ UNCHANGED <<trds_reset, lists, lock, status_done_, main, mjob, m, job, history,
                 works>>

\* The list is gone since the test, or the lock between two signals: the threads
\* that were woken before may all have left, and the last one released both.
ResetLate == /\ \/ main = "fetch" /\ oy_job_list_ = Null
                \/ main = "signal" /\ signals > 0 /\ m = "freed"
             /\ Ends("late")

ResetSignalled ==
  /\ main = "signal"
  /\ signals = 0
  /\ main' = "messages"
  /\ m' = "none"
  /\ UNCHANGED <<trds_reset, lists, lock, status_done_, mjob, signals, thread, job,
                 history, works>>

\* ... sleeps for 0.1 seconds, which orders nothing, releases the messages, ...
ResetMessages ==
  /\ main = "messages"
  /\ main' = "threads"
  /\ oy_job_message_list_' = FALSE
  /\ UNCHANGED <<trds_reset, oy_job_list_, oy_threads_, lock, status_done_, locals,
                 thread, job, history, works>>

\* ... and the list of threads, ...
ResetThreads ==
  /\ main = "threads"
  /\ main' = "locks"
  /\ oy_threads_' = FALSE
  /\ UNCHANGED <<trds_reset, oy_job_list_, oy_job_message_list_, lock, status_done_,
                 locals, thread, job, history, works>>

\* ... and calls oyThreadLockingReset().  oyJobHandlingReset() makes the next
\* use of the job functions load the module again.
ResetLocks ==
  /\ main = "locks"
  /\ main' = "down"
  /\ locking' = FALSE
  /\ clean' = (quiet /\ Alive = {})
  /\ UNCHANGED <<trds_reset, lists, owner, ref, status_done_, locals, thread, job,
                 resets, quiet, added, works>>

\* Mutant: the flag of the last reset stays.
MutCMMInit ==
  /\ main = "down"
  /\ main' = "run"
  /\ UNCHANGED <<trds_reset, lists, lock, status_done_, locals, thread, job, history,
                 works>>

\* trdsCMMInit(), by the next use of the job functions.
CMMInit ==
  /\ main = "down"
  /\ main' = "run"
  /\ trds_reset' = 0
  /\ UNCHANGED <<lists, lock, status_done_, locals, thread, job, history, works>>

-----------------------------------------------------------------------------
(* A worker thread w in oyJobWorker() and its call of oyJob_Get_(&job, 0). *)

Goto(w, from, to) == /\ thread[w] = from
                     /\ thread' = [thread EXCEPT ![w] = to]

\* while(!trds_reset)
Loop(w) ==
  /\ Goto(w, "loop", IF trds_reset = 1 THEN "exit" ELSE "enter")
  /\ UNCHANGED <<trds_reset, lists, lock, status_done_, main, locals, job, history,
                 works>>

\* if(!oy_job_list_) return -1
Enter(w) ==
  /\ Goto(w, "enter", IF oy_job_list_ = Null THEN "check" ELSE "lock")
  /\ UNCHANGED <<trds_reset, lists, lock, status_done_, main, locals, job, history,
                 works>>

\* The list may be gone since Enter.  Without locking, a second thread at the
\* list at the same time is a data race.
LockWrong(w) ==
  /\ thread[w] = "lock"
  /\ \/ oy_job_list_ = Null
     \/ ~locking /\ \E v \in Threads : thread[v] \in {"nojob", "held"}
  /\ GoesWrong

\* Lock the list and look at its last entry.
LockList(w) ==
  /\ thread[w] = "lock"
  /\ oy_job_list_ # Null
  /\ Lock(w)
  /\ thread' = [thread EXCEPT ![w] = IF oy_job_list_ = << >> THEN "nojob" ELSE "held"]
  /\ IF oy_job_list_ # << >> /\ status_done_[LastJob] = 0
     THEN job' = [job EXCEPT ![w] = LastJob] /\ oy_job_list_' = Shortened
     ELSE UNCHANGED <<job, oy_job_list_>>
  /\ UNCHANGED <<trds_reset, oy_job_message_list_, oy_threads_, status_done_, main,
                 locals, history, works>>

\* pthread_cond_wait() releases the mutex, but not ms->ref.  A thread that does
\* not own the mutex gets an error and goes on.
CondWait(w) ==
  /\ Goto(w, "nojob", IF owner = w THEN "wait" ELSE "held")
  /\ owner' = IF owner = w THEN Nobody ELSE owner
  /\ UNCHANGED <<trds_reset, lists, locking, ref, status_done_, main, locals, job,
                 history, works>>

SpuriousWakeup(w) ==
  /\ Goto(w, "wait", "woken")
  /\ UNCHANGED <<trds_reset, lists, lock, status_done_, main, locals, job, history,
                 works>>

\* A woken thread needs the mutex to come back, whatever the lock functions are.
Awake(w) ==
  /\ owner = Nobody
  /\ owner' = w
  /\ Goto(w, "woken", "held")
  /\ UNCHANGED <<trds_reset, lists, locking, ref, status_done_, main, locals, job,
                 history, works>>

\* Mutant: the list is released without a look at trds_reset.
MutLeave(w) ==
  /\ Goto(w, "held", IF ref = 1 THEN "release" ELSE "check")
  /\ UnLock
  /\ UNCHANGED <<trds_reset, lists, status_done_, main, locals, job, history, works>>

\* Mutant: the unlock is missing on the way out of a reset, when others follow.
MutLeaveLocked(w) ==
  /\ Goto(w, "held", IF trds_reset = 1 /\ ref = 1 THEN "release" ELSE "check")
  /\ IF trds_reset = 1 /\ ref > 1 THEN owner' = Nobody /\ UNCHANGED <<locking, ref>> ELSE UnLock
  /\ UNCHANGED <<trds_reset, lists, status_done_, main, locals, job, history, works>>

\* Unlock; in a reset the last thread that is inside goes on to release the list.
Leave(w) ==
  /\ Goto(w, "held", IF trds_reset = 1 /\ ref = 1 THEN "release" ELSE "check")
  /\ UnLock
  /\ UNCHANGED <<trds_reset, lists, status_done_, main, locals, job, history, works>>

\* oyStructList_Release( &oy_job_list_ ), outside of the lock.  The list's lock goes
\* with it; without lock functions there is nothing that would free it.
Release(w) ==
  /\ Inside = {} \/ oy_job_list_ = Null
  /\ oy_job_list_' = Null
  /\ m' = IF m # "exists" THEN m ELSE IF locking THEN "freed" ELSE "kept"
  /\ Goto(w, "release", "check")
  /\ UNCHANGED <<trds_reset, oy_job_message_list_, oy_threads_, lock, status_done_,
                 main, mjob, signals, job, history, works>>

\* Others are inside of the lock that goes away.
ReleaseWrong(w) == /\ thread[w] = "release"
                   /\ Inside # {} /\ oy_job_list_ # Null
                   /\ GoesWrong

\* if(!oy_threads_) break; a job that was taken is lost with the thread.
Break(w) ==
  /\ ~oy_threads_
  /\ Goto(w, "check", "exit")
  /\ job' = [job EXCEPT ![w] = NoJob]
  /\ UNCHANGED <<trds_reset, lists, lock, status_done_, main, locals, history, works>>

\* oyMsg_Add_() uses the message list without a test.
CanPost(w) == job[w] \in Progress => oy_job_message_list_

\* Go round after a sleep, or begin with the job.
Continue(w) ==
  /\ oy_threads_
  /\ Goto(w, "check", IF job[w] = NoJob THEN "loop" ELSE "work")
  /\ CanPost(w)
  /\ UNCHANGED <<trds_reset, lists, lock, status_done_, main, locals, job, history,
                 works>>

\* work(job), however long it takes, and the message of its end.
Work(w) ==
  /\ Goto(w, "work", "add")
  /\ CanPost(w)
  /\ works' = [works EXCEPT ![job[w]] = @ + 1]
  /\ UNCHANGED <<trds_reset, lists, lock, status_done_, main, locals, job, history>>

PostWrong(w) == /\ thread[w] = "work" \/ (thread[w] = "check" /\ oy_threads_)
                /\ ~CanPost(w)
                /\ GoesWrong

\* oyJob_Add_(&job, 1, 0) from the worker: it, too, makes everything new when
\* there is no list.
AddDone(w) ==
  /\ thread[w] = "add"
  /\ ThreadsInit([thread EXCEPT ![w] = "movein"])
  /\ status_done_' = [status_done_ EXCEPT ![job[w]] = 1]
  /\ UNCHANGED <<trds_reset, main, locals, job, history, works>>

\* Mutant: *job_ is not set to NULL.
MutMoveInDone(w) ==
  /\ oy_job_list_ # Null
  /\ ListMoveIn(job[w])
  /\ Goto(w, "movein", "loop")
  /\ UNCHANGED <<trds_reset, lock, status_done_, main, locals, job, history, works>>

MoveInDone(w) ==
  /\ oy_job_list_ # Null
  /\ ListMoveIn(job[w])
  /\ Goto(w, "movein", "loop")
  /\ job' = [job EXCEPT ![w] = NoJob]
  /\ UNCHANGED <<trds_reset, lock, status_done_, main, locals, history, works>>

\* oyStructList_MoveIn() refuses a NULL list, and the job is lost.
MoveInLost(w) ==
  /\ oy_job_list_ = Null
  /\ Goto(w, "movein", "loop")
  /\ job' = [job EXCEPT ![w] = NoJob]
  /\ UNCHANGED <<trds_reset, lists, lock, status_done_, main, locals, history, works>>

-----------------------------------------------------------------------------
ResetOn == \/ ResetTest \/ ResetFetch \/ ResetSignal \/ ResetSignalled \/ ResetLate
           \/ ResetMessages \/ ResetThreads \/ ResetLocks

MainNext == \/ \E j \in Jobs : Add(j)
            \/ MoveIn \/ MoveInNull \/ JobResult \/ Reset \/ ResetOn \/ CMMInit

WorkerNext(w) == \/ Loop(w) \/ Enter(w) \/ LockList(w) \/ LockWrong(w)
                 \/ CondWait(w) \/ Awake(w) \/ Leave(w) \/ Release(w) \/ ReleaseWrong(w)
                 \/ Break(w) \/ Continue(w) \/ Work(w) \/ PostWrong(w)
                 \/ AddDone(w) \/ MoveInDone(w) \/ MoveInLost(w)

Next == \/ MainNext
        \/ \E w \in Threads : WorkerNext(w) \/ SpuriousWakeup(w)

Spec == Init /\ [][Next]_vars

\* The managing thread completes what it began and polls, the scheduler runs
\* every worker.  The workers sleep 0.02 seconds in each round outside of the
\* lock, so that nobody is kept from it for ever: strong fairness there.
Fairness ==
  /\ SF_vars(MoveIn \/ MoveInNull)
  /\ SF_vars(JobResult)
  /\ WF_vars(ResetOn)
  /\ \A w \in Threads : SF_vars(WorkerNext(w))

FairSpec == Spec /\ Fairness

-----------------------------------------------------------------------------
(* What holds over a reset, and what does not. *)

\* Every variable has its type, and a worker has a job exactly where its local
\* job can be one.
TypeOK ==
  /\ trds_reset \in {0, 1}
  /\ oy_job_list_ = Null \/ oy_job_list_ \in Seq(Jobs)
  /\ {oy_job_message_list_, oy_threads_, locking, quiet, clean} \subseteq BOOLEAN
  /\ owner \in Threads \cup {Nobody}
  /\ ref \in 0 .. MaxThreads
  /\ status_done_ \in [Jobs -> {0, 1}]
  /\ main \in MainAt
  /\ mjob \in Jobs \cup {NoJob}
  /\ signals \in 0 .. NBase + 1
  /\ m \in LockAt
  /\ thread \in [Threads -> ThreadAt]
  /\ job \in [Threads -> Jobs \cup {NoJob}]
  /\ resets \in 0 .. MaxResets
  /\ added \in [Jobs -> 0 .. MaxResets + 1]
  /\ works \in [Jobs -> 0 .. 1]
  /\ Defined => \A w \in Threads :
       /\ job[w] # NoJob => thread[w] \in {"held", "release", "check", "work", "add", "movein"}
       /\ job[w] = NoJob => thread[w] \notin {"work", "add", "movein"}

\* Before the first reset nothing goes wrong, although the NULL test of
\* oyJob_Get_() and the end of the list are outside of the lock.
SoundBeforeReset == resets = 0 => main # "undefined"

\* ms->ref counts the threads inside of the list's lock, the sleeping ones
\* included; the choice of the thread that releases the list rests on it.
RefCountsInside == Defined /\ locking => ref = Cardinality(Inside)

\* A reset of workers that all wait for work, and are those of the thread list, is
\* sound up to the reset of the locks, but for the reset itself, which may come
\* late: no worker uses what another has released; when the signals are sent each
\* worker is woken, in whatever order they leave meanwhile; and the last one to
\* leave has released the list.
QuietReset ==
  quiet /\ locking /\ trds_reset = 1 =>
    /\ main # "undefined"
    /\ main \notin {"test", "fetch", "signal", "late"} => Waiting = {}
    /\ Alive = {} => oy_job_list_ = Null

\* After a quiet reset that all workers left in time the queue starts anew: a
\* job added after it is worked on.
CleanRestart ==
  \A j \in Jobs : clean /\ added[j] = resets + 1 ~> works[j] = 1

\* The documentation of oyJobHandlingReset() and oyJob_Add(): everything is
\* clean for a new initialisation, after which a job that is added is worked
\* on by a worker thread (or the program goes wrong before).
JobsRunAfterReset ==
  \A j \in Jobs : added[j] > 1 ~> works[j] = 1 \/ ~Defined
==============================================================================
