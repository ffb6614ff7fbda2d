------------------------------ MODULE TrdsJobs ------------------------------
(***************************************************************************)
(* The job queue of the "trds" module,                                     *)
(* src/src/modules/color/modules/oyranos_cmm_trds.c: a managing thread     *)
(* (the application's main or GUI thread) adds jobs with oyJob_Add_() and  *)
(* polls with oyJobResult_(); worker threads run oyJobWorker().  Both sides*)
(* share one list, oy_job_list_, for jobs to be done and for jobs done, and*)
(* oy_job_message_list_ for progress messages.                             *)
(*                                                                         *)
(* A step is one critical section of the mutex of a list, or one call of a *)
(* user callback.  The module covers the time between trdsCMMInit() and    *)
(* trdsCMMReset(), in which trds_reset is 0; TrdsReset adds the reset.     *)
(* The list operations used here are those of module StructList.           *)
(***************************************************************************)
EXTENDS Naturals, Sequences, FiniteSets

CONSTANTS
  Jobs,        \* oyJob_s objects; each is added at most once ("one unique oyJob_s")
  Persistent,  \* jobs added with the flag oyJOB_ADD_PERSISTENT_JOB
  Progress,    \* jobs with a cb_progress callback
  Chatty,      \* jobs whose work() posts a message of its own with oyMsg_Add()
  NBase,       \* worker threads started with the queue: 2, or #CPU-1 with OpenMP
  NoJob        \* the NULL job pointer

ASSUME JobsAssumption == /\ IsFiniteSet(Jobs)
                         /\ NoJob \notin Jobs
                         /\ Persistent \subseteq Jobs
                         /\ Progress \subseteq Jobs
                         /\ Chatty \subseteq Jobs
ASSUME NBaseAssumption == NBase \in Nat \ {0}

(* One worker per persistent job is the most that oyThreadAdd() can add. *)
Workers == 1 .. (NBase + Cardinality(Persistent))

\* The progress of a message: 0.0 "start", something between, 1.0 "done".
StartMsg  == 1
MiddleMsg == 2
DoneMsg   == 3

VARIABLES
  oy_job_list_,         \* the jobs in the list; new entries come in at the end
  oy_job_message_list_, \* the messages [job, progress], likewise
  oy_threads_,          \* number of workers created so far (the list without its first entry)
  job_count,            \* the static counter of oyJob_Add_()
  id_, status_done_,    \* members of each job
  main,                 \* where the managing thread is
  mjob,                 \* the job it handles
  thread,               \* thread[w]: where worker w is
  job,                  \* job[w]: the job worker w handles
  works, finishes,      \* history: calls of work() and finish() per job
  delivered             \* history: last progress that cb_progress() saw, per job

queue   == <<oy_job_list_, oy_job_message_list_>>
members == <<oy_threads_, job_count, id_, status_done_>>
history == <<works, finishes, delivered>>
vars    == <<queue, members, main, mjob, thread, job, history>>

MainAt   == {"idle", "movein", "signal", "drain", "get", "finish"}
ThreadAt == {"none", "get", "wait", "woken", "start", "work", "done", "add", "exit"}
Holding  == {"start", "work", "done", "add"}

Messages == [job : Jobs, progress : {StartMsg, MiddleMsg, DoneMsg}]

Message(j, p) == [job |-> j, progress |-> p]

\* oyStructList_ReleaseAt(list, n-1)
ReleaseLast(list) == SubSeq(list, 1, Len(list) - 1)
Last(list)        == list[Len(list)]

Waiting == {w \in Workers : thread[w] = "wait"}

Init == /\ oy_job_list_ = << >>
        /\ oy_job_message_list_ = << >>
        /\ oy_threads_ = 0
        /\ job_count = 0
        /\ id_ = [j \in Jobs |-> 0]
        /\ status_done_ = [j \in Jobs |-> 0]
        /\ main = "idle"
        /\ mjob = NoJob
        /\ thread = [w \in Workers |-> "none"]
        /\ job = [w \in Workers |-> NoJob]
        /\ works = [j \in Jobs |-> 0]
        /\ finishes = [j \in Jobs |-> 0]
        /\ delivered = [j \in Jobs |-> 0]

-----------------------------------------------------------------------------
(* The managing thread. *)

\* Mutant: oyThreadAdd() is not called for a persistent job.
MutThreadsAfter(j) == IF oy_threads_ = 0 THEN NBase ELSE oy_threads_

\* oyThreadsInit_(): the first call creates the lists and NBase workers; the
\* flag of a persistent job adds one more with oyThreadAdd().
ThreadsAfter(j) == (IF oy_threads_ = 0 THEN NBase ELSE oy_threads_)
                   + (IF j \in Persistent THEN 1 ELSE 0)

\* oyThreadCreate() starts the new workers in oyJobWorker().
ThreadsInit(j) ==
  /\ oy_threads_' = ThreadsAfter(j)
  /\ thread' = [w \in Workers |-> IF oy_threads_ < w /\ w <= ThreadsAfter(j)
                                    THEN "get" ELSE thread[w]]

\* oyJob_Add_(&job, 0, flags) up to the list operation.
Add(j) ==
  /\ main = "idle"
  /\ id_[j] = 0
  /\ ThreadsInit(j)
  /\ job_count' = job_count + 1
  /\ id_' = [id_ EXCEPT ![j] = job_count + 1]
  /\ status_done_' = [status_done_ EXCEPT ![j] = 0]
  /\ main' = "movein"
  /\ mjob' = j
  /\ UNCHANGED <<queue, job, history>>

\* oyStructList_MoveIn(oy_job_list_, &blob, -1, 0) locks by itself.
MoveIn ==
  /\ main = "movein"
  /\ oy_job_list_' = Append(oy_job_list_, mjob)
  /\ main' = "signal"
  /\ mjob' = NoJob
  /\ UNCHANGED <<oy_job_message_list_, members, thread, job, history>>

\* Mutant: the signal is forgotten.
MutSignal == /\ main = "signal"
             /\ main' = "idle"
             /\ UNCHANGED <<queue, members, mjob, thread, job, history>>

\* A second critical section calls pthread_cond_signal(), which is lost when
\* nobody waits.
Signal ==
  /\ main = "signal"
  /\ main' = "idle"
  /\ IF Waiting = {} THEN UNCHANGED thread
     ELSE \E w \in Waiting : thread' = [thread EXCEPT ![w] = "woken"]
  /\ UNCHANGED <<queue, members, mjob, job, history>>

\* The application polls: oyJobResult_().
JobResult ==
  /\ main = "idle"
  /\ oy_threads_ > 0
  /\ main' = "drain"
  /\ UNCHANGED <<queue, members, mjob, thread, job, history>>

\* Mutant: messages are taken from the end, as jobs are.
MutDrainLast ==
  /\ main = "drain"
  /\ oy_job_message_list_ # << >>
  /\ LET m == Last(oy_job_message_list_) IN
       delivered' = IF m.job \in Progress
                    THEN [delivered EXCEPT ![m.job] = m.progress] ELSE delivered
  /\ oy_job_message_list_' = ReleaseLast(oy_job_message_list_)
  /\ UNCHANGED <<oy_job_list_, members, main, mjob, thread, job, works, finishes>>

\* Mutant: the first message is handled and the whole list cleared.
MutDrainClear ==
  /\ main = "drain"
  /\ oy_job_message_list_ # << >>
  /\ LET m == Head(oy_job_message_list_) IN
       delivered' = IF m.job \in Progress
                    THEN [delivered EXCEPT ![m.job] = m.progress] ELSE delivered
  /\ oy_job_message_list_' = << >>
  /\ UNCHANGED <<oy_job_list_, members, main, mjob, thread, job, works, finishes>>

\* oyMsg_Get() takes the first message; cb_progress(), if any, sees it.
DrainMessage ==
  /\ main = "drain"
  /\ oy_job_message_list_ # << >>
  /\ LET m == Head(oy_job_message_list_) IN
       delivered' = IF m.job \in Progress
                    THEN [delivered EXCEPT ![m.job] = m.progress] ELSE delivered
  /\ oy_job_message_list_' = Tail(oy_job_message_list_)
  /\ UNCHANGED <<oy_job_list_, members, main, mjob, thread, job, works, finishes>>

DrainEnd ==
  /\ main = "drain"
  /\ oy_job_message_list_ = << >>
  /\ main' = "get"
  /\ UNCHANGED <<queue, members, mjob, thread, job, history>>

\* Mutant: the status of the entry is not looked at.
MutGetDoneAny ==
  /\ main = "get"
  /\ IF oy_job_list_ # << >>
     THEN /\ mjob' = Last(oy_job_list_)
          /\ oy_job_list_' = ReleaseLast(oy_job_list_)
          /\ main' = "finish"
     ELSE /\ main' = "idle"
          /\ oy_job_list_' = oy_job_list_
          /\ UNCHANGED mjob
  /\ UNCHANGED <<oy_job_message_list_, members, thread, job, history>>

\* Mutant: the entry is released before its status is looked at.
MutGetDoneDrop ==
  /\ main = "get"
  /\ IF oy_job_list_ # << >> /\ status_done_[Last(oy_job_list_)] > 0
     THEN /\ mjob' = Last(oy_job_list_)
          /\ oy_job_list_' = ReleaseLast(oy_job_list_)
          /\ main' = "finish"
     ELSE /\ main' = "idle"
          /\ oy_job_list_' = IF oy_job_list_ = << >> THEN << >> ELSE ReleaseLast(oy_job_list_)
          /\ UNCHANGED mjob
  /\ UNCHANGED <<oy_job_message_list_, members, thread, job, history>>

\* Mutant: the managing thread looks at the first entry, the workers at the last.
MutGetDoneFirst ==
  /\ main = "get"
  /\ IF oy_job_list_ # << >> /\ status_done_[Head(oy_job_list_)] > 0
     THEN /\ mjob' = Head(oy_job_list_)
          /\ oy_job_list_' = Tail(oy_job_list_)
          /\ main' = "finish"
     ELSE /\ main' = "idle"
          /\ oy_job_list_' = oy_job_list_
          /\ UNCHANGED mjob
  /\ UNCHANGED <<oy_job_message_list_, members, thread, job, history>>

\* oyJob_Get_(&job, 1) looks at the last entry only.
GetDone ==
  /\ main = "get"
  /\ IF oy_job_list_ # << >> /\ status_done_[Last(oy_job_list_)] > 0
     THEN /\ mjob' = Last(oy_job_list_)
          /\ oy_job_list_' = ReleaseLast(oy_job_list_)
          /\ main' = "finish"
     ELSE /\ main' = "idle"
          /\ UNCHANGED <<mjob, oy_job_list_>>
  /\ UNCHANGED <<oy_job_message_list_, members, thread, job, history>>

\* finish(job), then oyJob_Release().
FinishJob ==
  /\ main = "finish"
  /\ finishes' = [finishes EXCEPT ![mjob] = @ + 1]
  /\ mjob' = NoJob
  /\ main' = "idle"
  /\ UNCHANGED <<queue, members, thread, job, works, delivered>>

-----------------------------------------------------------------------------
(* A worker thread w in oyJobWorker(). *)

Transition(w, from, to) == /\ thread[w] = from
                           /\ thread' = [thread EXCEPT ![w] = to]

\* Mutant: the job taken is not released from the list.
MutTakeJob(w) ==
  /\ oy_job_list_ # << >>
  /\ status_done_[Last(oy_job_list_)] = 0
  /\ Transition(w, "get", "start")
  /\ job' = [job EXCEPT ![w] = Last(oy_job_list_)]
  /\ UNCHANGED <<queue, members, main, mjob, history>>

\* oyJob_Get_(&job, 0) takes the last entry when it is a job to be done.  When
\* the last entry is a done job, the worker leaves it, sleeps and polls again,
\* which changes nothing here.
TakeJob(w) ==
  /\ oy_job_list_ # << >>
  /\ status_done_[Last(oy_job_list_)] = 0
  /\ Transition(w, "get", "start")
  /\ job' = [job EXCEPT ![w] = Last(oy_job_list_)]
  /\ oy_job_list_' = ReleaseLast(oy_job_list_)
  /\ UNCHANGED <<oy_job_message_list_, members, main, mjob, history>>

\* With an empty list oyJob_Get_() enters pthread_cond_wait().
Wait(w) ==
  /\ oy_job_list_ = << >>
  /\ Transition(w, "get", "wait")
  /\ UNCHANGED <<queue, members, main, mjob, job, history>>

\* POSIX allows pthread_cond_wait() to return without a signal.
SpuriousWakeup(w) ==
  /\ Transition(w, "wait", "woken")
  /\ UNCHANGED <<queue, members, main, mjob, job, history>>

\* The wait is not in a loop: oyJob_Get_() returns without a job, the worker
\* sleeps and goes round.
Return(w) ==
  /\ Transition(w, "woken", "get")
  /\ UNCHANGED <<queue, members, main, mjob, job, history>>

\* oyMsg_Add_()
Post(j, p) ==
  oy_job_message_list_' = Append(oy_job_message_list_, Message(j, p))

PostStart(w) ==
  /\ Transition(w, "start", "work")
  /\ IF job[w] \in Progress THEN Post(job[w], StartMsg)
     ELSE UNCHANGED oy_job_message_list_
  /\ UNCHANGED <<oy_job_list_, members, main, mjob, job, history>>

\* status_work_return = work(job).  The bound on the messages the callback
\* itself adds is one.
Work(w) ==
  /\ Transition(w, "work", "done")
  /\ works' = [works EXCEPT ![job[w]] = @ + 1]
  /\ IF job[w] \in Chatty THEN Post(job[w], MiddleMsg)
     ELSE UNCHANGED oy_job_message_list_
  /\ UNCHANGED <<oy_job_list_, members, main, mjob, job, finishes, delivered>>

PostDone(w) ==
  /\ Transition(w, "done", "add")
  /\ IF job[w] \in Progress THEN Post(job[w], DoneMsg)
     ELSE UNCHANGED oy_job_message_list_
  /\ UNCHANGED <<oy_job_list_, members, main, mjob, job, history>>

\* Mutant: *job_ is not reset after the job went back.
MutAddDone(w) ==
  /\ Transition(w, "add", IF job[w] \in Persistent THEN "exit" ELSE "get")
  /\ status_done_' = [status_done_ EXCEPT ![job[w]] = 1]
  /\ oy_job_list_' = Append(oy_job_list_, job[w])
  /\ UNCHANGED <<oy_job_message_list_, oy_threads_, job_count, id_, main, mjob, job, history>>

\* oyJob_Add_(&job, 1, 0): the job goes back into the list, without a signal.
\* The worker ends when the job's flags say that a thread was added for it.
AddDone(w) ==
  /\ Transition(w, "add", IF job[w] \in Persistent THEN "exit" ELSE "get")
  /\ status_done_' = [status_done_ EXCEPT ![job[w]] = 1]
  /\ oy_job_list_' = Append(oy_job_list_, job[w])
  /\ job' = [job EXCEPT ![w] = NoJob]
  /\ UNCHANGED <<oy_job_message_list_, oy_threads_, job_count, id_, main, mjob, history>>

-----------------------------------------------------------------------------
Poll == JobResult \/ DrainMessage \/ DrainEnd \/ GetDone \/ FinishJob

MainNext == (\E j \in Jobs : Add(j)) \/ MoveIn \/ Signal \/ Poll

WorkerNext(w) == \/ TakeJob(w) \/ Wait(w) \/ Return(w)
                 \/ PostStart(w) \/ Work(w) \/ PostDone(w) \/ AddDone(w)

Next == \/ MainNext
        \/ \E w \in Workers : WorkerNext(w) \/ SpuriousWakeup(w)

Spec == Init /\ [][Next]_vars

\* The managing thread completes what it began and keeps polling (the loops of
\* oyLoopDBusObserver and of tests/test2.cpp do), the scheduler runs every
\* worker, and work() of a job returns unless the job is persistent: such a job
\* "may run over the whole process live time".
Fairness == /\ WF_vars(MoveIn \/ Signal)
            /\ WF_vars(JobResult)
            /\ WF_vars(DrainMessage \/ DrainEnd \/ GetDone \/ FinishJob)
            /\ \A w \in Workers :
                 WF_vars(WorkerNext(w) /\ ~(thread[w] = "work" /\ job[w] \in Persistent))

FairSpec == Spec /\ Fairness

-----------------------------------------------------------------------------
(* What makes the queue correct. *)

Types ==
  /\ oy_job_list_ \in Seq(Jobs)
  /\ oy_job_message_list_ \in Seq(Messages)
  /\ oy_threads_ \in Nat
  /\ job_count \in Nat
  /\ id_ \in [Jobs -> Nat]
  /\ status_done_ \in [Jobs -> {0, 1}]
  /\ main \in MainAt
  /\ mjob \in Jobs \cup {NoJob}
  /\ thread \in [Workers -> ThreadAt]
  /\ job \in [Workers -> Jobs \cup {NoJob}]
  /\ works \in [Jobs -> Nat]
  /\ finishes \in [Jobs -> Nat]
  /\ delivered \in [Jobs -> {0, StartMsg, MiddleMsg, DoneMsg}]

LocalJobs ==
  /\ mjob # NoJob <=> main \in {"movein", "finish"}
  /\ \A w \in Workers : /\ job[w] # NoJob <=> thread[w] \in Holding
                        /\ thread[w] = "none" <=> oy_threads_ < w

\* Every variable has its type, and a worker or the managing thread has a job
\* exactly at those places of the code where its local job is not NULL.
TypeOK == Types /\ LocalJobs

Entries(list)  == {list[i] : i \in 1 .. Len(list)}
Distinct(list) == \A i, k \in 1 .. Len(list) : list[i] = list[k] => i = k

InList(j) == j \in Entries(oy_job_list_)
Held(j)   == \E w \in Workers : job[w] = j

\* A job is in one place at a time: once in the list, or with one worker, or
\* with the managing thread ("Get one unique oyJob_s from the job qeue").
UniqueJob ==
  /\ Distinct(oy_job_list_)
  /\ \A v, w \in Workers : job[v] = job[w] /\ job[v] # NoJob => v = w
  /\ \A j \in Jobs : /\ ~(InList(j) /\ Held(j))
                     /\ ~(InList(j) /\ mjob = j)
                     /\ ~(Held(j) /\ mjob = j)

\* No job gets lost: what was added and not yet finished is in the list, with
\* a worker or with the managing thread, whatever the order of the threads.
JobKept ==
  \A j \in Jobs : id_[j] > 0 /\ finishes[j] = 0 => InList(j) \/ Held(j) \/ mjob = j

\* work() runs exactly once and finish() at most once and only after it; the
\* mark status_done_ in the shared list tells the two kinds of entries apart.
WorkThenFinish ==
  \A j \in Jobs :
    /\ works[j] <= 1
    /\ finishes[j] <= works[j]
    /\ InList(j) => /\ works[j] = status_done_[j]
                    /\ finishes[j] = 0
    /\ id_[j] = 0 => works[j] = 0

\* The inductive form of WorkThenFinish: how far the members and the history of
\* a job are at each place it can be in.
JobProgress ==
  \A j \in Jobs :
    /\ finishes[j] \in {0, 1}
    /\ finishes[j] = 1 => works[j] = 1 /\ status_done_[j] = 1
    /\ id_[j] = 0 => /\ works[j] = 0 /\ finishes[j] = 0 /\ status_done_[j] = 0
                     /\ ~InList(j) /\ ~Held(j) /\ mjob # j
    /\ InList(j) => finishes[j] = 0 /\ works[j] = status_done_[j]
    /\ mjob = j => /\ finishes[j] = 0
                   /\ works[j] = (IF main = "movein" THEN 0 ELSE 1)
                   /\ status_done_[j] = works[j]
    /\ \A w \in Workers : job[w] = j =>
         /\ finishes[j] = 0 /\ status_done_[j] = 0
         /\ works[j] = (IF thread[w] \in {"start", "work"} THEN 0 ELSE 1)

\* The inductive invariant of the places of jobs.
JobInv == TypeOK /\ UniqueJob /\ JobKept /\ JobProgress

\* The inductive form of OrdinaryWorkers: one worker has been created for each
\* persistent job that was added, and one has ended for each that came back.
ThreadsCounted ==
  /\ oy_threads_ = 0 => \A j \in Jobs : id_[j] = 0
  /\ oy_threads_ > 0 =>
       oy_threads_ = NBase + Cardinality({j \in Persistent : id_[j] > 0})
  /\ Cardinality({w \in Workers : thread[w] = "exit"}) =
       Cardinality({j \in Persistent : status_done_[j] = 1})

\* Workers that will look at the list again: neither waiting for a signal, nor
\* ended, nor busy with a job that may never return.
Attentive == {w \in Workers : \/ thread[w] \in {"get", "woken"}
                              \/ thread[w] \in Holding /\ job[w] \notin Persistent}

\* No lost wakeup: apart from the moment between the entry into the list and
\* pthread_cond_signal(), a job to be done has a worker that will look at the
\* list.  Signals sent while nobody waits, jobs put back without a signal and
\* workers that end after a persistent job must not break this.
NoLostWakeup ==
  (\E i \in 1 .. Len(oy_job_list_) : status_done_[oy_job_list_[i]] = 0)
    => main = "signal" \/ Attentive # {}

ToBeDone == {j \in Jobs : InList(j) /\ status_done_[j] = 0}

\* The inductive form of NoLostWakeup: as long as somebody sleeps there is, for
\* each job to be done, a worker that will look at the list or a signal to come.
WakeupsPending ==
  Waiting # {} =>
    Cardinality(ToBeDone) <= Cardinality(Attentive) + (IF main = "signal" THEN 1 ELSE 0)

\* Persistent jobs take no thread away from the others: NBase workers remain
\* that are not busy with one, although any worker may take a persistent job
\* and then ends.
OrdinaryWorkers ==
  oy_threads_ > 0 =>
    NBase <= Cardinality({w \in Workers : /\ thread[w] \notin {"none", "exit"}
                                          /\ job[w] \notin Persistent})

\* The messages of one job reach cb_progress() in the order of their progress,
\* none of them twice.
MessageOrder ==
  \A i \in 1 .. Len(oy_job_message_list_) :
    LET m == oy_job_message_list_[i] IN
      /\ m.job \in Progress => delivered[m.job] < m.progress
      /\ \A k \in 1 .. i - 1 : oy_job_message_list_[k].job = m.job
                                => oy_job_message_list_[k].progress < m.progress

\* No final message gets lost: a job that came back has been reported as done
\* or its message is still to be delivered, even when the job itself is gone.
DoneReported ==
  \A j \in Progress : status_done_[j] = 1 =>
    \/ delivered[j] = DoneMsg
    \/ \E i \in 1 .. Len(oy_job_message_list_) :
         oy_job_message_list_[i] = Message(j, DoneMsg)

\* The progress up to which messages of a job can have been posted.
Posted(j) ==
  CASE works[j] = 0 /\ ~(\E w \in Workers : job[w] = j /\ thread[w] = "work") -> 0
    [] works[j] = 0 /\ (\E w \in Workers : job[w] = j /\ thread[w] = "work")  -> StartMsg
    [] works[j] > 0 /\ (\E w \in Workers : job[w] = j /\ thread[w] = "done")  -> MiddleMsg
    [] OTHER                                                                  -> DoneMsg

\* The inductive form of MessageOrder and DoneReported.
MessageInv ==
  /\ MessageOrder
  /\ \A i \in 1 .. Len(oy_job_message_list_) :
       oy_job_message_list_[i].progress <= Posted(oy_job_message_list_[i].job)
  /\ \A j \in Jobs : delivered[j] <= Posted(j)
  /\ \A j \in Progress : status_done_[j] = 1 \/ (\E w \in Workers : job[w] = j /\ thread[w] = "add")
       => \/ delivered[j] = DoneMsg
          \/ \E i \in 1 .. Len(oy_job_message_list_) :
               oy_job_message_list_[i] = Message(j, DoneMsg)

\* The inductive invariant of the queue.
QueueInv == JobInv /\ ThreadsCounted /\ WakeupsPending /\ MessageInv

\* As long as the application polls, every job is worked on and finished, the
\* persistent ones excepted: neither newer jobs on top of it, nor done jobs
\* that block the list, nor persistent jobs that never return hold it back.
JobsFinish == \A j \in Jobs \ Persistent : id_[j] > 0 ~> finishes[j] = 1

\* A persistent job gets a worker, however many of them run already.
PersistentJobsStart ==
  \A j \in Persistent : id_[j] > 0 /\ works[j] = 0 ~> Held(j)

\* The final message of every job that was worked on reaches cb_progress().
DoneDelivered == \A j \in Progress : works[j] = 1 ~> delivered[j] = DoneMsg

-----------------------------------------------------------------------------
(* The queue implements the abstract pool. *)

\* Handed over, although oyStructList_MoveIn() may not yet have run: the thread
\* for a persistent job is there as soon as oyJob_Add() has begun.
Submitted(j) == InList(j) \/ (mjob = j /\ main = "movein")

PoolPhase(j) ==
  CASE finishes[j] > 0                                   -> "finished"
    [] finishes[j] = 0 /\ works[j] > 0                   -> "worked"
    [] works[j] = 0 /\ finishes[j] = 0 /\ Held(j)        -> "running"
    [] works[j] = 0 /\ finishes[j] = 0 /\ ~Held(j) /\ Submitted(j) -> "queued"
    [] OTHER                                             -> "new"

PoolPhases == [j \in Jobs |-> PoolPhase(j)]

Pool == INSTANCE JobPool WITH phase <- PoolPhases

\* Every behaviour of the queue is one of the pool: submit, start by a free
\* worker, complete, finish, one step at a time for each job.
RefinesPool == Pool!PoolSpec
==============================================================================
