--------------------------- MODULE TrdsReset_proofs ---------------------------
(***************************************************************************)
(* Theorems about module TrdsReset, for any number of jobs, threads and    *)
(* resets: what the lock's count says, what holds before the first reset,  *)
(* and what a reset of waiting workers does.                               *)
(***************************************************************************)
EXTENDS TrdsReset, FiniteSetTheorems, SequenceTheorems, TLAPS

USE DEF Defined

Types ==
  /\ trds_reset \in {0, 1}
  /\ oy_job_list_ = Null \/ oy_job_list_ \in Seq(Jobs)
  /\ oy_job_message_list_ \in BOOLEAN
  /\ oy_threads_ \in BOOLEAN
  /\ locking \in BOOLEAN
  /\ quiet \in BOOLEAN
  /\ clean \in BOOLEAN
  /\ owner \in Threads \cup {Nobody}
  /\ status_done_ \in [Jobs -> {0, 1}]
  /\ main \in MainAt
  /\ mjob \in Jobs \cup {NoJob}
  /\ signals \in 0 .. NBase + 1
  /\ m \in LockAt
  /\ thread \in [Threads -> ThreadAt]
  /\ job \in [Threads -> Jobs \cup {NoJob}]
  /\ resets \in 0 .. MaxResets
  /\ added \in [Jobs -> 0 .. MaxResets + 1]
  /\ works \in [Jobs -> Nat]

\* Where a worker has a job, and where it has none.
JobAt(w) ==
  /\ job[w] # NoJob => thread[w] \in {"held", "release", "check", "work", "add", "movein"}
  /\ job[w] = NoJob => thread[w] \notin {"work", "add", "movein"}

\* Threads are started one after the other; new ones get the next numbers.
InOrder == \E n \in 0 .. MaxThreads : \A w \in Threads : thread[w] # "none" <=> w <= n

\* The managing thread has a job while it adds one, is in a reset while the flag
\* says so, and nothing goes on when the program went wrong.
MainInv ==
  /\ Defined => /\ main = "movein" <=> mjob # NoJob
                /\ trds_reset = 0 <=> main \in {"run", "movein"}
                /\ \A w \in Threads : JobAt(w) /\ thread[w] # "undefined"
  /\ ~Defined => \A w \in Threads : thread[w] = "undefined"

Control == Types /\ InOrder /\ MainInv

-----------------------------------------------------------------------------
(* Lists, and the start of threads.                                          *)

LEMMA ThreadsNat == /\ Threads \subseteq Nat \ {0}
                    /\ Nobody \notin Threads
                    /\ IsFiniteSet(Threads) /\ Cardinality(Threads) = MaxThreads
                    /\ NBase \in Nat \ {0} /\ MaxThreads \in Nat \ {0} /\ MaxResets \in Nat
<1>1. MaxThreads \in Int /\ 1 \in Int /\ MaxThreads >= 1
  BY ResetAssumption
<1>2. IsFiniteSet(1 .. MaxThreads) /\ Cardinality(1 .. MaxThreads) = MaxThreads
  BY <1>1, FS_Interval
<1> QED BY <1>2, ResetAssumption DEF Threads, Nobody

\* The list without its last entry.
LEMMA ShortenedProperties ==
  ASSUME NEW s \in Seq(Jobs), s # << >>
  PROVE  /\ SubSeq(s, 1, Len(s) - 1) \in Seq(Jobs)
         /\ Len(SubSeq(s, 1, Len(s) - 1)) = Len(s) - 1
         /\ \A i \in 1 .. Len(s) - 1 : SubSeq(s, 1, Len(s) - 1)[i] = s[i]
         /\ s[Len(s)] \in Jobs
         /\ Len(s) \in Nat \ {0} /\ Len(s) \in 1 .. Len(s)
<1>1. Len(s) \in Nat \ {0} /\ Len(s) \in 1 .. Len(s)
  BY EmptySeq, LenProperties
<1>2. /\ Len(s) - 1 \in 0 .. Len(s) /\ s[Len(s)] \in Jobs
      /\ 1 \in Int /\ Len(s) - 1 \in Int
      /\ \A i \in 1 .. Len(s) - 1 : i \in 1 .. Len(s) /\ 1 + i - 1 = i
  BY <1>1
<1>3. /\ SubSeq(s, 1, Len(s) - 1) \in Seq(Jobs)
      /\ Len(SubSeq(s, 1, Len(s) - 1)) = IF 1 <= Len(s) - 1 THEN Len(s) - 1 - 1 + 1 ELSE 0
      /\ \A i \in 1 .. Len(s) - 1 - 1 + 1 : SubSeq(s, 1, Len(s) - 1)[i] = s[1 + i - 1]
  BY <1>1, <1>2, SubSeqProperties
<1>4. \A n \in Nat \ {0} : /\ n - 1 - 1 + 1 = n - 1
                           /\ (IF 1 <= n - 1 THEN n - 1 - 1 + 1 ELSE 0) = n - 1
  OBVIOUS
<1>5. \A i \in 1 .. Len(s) - 1 : SubSeq(s, 1, Len(s) - 1)[i] = s[i]
  BY <1>2, <1>3, <1>4
<1> QED BY <1>1, <1>2, <1>3, <1>4, <1>5

LEMMA CountStarted ==
  ASSUME NEW n \in 0 .. MaxThreads, \A w \in Threads : thread[w] # "none" <=> w <= n
  PROVE  Cardinality(Started) = n
<1>1. Started = 1 .. n
  BY ResetAssumption DEF Started, Threads
<1>2. n \in Int /\ 1 \in Int /\ n >= 0
  OBVIOUS
<1>3. Cardinality(1 .. n) = IF 1 > n THEN 0 ELSE n - 1 + 1
  BY <1>2, FS_Interval
<1> QED BY <1>1, <1>2, <1>3

\* oyThreadsInit_() starts threads that there were not, or does nothing.
LEMMA StartThreads ==
  ASSUME Types, InOrder, NEW threadAt \in [Threads -> ThreadAt], ThreadsInit(threadAt),
         \A w \in Threads : threadAt[w] = "none" <=> thread[w] = "none"
  PROVE  /\ thread' \in [Threads -> ThreadAt]
         /\ InOrder'
         /\ IF oy_job_list_ = Null
            THEN /\ oy_job_list_' = << >> /\ oy_job_list_' # Null
                 /\ oy_job_message_list_' = TRUE /\ oy_threads_' = TRUE
                 /\ locking' = TRUE /\ owner' = Nobody /\ ref' = 0
                 /\ \A w \in Threads :
                      \/ thread'[w] = threadAt[w]
                      \/ thread[w] = "none" /\ threadAt[w] = "none" /\ thread'[w] = "loop"
            ELSE thread' = threadAt /\ UNCHANGED <<lists, lock>>
<1>1. PICK n \in 0 .. MaxThreads : \A w \in Threads : thread[w] # "none" <=> w <= n
  BY DEF InOrder
<1>2. Cardinality(Started) = n
  BY <1>1, CountStarted
<1>3. CASE oy_job_list_ = Null
  <2>1. /\ n + NBase <= MaxThreads
        /\ thread' = [w \in Threads |-> IF n < w /\ w <= n + NBase THEN "loop" ELSE threadAt[w]]
        /\ oy_job_list_' = << >>
        /\ oy_job_message_list_' = TRUE /\ oy_threads_' = TRUE
        /\ locking' = TRUE /\ owner' = Nobody /\ ref' = 0
    BY <1>2, <1>3 DEF ThreadsInit
  <2>2. << >> # Null
    BY ResetAssumption, EmptySeq
  <2>3. n + NBase \in 0 .. MaxThreads /\ n \in Nat /\ NBase \in Nat
    BY <2>1, ThreadsNat
  <2>4. \A w \in Threads : thread'[w] # "none" <=> w <= n + NBase
    <3> SUFFICES ASSUME NEW w \in Threads PROVE thread'[w] # "none" <=> w <= n + NBase
      OBVIOUS
    <3>1. thread'[w] = IF n < w /\ w <= n + NBase THEN "loop" ELSE threadAt[w]
      BY <2>1
    <3>2. threadAt[w] # "none" <=> w <= n
      BY <1>1
    <3>3. w \in Nat
      BY ThreadsNat
    <3> QED BY <2>3, <3>1, <3>2, <3>3
  <2>5. InOrder'
    BY <2>3, <2>4 DEF InOrder
  <2>6. thread' \in [Threads -> ThreadAt]
    BY <2>1 DEF ThreadAt
  <2>7. \A w \in Threads :
          \/ thread'[w] = threadAt[w]
          \/ thread[w] = "none" /\ threadAt[w] = "none" /\ thread'[w] = "loop"
    <3> SUFFICES ASSUME NEW w \in Threads, thread'[w] # threadAt[w]
                 PROVE  thread[w] = "none" /\ threadAt[w] = "none" /\ thread'[w] = "loop"
      OBVIOUS
    <3>1. thread'[w] = "loop" /\ n < w
      BY <2>1
    <3>2. thread[w] = "none"
      BY <1>1, <2>3, <3>1, ThreadsNat
    <3> QED BY <3>1, <3>2
  <2> QED BY <1>3, <2>1, <2>2, <2>5, <2>6, <2>7
<1>4. CASE oy_job_list_ # Null
  <2>1. thread' = threadAt /\ UNCHANGED <<lists, lock>>
    BY <1>4 DEF ThreadsInit
  <2>2. InOrder'
    BY <1>1, <2>1 DEF InOrder
  <2> QED BY <1>4, <2>1, <2>2
<1> QED BY <1>3, <1>4
-----------------------------------------------------------------------------
(* Control.                                                                  *)

\* Nothing goes on in a program that went wrong.
LEMMA Dead == Types /\ MainInv /\ ~Defined => ~Next
<1> SUFFICES ASSUME Types, MainInv, ~Defined, Next PROVE FALSE
  OBVIOUS
<1>1. \A w \in Threads : thread[w] = "undefined"
  BY DEF MainInv
<1>2. CASE MainNext
  BY <1>2 DEF MainNext, Add, MoveIn, MoveInNull, JobResult, Reset, ResetOn, ResetTest,
              ResetFetch, ResetSignal, ResetSignalled, ResetLate, Ends, ResetMessages,
              ResetThreads, ResetLocks, CMMInit
<1>3. ASSUME NEW w \in Threads, WorkerNext(w) \/ SpuriousWakeup(w) PROVE FALSE
  <2>1. thread[w] = "undefined"
    BY <1>1
  <2> QED BY <1>3, <2>1 DEF WorkerNext, SpuriousWakeup, Goto, Loop, Enter, LockList, LockWrong,
                CondWait, Awake, Leave, Release, ReleaseWrong, Break, Continue, Work,
                PostWrong, AddDone, MoveInDone, MoveInLost
<1> QED BY <1>2, <1>3 DEF Next

\* Going wrong keeps the types and stops everything.
LEMMA ControlWrong ==
  ASSUME Control, NEW how \in {"undefined", "late"}, Ends(how) PROVE Control'
<1> USE DEF Control
<1>1. Types'
  BY DEF Types, GoesWrong, Ends, lists, lock, history, locals, MainAt, ThreadAt
<1>2. \A w \in Threads : thread'[w] = "undefined" /\ w <= MaxThreads
  BY ResetAssumption DEF GoesWrong, Ends, Threads
<1>3. InOrder'
  <2>1. MaxThreads \in 0 .. MaxThreads
    BY ResetAssumption
  <2> QED BY <1>2, <2>1 DEF InOrder
<1>4. MainInv'
  BY <1>2 DEF GoesWrong, Ends, MainInv
<1> QED BY <1>1, <1>3, <1>4

\* A step of one thread that keeps the managing thread as it is.
LEMMA ThreadStep ==
  ASSUME Control, Defined, NEW w \in Threads,
         NEW from, NEW to \in ThreadAt \ {"none", "undefined"}, Goto(w, from, to), from # "none",
         job' \in [Threads -> Jobs \cup {NoJob}], \A v \in Threads : v # w => job'[v] = job[v],
         JobAt(w)', UNCHANGED <<trds_reset, main, mjob>>
  PROVE  thread' \in [Threads -> ThreadAt] /\ InOrder' /\ MainInv'
<1>0. Types /\ InOrder /\ MainInv
  BY DEF Control
<1>1. /\ thread' \in [Threads -> ThreadAt]
      /\ thread'[w] = to /\ thread[w] = from
      /\ \A v \in Threads : v # w => thread'[v] = thread[v]
  BY <1>0 DEF Goto, Types
<1>2. \A v \in Threads : thread'[v] = "none" <=> thread[v] = "none"
  BY <1>1
<1>3. InOrder'
  BY <1>0, <1>2 DEF InOrder
<1>4. \A v \in Threads : JobAt(v)' /\ thread'[v] # "undefined"
  <2> SUFFICES ASSUME NEW v \in Threads PROVE JobAt(v)' /\ thread'[v] # "undefined"
    OBVIOUS
  <2>1. CASE v = w
    BY <1>1, <2>1
  <2>2. CASE v # w
    <3>1. JobAt(v) /\ thread[v] # "undefined" /\ thread'[v] = thread[v] /\ job'[v] = job[v]
      BY <1>0, <1>1, <2>2 DEF MainInv
    <3> QED BY <3>1 DEF JobAt
  <2> QED BY <2>1, <2>2
<1>5. MainInv'
  BY <1>0, <1>4 DEF MainInv
<1> QED BY <1>1, <1>3, <1>5

\* A step of the managing thread that starts no thread, gives none a job, and at
\* most wakes some that wait.
LEMMA MainStep ==
  ASSUME Control, Defined, main' \in MainAt \ {"undefined", "late"},
         thread' \in [Threads -> ThreadAt],
         \A w \in Threads : \/ thread'[w] = thread[w]
                            \/ thread[w] = "wait" /\ thread'[w] = "woken",
         UNCHANGED job,
         main' = "movein" <=> mjob' # NoJob,
         trds_reset' = 0 <=> main' \in {"run", "movein"}
  PROVE  InOrder' /\ MainInv'
<1>0. Types /\ InOrder /\ MainInv
  BY DEF Control
<1>1. \A w \in Threads : thread'[w] = "none" <=> thread[w] = "none"
  OBVIOUS
<1>2. InOrder'
  BY <1>0, <1>1 DEF InOrder
<1>3. \A w \in Threads : JobAt(w)' /\ thread'[w] # "undefined"
  <2> SUFFICES ASSUME NEW w \in Threads PROVE JobAt(w)' /\ thread'[w] # "undefined"
    OBVIOUS
  <2>1. JobAt(w) /\ thread[w] # "undefined"
    BY <1>0 DEF MainInv
  <2> QED BY <2>1 DEF JobAt
<1> QED BY <1>0, <1>2, <1>3 DEF MainInv

\* A started thread adds its job.
LEMMA AddDoneControl ==
  ASSUME Control, Defined, NEW w \in Threads, AddDone(w) PROVE Control'
<1>0. Types /\ InOrder /\ MainInv
  BY DEF Control
<1> DEFINE threadAt == [thread EXCEPT ![w] = "movein"]
<1>1. /\ thread[w] = "add" /\ ThreadsInit(threadAt)
      /\ UNCHANGED <<trds_reset, main, mjob, signals, m, job, history, works>>
      /\ status_done_' = [status_done_ EXCEPT ![job[w]] = 1]
  BY DEF AddDone, locals
<1>2. /\ threadAt \in [Threads -> ThreadAt]
      /\ \A v \in Threads : threadAt[v] = IF v = w THEN "movein" ELSE thread[v]
  BY <1>0 DEF Types, ThreadAt
<1>3. \A v \in Threads : threadAt[v] = "none" <=> thread[v] = "none"
  BY <1>1, <1>2
<1> HIDE DEF threadAt
<1>4. /\ thread' \in [Threads -> ThreadAt]
      /\ InOrder'
      /\ IF oy_job_list_ = Null
         THEN /\ oy_job_list_' = << >> /\ oy_job_list_' # Null
              /\ oy_job_message_list_' = TRUE /\ oy_threads_' = TRUE
              /\ locking' = TRUE /\ owner' = Nobody /\ ref' = 0
              /\ \A v \in Threads :
                   \/ thread'[v] = threadAt[v]
                   \/ thread[v] = "none" /\ threadAt[v] = "none" /\ thread'[v] = "loop"
         ELSE thread' = threadAt /\ UNCHANGED <<lists, lock>>
  BY <1>0, <1>1, <1>2, <1>3, StartThreads
<1>5. \A v \in Threads : \/ thread'[v] = threadAt[v]
                         \/ thread[v] = "none" /\ thread'[v] = "loop"
  BY <1>4
<1>6. Types'
  <2>1. status_done_' \in [Jobs -> {0, 1}]
    BY <1>0, <1>1 DEF Types
  <2>2. oy_job_list_' = Null \/ oy_job_list_' \in Seq(Jobs)
    BY <1>0, <1>4, EmptySeq DEF Types, lists, locals
  <2>3. /\ oy_job_message_list_' \in BOOLEAN /\ oy_threads_' \in BOOLEAN
        /\ locking' \in BOOLEAN /\ owner' \in Threads \cup {Nobody}
    BY <1>0, <1>4 DEF Types, lists, lock, locals
  <2> QED BY <1>0, <1>1, <1>4, <2>1, <2>2, <2>3 DEF Types, history
<1>7. \A v \in Threads : JobAt(v)' /\ thread'[v] # "undefined"
  <2> SUFFICES ASSUME NEW v \in Threads PROVE JobAt(v)' /\ thread'[v] # "undefined"
    OBVIOUS
  <2>1. JobAt(v) /\ thread[v] # "undefined" /\ job'[v] = job[v]
    BY <1>0, <1>1 DEF MainInv
  <2>2. CASE v = w
    BY <1>1, <1>2, <1>5, <2>1, <2>2 DEF JobAt
  <2>3. CASE v # w
    BY <1>1, <1>2, <1>5, <2>1, <2>3 DEF JobAt
  <2> QED BY <2>2, <2>3
<1>8. MainInv'
  BY <1>0, <1>1, <1>7 DEF MainInv
<1> QED BY <1>4, <1>6, <1>8 DEF Control

\* A new job starts the threads if there is no list.
LEMMA AddControl ==
  ASSUME Control, Defined, NEW j \in Jobs, Add(j) PROVE Control'
<1>0. Types /\ InOrder /\ MainInv
  BY DEF Control
<1>1. /\ main = "run" /\ ThreadsInit(thread)
      /\ main' = "movein" /\ mjob' = j /\ j # NoJob
      /\ added' = [added EXCEPT ![j] = resets + 1]
      /\ UNCHANGED <<signals, m, trds_reset, status_done_, job, resets, quiet, clean, works>>
  BY ResetAssumption DEF Add
<1>4. /\ thread' \in [Threads -> ThreadAt]
      /\ InOrder'
      /\ IF oy_job_list_ = Null
         THEN /\ oy_job_list_' = << >> /\ oy_job_list_' # Null
              /\ oy_job_message_list_' = TRUE /\ oy_threads_' = TRUE
              /\ locking' = TRUE /\ owner' = Nobody /\ ref' = 0
              /\ \A v \in Threads :
                   \/ thread'[v] = thread[v]
                   \/ thread[v] = "none" /\ thread[v] = "none" /\ thread'[v] = "loop"
         ELSE thread' = thread /\ UNCHANGED <<lists, lock>>
  <2>1. thread \in [Threads -> ThreadAt]
    BY <1>0 DEF Types
  <2> QED BY <1>0, <1>1, <2>1, StartThreads
<1>5. \A v \in Threads : \/ thread'[v] = thread[v]
                         \/ thread[v] = "none" /\ thread'[v] = "loop"
  BY <1>4
<1>6. Types'
  <2>1. added' \in [Jobs -> 0 .. MaxResets + 1]
    <3>1. resets + 1 \in 0 .. MaxResets + 1
      BY <1>0, ThreadsNat DEF Types
    <3> QED BY <1>0, <1>1, <3>1 DEF Types
  <2>2. oy_job_list_' = Null \/ oy_job_list_' \in Seq(Jobs)
    BY <1>0, <1>4, EmptySeq DEF Types, lists, locals
  <2>3. /\ oy_job_message_list_' \in BOOLEAN /\ oy_threads_' \in BOOLEAN
        /\ locking' \in BOOLEAN /\ owner' \in Threads \cup {Nobody}
    BY <1>0, <1>4 DEF Types, lists, lock, locals
  <2> QED BY <1>0, <1>1, <1>4, <2>1, <2>2, <2>3 DEF Types, MainAt
<1>7. \A v \in Threads : JobAt(v)' /\ thread'[v] # "undefined"
  <2> SUFFICES ASSUME NEW v \in Threads PROVE JobAt(v)' /\ thread'[v] # "undefined"
    OBVIOUS
  <2>1. JobAt(v) /\ thread[v] # "undefined" /\ job'[v] = job[v]
    BY <1>0, <1>1 DEF MainInv
  <2> QED BY <1>1, <1>5, <2>1 DEF JobAt
<1>8. MainInv'
  BY <1>0, <1>1, <1>7 DEF MainInv
<1> QED BY <1>4, <1>6, <1>8 DEF Control

LEMMA ControlStep == Control /\ [Next]_vars => Control'
<1> SUFFICES ASSUME Control, [Next]_vars PROVE Control'
  OBVIOUS
<1>a. Types /\ InOrder /\ MainInv
  BY DEF Control
<1>b. CASE ~Defined
  <2>1. UNCHANGED vars
    BY <1>a, <1>b, Dead
  <2> QED BY <1>a, <2>1 DEF vars, lists, lock, history, locals, Control, Types, InOrder,
     MainInv, JobAt
<1>c. CASE Defined
  <2>0. Control /\ Defined /\ Types /\ InOrder /\ MainInv
    BY <1>a, <1>c
  <2>1. ASSUME NEW j \in Jobs, Add(j) PROVE Control'
    BY <2>1, <2>0, AddControl
  <2>2. CASE MoveIn
    <3>1. /\ mjob \in Jobs /\ oy_job_list_' \in Seq(Jobs)
          /\ UNCHANGED <<oy_job_message_list_, oy_threads_>>
      BY <2>0, <2>2, AppendProperties DEF MoveIn, ListMoveIn, Types, MainInv
    <3>2. /\ thread' \in [Threads -> ThreadAt]
          /\ \A w \in Threads : \/ thread'[w] = thread[w]
                                \/ thread[w] = "wait" /\ thread'[w] = "woken"
      BY <2>0, <2>2 DEF MoveIn, Waiting, Types, ThreadAt
    <3>3. /\ main = "movein" /\ main' = "run" /\ mjob' = NoJob
          /\ UNCHANGED <<signals, m, trds_reset, lock, status_done_, job, history, works>>
      BY <2>2 DEF MoveIn
    <3>4. Types'
      BY <2>0, <3>1, <3>2, <3>3 DEF Types, lock, history, locals, MainAt
    <3>5. InOrder' /\ MainInv'
      BY <2>0, <3>2, <3>3, MainStep DEF MainInv, MainAt
    <3> QED BY <3>4, <3>5 DEF Control
  <2>3. CASE MoveInNull
    BY <2>3, ControlWrong DEF MoveInNull, GoesWrong
  <2>4. CASE JobResult
    <3>1. oy_job_list_' \in Seq(Jobs)
      BY <2>0, <2>4, ShortenedProperties DEF JobResult, Types, Shortened
    <3>2. /\ main = "run"
          /\ UNCHANGED <<trds_reset, oy_job_message_list_, oy_threads_, lock, status_done_,
                         main, locals, thread, job, history, works>>
      BY <2>4 DEF JobResult
    <3>3. Types'
      BY <2>0, <3>1, <3>2 DEF Types, lock, history, locals
    <3>4. InOrder' /\ MainInv'
      BY <2>0, <3>2, MainStep DEF MainInv, Types, MainAt, locals
    <3> QED BY <3>3, <3>4 DEF Control
  <2>5. CASE Reset
    <3>1. /\ main = "run" /\ main' = "test" /\ trds_reset' = 1
          /\ resets < MaxResets /\ resets' = resets + 1
          /\ quiet' \in BOOLEAN /\ clean' = FALSE /\ signals' \in 0 .. NBase + 1
          /\ UNCHANGED <<lists, lock, status_done_, mjob, m, thread, job, added, works>>
      BY <2>5, ThreadsNat DEF Reset
    <3>2. resets' \in 0 .. MaxResets
      BY <2>0, <3>1, ThreadsNat DEF Types
    <3>3. Types'
      BY <2>0, <3>1, <3>2 DEF Types, lists, lock, locals, MainAt
    <3>4. InOrder' /\ MainInv'
      BY <2>0, <3>1, MainStep DEF MainInv, Types, MainAt
    <3> QED BY <3>3, <3>4 DEF Control
  <2>6. CASE ResetTest \/ ResetFetch \/ ResetSignal \/ ResetSignalled
    <3>1. /\ thread' \in [Threads -> ThreadAt]
          /\ \A w \in Threads : \/ thread'[w] = thread[w]
                                \/ thread[w] = "wait" /\ thread'[w] = "woken"
      BY <2>0, <2>6 DEF ResetTest, ResetFetch, ResetSignal, ResetSignalled, Waiting, Types,
         ThreadAt
    <3>2. /\ main \in {"test", "fetch", "signal"}
          /\ main' \in {"fetch", "signal", "messages"}
          /\ UNCHANGED <<trds_reset, lists, lock, status_done_, mjob, job, history, works>>
      BY <2>6 DEF ResetTest, ResetFetch, ResetSignal, ResetSignalled
    <3>3. signals' \in 0 .. NBase + 1 /\ m' \in LockAt
      <4>1. CASE ResetTest
        BY <2>0, <4>1, ThreadsNat DEF ResetTest, Types
      <4>2. CASE ResetFetch \/ ResetSignalled
        BY <2>0, <4>2 DEF ResetFetch, ResetSignalled, Types, LockAt
      <4>3. CASE ResetSignal
        BY <2>0, <4>3, ThreadsNat DEF ResetSignal, Types
      <4> QED BY <2>6, <4>1, <4>2, <4>3
    <3>4. Types'
      BY <2>0, <3>1, <3>2, <3>3 DEF Types, lists, lock, history, MainAt
    <3>5. InOrder' /\ MainInv'
      BY <2>0, <3>1, <3>2, MainStep DEF MainInv, MainAt
    <3> QED BY <3>4, <3>5 DEF Control
  <2>6a. CASE ResetLate
    BY <2>6a, ControlWrong DEF ResetLate
  <2>7. CASE ResetMessages
    <3>1. main = "messages" /\ main' = "threads" /\ UNCHANGED <<mjob, thread, job>>
      BY <2>7 DEF ResetMessages, locals
    <3>2. Types'
      BY <2>0, <2>7 DEF ResetMessages, Types, lists, lock, history, locals, MainAt
    <3>3. InOrder' /\ MainInv'
      BY <2>0, <2>7, <3>1, MainStep DEF ResetMessages, MainInv, Types, MainAt
    <3> QED BY <3>2, <3>3 DEF Control
  <2>8. CASE ResetThreads
    <3>1. main = "threads" /\ main' = "locks" /\ UNCHANGED <<mjob, thread, job>>
      BY <2>8 DEF ResetThreads, locals
    <3>2. Types'
      BY <2>0, <2>8 DEF ResetThreads, Types, lists, lock, history, locals, MainAt
    <3>3. InOrder' /\ MainInv'
      BY <2>0, <2>8, <3>1, MainStep DEF ResetThreads, MainInv, Types, MainAt
    <3> QED BY <3>2, <3>3 DEF Control
  <2>9. CASE ResetLocks
    <3>1. main = "locks" /\ main' = "down" /\ UNCHANGED <<mjob, thread, job>>
      BY <2>9 DEF ResetLocks, locals
    <3>2. Types'
      BY <2>0, <2>9 DEF ResetLocks, Types, lists, lock, history, locals, MainAt
    <3>3. InOrder' /\ MainInv'
      BY <2>0, <2>9, <3>1, MainStep DEF ResetLocks, MainInv, Types, MainAt
    <3> QED BY <3>2, <3>3 DEF Control
  <2>10. CASE CMMInit
    <3>1. main = "down" /\ main' = "run" /\ UNCHANGED <<mjob, thread, job>>
      BY <2>10 DEF CMMInit, locals
    <3>2. Types'
      BY <2>0, <2>10 DEF CMMInit, Types, lists, lock, history, locals, MainAt
    <3>3. InOrder' /\ MainInv'
      BY <2>0, <2>10, <3>1, MainStep DEF CMMInit, MainInv, Types, MainAt
    <3> QED BY <3>2, <3>3 DEF Control
  <2>11. ASSUME NEW w \in Threads, Loop(w) PROVE Control'
    <3>1. /\ Goto(w, "loop", IF trds_reset = 1 THEN "exit" ELSE "enter")
          /\ job' = job /\ UNCHANGED <<trds_reset, main, mjob>>
      BY <2>11 DEF Loop, locals
    <3>2. /\ job' \in [Threads -> Jobs \cup {NoJob}]
          /\ \A v \in Threads : v # w => job'[v] = job[v]
          /\ JobAt(w)'
      BY <2>0, <3>1 DEF Goto, JobAt, MainInv, Types
    <3>3. thread' \in [Threads -> ThreadAt] /\ InOrder' /\ MainInv'
      BY <2>0, <3>1, <3>2, ThreadStep DEF ThreadAt
    <3>4. Types'
      BY <2>0, <2>11, <3>2, <3>3 DEF Loop, Types, lists, lock, history, locals
    <3> QED BY <3>3, <3>4 DEF Control
  <2>12. ASSUME NEW w \in Threads, Enter(w) PROVE Control'
    <3>1. /\ Goto(w, "enter", IF oy_job_list_ = Null THEN "check" ELSE "lock")
          /\ job' = job /\ UNCHANGED <<trds_reset, main, mjob>>
      BY <2>12 DEF Enter, locals
    <3>2. /\ job' \in [Threads -> Jobs \cup {NoJob}]
          /\ \A v \in Threads : v # w => job'[v] = job[v]
          /\ JobAt(w)'
      BY <2>0, <3>1 DEF Goto, JobAt, MainInv, Types
    <3>3. thread' \in [Threads -> ThreadAt] /\ InOrder' /\ MainInv'
      BY <2>0, <3>1, <3>2, ThreadStep DEF ThreadAt
    <3>4. Types'
      BY <2>0, <2>12, <3>2, <3>3 DEF Enter, Types, lists, lock, history, locals
    <3> QED BY <3>3, <3>4 DEF Control
  <2>13. ASSUME NEW w \in Threads, LockList(w) PROVE Control'
    <3>0. /\ oy_job_list_ \in Seq(Jobs) /\ thread[w] = "lock"
          /\ UNCHANGED <<trds_reset, oy_job_message_list_, oy_threads_, status_done_, main,
                         mjob, signals, m, history, works, locking>>
          /\ owner' \in {w, owner}
      BY <2>0, <2>13 DEF LockList, Types, Lock, locals
    <3>1. /\ \/ Goto(w, "lock", "nojob") /\ UNCHANGED job
             \/ Goto(w, "lock", "held")
          /\ \/ UNCHANGED <<job, oy_job_list_>>
             \/ /\ oy_job_list_ # << >> /\ thread'[w] = "held"
                /\ job' = [job EXCEPT ![w] = LastJob] /\ oy_job_list_' = Shortened
      BY <2>0, <2>13 DEF LockList, Goto, Types
    <3>2. /\ job' \in [Threads -> Jobs \cup {NoJob}]
          /\ \A v \in Threads : v # w => job'[v] = job[v]
          /\ oy_job_list_' \in Seq(Jobs)
      BY <2>0, <3>0, <3>1, ShortenedProperties DEF Shortened, LastJob, Types
    <3>3. JobAt(w) /\ job[w] = NoJob
      BY <2>0, <3>0 DEF MainInv, JobAt
    <3>4. thread'[w] \in {"nojob", "held"} /\ (thread'[w] = "nojob" => job'[w] = NoJob)
      BY <2>0, <3>1, <3>3 DEF Goto, Types
    <3>5. JobAt(w)'
      BY <3>4 DEF JobAt
    <3>6. thread' \in [Threads -> ThreadAt] /\ InOrder' /\ MainInv'
      <4>1. CASE Goto(w, "lock", "nojob")
        BY <2>0, <3>0, <3>2, <3>5, <4>1, ThreadStep DEF ThreadAt
      <4>2. CASE Goto(w, "lock", "held")
        BY <2>0, <3>0, <3>2, <3>5, <4>2, ThreadStep DEF ThreadAt
      <4> QED BY <3>1, <4>1, <4>2
    <3>7. Types'
      BY <2>0, <3>0, <3>2, <3>6 DEF Types, history, locals
    <3> QED BY <3>6, <3>7 DEF Control
  <2>14. ASSUME NEW w \in Threads, LockWrong(w) PROVE Control'
    BY <2>14, ControlWrong DEF LockWrong, GoesWrong
  <2>15. ASSUME NEW w \in Threads, CondWait(w) PROVE Control'
    <3>1. /\ Goto(w, "nojob", IF owner = w THEN "wait" ELSE "held")
          /\ job' = job /\ UNCHANGED <<trds_reset, main, mjob>>
      BY <2>15 DEF CondWait, locals
    <3>2. /\ job' \in [Threads -> Jobs \cup {NoJob}]
          /\ \A v \in Threads : v # w => job'[v] = job[v]
          /\ JobAt(w)'
      BY <2>0, <3>1 DEF Goto, JobAt, MainInv, Types
    <3>3. thread' \in [Threads -> ThreadAt] /\ InOrder' /\ MainInv'
      BY <2>0, <3>1, <3>2, ThreadStep DEF ThreadAt
    <3>4. Types'
      BY <2>0, <2>15, <3>2, <3>3 DEF CondWait, Types, lists, lock, history, locals
    <3> QED BY <3>3, <3>4 DEF Control
  <2>16. ASSUME NEW w \in Threads, Awake(w) PROVE Control'
    <3>1. /\ Goto(w, "woken", "held")
          /\ job' = job /\ UNCHANGED <<trds_reset, main, mjob>>
      BY <2>16 DEF Awake, locals
    <3>2. /\ job' \in [Threads -> Jobs \cup {NoJob}]
          /\ \A v \in Threads : v # w => job'[v] = job[v]
          /\ JobAt(w)'
      BY <2>0, <3>1 DEF Goto, JobAt, MainInv, Types
    <3>3. thread' \in [Threads -> ThreadAt] /\ InOrder' /\ MainInv'
      BY <2>0, <3>1, <3>2, ThreadStep DEF ThreadAt
    <3>4. Types'
      BY <2>0, <2>16, <3>2, <3>3 DEF Awake, Types, lists, lock, history, locals
    <3> QED BY <3>3, <3>4 DEF Control
  <2>17. ASSUME NEW w \in Threads, Leave(w) PROVE Control'
    <3>1. /\ Goto(w, "held", IF trds_reset = 1 /\ ref = 1 THEN "release" ELSE "check")
          /\ job' = job /\ UNCHANGED <<trds_reset, main, mjob>>
      BY <2>17 DEF Leave, locals
    <3>2. /\ job' \in [Threads -> Jobs \cup {NoJob}]
          /\ \A v \in Threads : v # w => job'[v] = job[v]
          /\ JobAt(w)'
      BY <2>0, <3>1 DEF Goto, JobAt, MainInv, Types
    <3>3. thread' \in [Threads -> ThreadAt] /\ InOrder' /\ MainInv'
      BY <2>0, <3>1, <3>2, ThreadStep DEF ThreadAt
    <3>4. Types'
      BY <2>0, <2>17, <3>2, <3>3 DEF Leave, UnLock, Types, lists, lock, history, locals
    <3> QED BY <3>3, <3>4 DEF Control
  <2>18. ASSUME NEW w \in Threads, Release(w) PROVE Control'
    <3>1. /\ Goto(w, "release", "check")
          /\ job' = job /\ UNCHANGED <<trds_reset, main, mjob>>
      BY <2>18 DEF Release, locals
    <3>2. /\ job' \in [Threads -> Jobs \cup {NoJob}]
          /\ \A v \in Threads : v # w => job'[v] = job[v]
          /\ JobAt(w)'
      BY <2>0, <3>1 DEF Goto, JobAt, MainInv, Types
    <3>3. thread' \in [Threads -> ThreadAt] /\ InOrder' /\ MainInv'
      BY <2>0, <3>1, <3>2, ThreadStep DEF ThreadAt
    <3>3a. m' \in LockAt
      BY <2>0, <2>18 DEF Release, Types, LockAt
    <3>4. Types'
      BY <2>0, <2>18, <3>2, <3>3, <3>3a DEF Release, Types, lists, lock, history
    <3> QED BY <3>3, <3>4 DEF Control
  <2>19. ASSUME NEW w \in Threads, ReleaseWrong(w) PROVE Control'
    BY <2>19, ControlWrong DEF ReleaseWrong, GoesWrong
  <2>20. ASSUME NEW w \in Threads, Break(w) PROVE Control'
    <3>1. /\ Goto(w, "check", "exit")
          /\ job' = [job EXCEPT ![w] = NoJob] /\ UNCHANGED <<trds_reset, main, mjob>>
      BY <2>20 DEF Break, locals
    <3>2. /\ job' \in [Threads -> Jobs \cup {NoJob}]
          /\ \A v \in Threads : v # w => job'[v] = job[v]
          /\ JobAt(w)'
      BY <2>0, <3>1 DEF Goto, JobAt, MainInv, Types
    <3>3. thread' \in [Threads -> ThreadAt] /\ InOrder' /\ MainInv'
      BY <2>0, <3>1, <3>2, ThreadStep DEF ThreadAt
    <3>4. Types'
      BY <2>0, <2>20, <3>2, <3>3 DEF Break, Types, lists, lock, history, locals
    <3> QED BY <3>3, <3>4 DEF Control
  <2>21. ASSUME NEW w \in Threads, Continue(w) PROVE Control'
    <3>1. /\ Goto(w, "check", IF job[w] = NoJob THEN "loop" ELSE "work")
          /\ job' = job /\ UNCHANGED <<trds_reset, main, mjob>>
      BY <2>21 DEF Continue, locals
    <3>2. /\ job' \in [Threads -> Jobs \cup {NoJob}]
          /\ \A v \in Threads : v # w => job'[v] = job[v]
          /\ JobAt(w)'
      BY <2>0, <3>1 DEF Goto, JobAt, MainInv, Types
    <3>3. thread' \in [Threads -> ThreadAt] /\ InOrder' /\ MainInv'
      BY <2>0, <3>1, <3>2, ThreadStep DEF ThreadAt
    <3>4. Types'
      BY <2>0, <2>21, <3>2, <3>3 DEF Continue, Types, lists, lock, history, locals
    <3> QED BY <3>3, <3>4 DEF Control
  <2>22. ASSUME NEW w \in Threads, Work(w) PROVE Control'
    <3>1. /\ Goto(w, "work", "add")
          /\ job' = job /\ UNCHANGED <<trds_reset, main, mjob>>
      BY <2>22 DEF Work, locals
    <3>2. /\ job' \in [Threads -> Jobs \cup {NoJob}]
          /\ \A v \in Threads : v # w => job'[v] = job[v]
          /\ JobAt(w)'
      BY <2>0, <3>1 DEF Goto, JobAt, MainInv, Types
    <3>3. thread' \in [Threads -> ThreadAt] /\ InOrder' /\ MainInv'
      BY <2>0, <3>1, <3>2, ThreadStep DEF ThreadAt
    <3>4. works' \in [Jobs -> Nat]
      <4>1. job[w] \in Jobs
        BY <2>0, <3>1 DEF Goto, JobAt, MainInv, Types
      <4> QED BY <2>0, <2>22, <4>1 DEF Work, Types
    <3>5. Types'
      BY <2>0, <2>22, <3>2, <3>3, <3>4 DEF Work, Types, lists, lock, history, locals
    <3> QED BY <3>3, <3>5 DEF Control
  <2>23. ASSUME NEW w \in Threads, PostWrong(w) PROVE Control'
    BY <2>23, ControlWrong DEF PostWrong, GoesWrong
  <2>24. ASSUME NEW w \in Threads, AddDone(w) PROVE Control'
    BY <2>24, <2>0, AddDoneControl
  <2>25. ASSUME NEW w \in Threads, MoveInDone(w) PROVE Control'
    <3>1. /\ Goto(w, "movein", "loop")
          /\ job' = [job EXCEPT ![w] = NoJob] /\ UNCHANGED <<trds_reset, main, mjob>>
      BY <2>25 DEF MoveInDone, locals
    <3>2. /\ job' \in [Threads -> Jobs \cup {NoJob}]
          /\ \A v \in Threads : v # w => job'[v] = job[v]
          /\ JobAt(w)'
      BY <2>0, <3>1 DEF Goto, JobAt, MainInv, Types
    <3>3. thread' \in [Threads -> ThreadAt] /\ InOrder' /\ MainInv'
      BY <2>0, <3>1, <3>2, ThreadStep DEF ThreadAt
    <3>4. oy_job_list_' \in Seq(Jobs)
      <4>1. job[w] \in Jobs
        BY <2>0, <3>1 DEF Goto, JobAt, MainInv, Types
      <4> QED BY <2>0, <2>25, <4>1, AppendProperties DEF MoveInDone, ListMoveIn, Types
    <3>5. Types'
      BY <2>0, <2>25, <3>2, <3>3, <3>4 DEF MoveInDone, ListMoveIn, Types, lists, lock, history,
         locals
    <3> QED BY <3>3, <3>5 DEF Control
  <2>26. ASSUME NEW w \in Threads, MoveInLost(w) PROVE Control'
    <3>1. /\ Goto(w, "movein", "loop")
          /\ job' = [job EXCEPT ![w] = NoJob] /\ UNCHANGED <<trds_reset, main, mjob>>
      BY <2>26 DEF MoveInLost, locals
    <3>2. /\ job' \in [Threads -> Jobs \cup {NoJob}]
          /\ \A v \in Threads : v # w => job'[v] = job[v]
          /\ JobAt(w)'
      BY <2>0, <3>1 DEF Goto, JobAt, MainInv, Types
    <3>3. thread' \in [Threads -> ThreadAt] /\ InOrder' /\ MainInv'
      BY <2>0, <3>1, <3>2, ThreadStep DEF ThreadAt
    <3>4. Types'
      BY <2>0, <2>26, <3>2, <3>3 DEF MoveInLost, Types, lists, lock, history, locals
    <3> QED BY <3>3, <3>4 DEF Control
  <2>27. ASSUME NEW w \in Threads, SpuriousWakeup(w) PROVE Control'
    <3>1. /\ Goto(w, "wait", "woken")
          /\ job' = job /\ UNCHANGED <<trds_reset, main, mjob>>
      BY <2>27 DEF SpuriousWakeup, locals
    <3>2. /\ job' \in [Threads -> Jobs \cup {NoJob}]
          /\ \A v \in Threads : v # w => job'[v] = job[v]
          /\ JobAt(w)'
      BY <2>0, <3>1 DEF Goto, JobAt, MainInv, Types
    <3>3. thread' \in [Threads -> ThreadAt] /\ InOrder' /\ MainInv'
      BY <2>0, <3>1, <3>2, ThreadStep DEF ThreadAt
    <3>4. Types'
      BY <2>0, <2>27, <3>2, <3>3 DEF SpuriousWakeup, Types, lists, lock, history, locals
    <3> QED BY <3>3, <3>4 DEF Control
  <2>28. CASE UNCHANGED vars
    BY <2>0, <2>28 DEF vars, lists, lock, history, locals, Control, Types, InOrder, MainInv,
       JobAt
  <2> QED
    BY <2>1, <2>2, <2>3, <2>4, <2>5, <2>6, <2>6a, <2>7, <2>8, <2>9, <2>10, <2>11, <2>12, <2>13,
       <2>14,
       <2>15, <2>16, <2>17, <2>18, <2>19, <2>20, <2>21, <2>22, <2>23, <2>24, <2>25, <2>26,
       <2>27, <2>28
    DEF Next, MainNext, ResetOn, WorkerNext
<1> QED BY <1>b, <1>c

-----------------------------------------------------------------------------
(* The lock of the list.                                                     *)

InsideAt == {"nojob", "wait", "woken", "held"}

\* A list that is gone has nobody inside of its lock, and ms->ref counts right.
LocksInv == /\ ref \in 0 .. MaxThreads
            /\ RefCountsInside
            /\ oy_job_list_ = Null => Inside = {}

LEMMA InsideFinite ==
  /\ \A S \in SUBSET Threads : IsFiniteSet(S) /\ Cardinality(S) \in 0 .. MaxThreads
  /\ Inside \in SUBSET Threads /\ Waiting \in SUBSET Threads
<1>1. ASSUME NEW S \in SUBSET Threads PROVE IsFiniteSet(S) /\ Cardinality(S) \in 0 .. MaxThreads
  <2>1. IsFiniteSet(S) /\ Cardinality(S) <= Cardinality(Threads) /\ Cardinality(S) \in Nat
    BY ThreadsNat, FS_Subset, FS_CardinalityType
  <2> QED BY <2>1, ThreadsNat
<1>2. Inside \in SUBSET Threads /\ Waiting \in SUBSET Threads
  BY DEF Inside, Waiting
<1> QED BY <1>1, <1>2

\* Nobody comes or goes.
LEMMA LocksQuiet ==
  ASSUME LocksInv, Defined,
         \A w \in Threads : thread'[w] \in InsideAt <=> thread[w] \in InsideAt,
         ref' = ref, locking' => locking,
         oy_job_list_' = Null => oy_job_list_ = Null \/ Inside = {}
  PROVE  LocksInv' /\ Inside' = Inside
<1>1. Inside' = Inside
  BY DEF Inside, InsideAt
<1> QED BY <1>1 DEF LocksInv, RefCountsInside

\* New threads are not inside, and a new list has nobody inside.
LEMMA LocksInit ==
  ASSUME LocksInv, Types, InOrder, Defined,
         NEW threadAt \in [Threads -> ThreadAt], ThreadsInit(threadAt),
         \A w \in Threads : /\ threadAt[w] = "none" <=> thread[w] = "none"
                            /\ threadAt[w] \in InsideAt <=> thread[w] \in InsideAt
  PROVE  LocksInv'
<1>1. IF oy_job_list_ = Null
      THEN /\ oy_job_list_' # Null /\ ref' = 0
           /\ \A w \in Threads :
                \/ thread'[w] = threadAt[w]
                \/ thread[w] = "none" /\ threadAt[w] = "none" /\ thread'[w] = "loop"
      ELSE thread' = threadAt /\ UNCHANGED <<lists, lock>>
  BY StartThreads
<1>2. \A w \in Threads : thread'[w] \in InsideAt <=> thread[w] \in InsideAt
  BY <1>1 DEF InsideAt
<1>3. Inside' = Inside
  BY <1>2 DEF Inside, InsideAt
<1>4. CASE oy_job_list_ = Null
  BY <1>1, <1>3, <1>4, FS_EmptySet, ThreadsNat DEF LocksInv, RefCountsInside
<1>5. CASE oy_job_list_ # Null
  BY <1>1, <1>3, <1>5 DEF LocksInv, RefCountsInside, lists, lock, locals
<1> QED BY <1>4, <1>5

LEMMA LocksWrong ==
  ASSUME LocksInv, NEW how \in {"undefined", "late"}, Ends(how) PROVE LocksInv'
<1>1. Inside' = {} /\ ~Defined' /\ UNCHANGED <<lists, lock>>
  BY DEF Ends, Inside
<1> QED BY <1>1 DEF LocksInv, RefCountsInside, lock, locals

LEMMA LocksLock ==
  ASSUME LocksInv, Types, Defined, NEW w \in Threads, LockList(w)
  PROVE  LocksInv'
<1>1. /\ thread[w] = "lock" /\ thread'[w] \in InsideAt
      /\ \A v \in Threads : v # w => thread'[v] = thread[v]
      /\ ref' = IF locking THEN ref + 1 ELSE ref
      /\ UNCHANGED <<locking, main>>
      /\ oy_job_list_ # Null /\ oy_job_list_ \in Seq(Jobs)
  BY DEF LockList, Lock, InsideAt, Types
<1>2. Inside' = Inside \cup {w} /\ w \notin Inside
  BY <1>1 DEF Inside, InsideAt
<1>3. Cardinality(Inside') = Cardinality(Inside) + 1 /\ Cardinality(Inside') \in 0 .. MaxThreads
  <2>1. Inside \in SUBSET Threads /\ Inside' \in SUBSET Threads
    BY <1>2, InsideFinite
  <2> QED BY <1>2, <2>1, InsideFinite, FS_AddElement
<1>4. oy_job_list_' \in Seq(Jobs)
  BY <1>1, ShortenedProperties DEF LockList, Shortened
<1>5. oy_job_list_' # Null
  BY <1>4, ResetAssumption
<1> QED BY <1>1, <1>3, <1>5 DEF LocksInv, RefCountsInside

\* Who leaves is counted no longer.
LEMMA LocksLeave ==
  ASSUME LocksInv, Types, Defined, NEW w \in Threads, Leave(w)
  PROVE  /\ LocksInv'
         /\ Inside' = Inside \ {w} /\ Cardinality(Inside') = Cardinality(Inside) - 1
         /\ Cardinality(Inside') \in Nat
<1>1. /\ thread[w] = "held" /\ thread'[w] \notin InsideAt
      /\ \A v \in Threads : v # w => thread'[v] = thread[v]
      /\ ref' = IF locking THEN ref - 1 ELSE ref
      /\ UNCHANGED <<locking, main, lists>>
  BY DEF Leave, UnLock, Goto, InsideAt, Types
<1>2. Inside' = Inside \ {w} /\ w \in Inside
  BY <1>1 DEF Inside, InsideAt
<1>3. /\ Cardinality(Inside') = Cardinality(Inside) - 1
      /\ Cardinality(Inside') \in 0 .. MaxThreads /\ Cardinality(Inside) \in 0 .. MaxThreads
  <2>1. Inside \in SUBSET Threads /\ Inside' \in SUBSET Threads
    BY <1>2, InsideFinite
  <2> QED BY <1>2, <2>1, InsideFinite, FS_RemoveElement
<1>4. oy_job_list_' = Null => Inside' = {}
  BY <1>1, <1>2 DEF LocksInv, lists, locals
<1> QED BY <1>1, <1>2, <1>3, <1>4, ThreadsNat DEF LocksInv, RefCountsInside

LEMMA LocksStep == Control /\ LocksInv /\ [Next]_vars => LocksInv'
<1> SUFFICES ASSUME Control, LocksInv, [Next]_vars PROVE LocksInv'
  OBVIOUS
<1>a. Types /\ InOrder /\ MainInv
  BY DEF Control
<1>b. CASE UNCHANGED vars
  BY <1>b DEF vars, lists, lock, locals, LocksInv, RefCountsInside, Inside
<1>c. CASE Defined /\ Next
  <2>0. Defined /\ Types /\ InOrder /\ MainInv
    BY <1>a, <1>c
  <2>1. ASSUME NEW j \in Jobs, Add(j) PROVE LocksInv'
    <3>1. thread \in [Threads -> ThreadAt]
      BY <2>0 DEF Types
    <3> QED BY <2>0, <2>1, <3>1, LocksInit DEF Add
  <2>2. CASE MoveIn
    <3>1. mjob \in Jobs
      BY <2>0, <2>2 DEF MoveIn, MainInv, Types
    <3>2. oy_job_list_' \in Seq(Jobs)
      BY <2>0, <2>2, <3>1, AppendProperties DEF MoveIn, ListMoveIn, Types
    <3>3. oy_job_list_' # Null
      BY <3>2, ResetAssumption
    <3>4. \A w \in Threads : thread'[w] \in InsideAt <=> thread[w] \in InsideAt
      BY <2>0, <2>2 DEF MoveIn, Waiting, InsideAt, Types
    <3> QED BY <2>0, <2>2, <3>3, <3>4, LocksQuiet DEF MoveIn, lock, locals
  <2>3. CASE MoveInNull
    BY <2>0, <2>3, LocksWrong DEF MoveInNull, GoesWrong
  <2>4. CASE JobResult
    <3>1. oy_job_list_' \in Seq(Jobs)
      BY <2>0, <2>4, ShortenedProperties DEF JobResult, Types, Shortened
    <3>2. oy_job_list_' # Null
      BY <3>1, ResetAssumption
    <3> QED BY <2>0, <2>4, <3>2, LocksQuiet DEF JobResult, lock, locals
  <2>5. CASE Reset
    BY <2>0, <2>5, LocksQuiet DEF Reset, lists, lock, locals
  <2>6. CASE ResetTest \/ ResetFetch \/ ResetSignal \/ ResetSignalled
    <3>1. \A w \in Threads : thread'[w] \in InsideAt <=> thread[w] \in InsideAt
      BY <2>0, <2>6 DEF ResetTest, ResetFetch, ResetSignal, ResetSignalled, Waiting, InsideAt,
         Types
    <3> QED BY <2>0, <2>6, <3>1, LocksQuiet DEF ResetTest, ResetFetch, ResetSignal,
               ResetSignalled, lists, lock
  <2>6a. CASE ResetLate
    BY <2>0, <2>6a, LocksWrong DEF ResetLate
  <2>7. CASE ResetMessages
    BY <2>0, <2>7, LocksQuiet DEF ResetMessages, lists, lock, locals
  <2>8. CASE ResetThreads
    BY <2>0, <2>8, LocksQuiet DEF ResetThreads, lists, lock, locals
  <2>9. CASE ResetLocks
    BY <2>0, <2>9, LocksQuiet DEF ResetLocks, lists, lock, locals
  <2>10. CASE CMMInit
    BY <2>0, <2>10, LocksQuiet DEF CMMInit, lists, lock, locals
  <2>11. ASSUME NEW w \in Threads, Loop(w) PROVE LocksInv'
    <3>1. \A v \in Threads : thread'[v] \in InsideAt <=> thread[v] \in InsideAt
      BY <2>0, <2>11 DEF Loop, Goto, InsideAt, Types
    <3> QED BY <2>0, <2>11, <3>1, LocksQuiet DEF Loop, lists, lock, locals
  <2>12. ASSUME NEW w \in Threads, Enter(w) PROVE LocksInv'
    <3>1. \A v \in Threads : thread'[v] \in InsideAt <=> thread[v] \in InsideAt
      BY <2>0, <2>12 DEF Enter, Goto, InsideAt, Types
    <3> QED BY <2>0, <2>12, <3>1, LocksQuiet DEF Enter, lists, lock, locals
  <2>13. ASSUME NEW w \in Threads, LockList(w) PROVE LocksInv'
    BY <2>0, <2>13, LocksLock
  <2>14. ASSUME NEW w \in Threads, LockWrong(w) PROVE LocksInv'
    BY <2>0, <2>14, LocksWrong DEF LockWrong, GoesWrong
  <2>15. ASSUME NEW w \in Threads, CondWait(w) PROVE LocksInv'
    <3>1. \A v \in Threads : thread'[v] \in InsideAt <=> thread[v] \in InsideAt
      BY <2>0, <2>15 DEF CondWait, Goto, InsideAt, Types
    <3> QED BY <2>0, <2>15, <3>1, LocksQuiet DEF CondWait, lists, lock, locals
  <2>16. ASSUME NEW w \in Threads, Awake(w) PROVE LocksInv'
    <3>1. \A v \in Threads : thread'[v] \in InsideAt <=> thread[v] \in InsideAt
      BY <2>0, <2>16 DEF Awake, Goto, InsideAt, Types
    <3> QED BY <2>0, <2>16, <3>1, LocksQuiet DEF Awake, lists, lock, locals
  <2>17. ASSUME NEW w \in Threads, Leave(w) PROVE LocksInv'
    BY <2>0, <2>17, LocksLeave
  <2>18. ASSUME NEW w \in Threads, Release(w) PROVE LocksInv'
    <3>1. \A v \in Threads : thread'[v] \in InsideAt <=> thread[v] \in InsideAt
      BY <2>0, <2>18 DEF Release, Goto, InsideAt, Types
    <3> QED BY <2>0, <2>18, <3>1, LocksQuiet DEF Release, lists, lock, locals
  <2>19. ASSUME NEW w \in Threads, ReleaseWrong(w) PROVE LocksInv'
    BY <2>0, <2>19, LocksWrong DEF ReleaseWrong, GoesWrong
  <2>20. ASSUME NEW w \in Threads, Break(w) PROVE LocksInv'
    <3>1. \A v \in Threads : thread'[v] \in InsideAt <=> thread[v] \in InsideAt
      BY <2>0, <2>20 DEF Break, Goto, InsideAt, Types
    <3> QED BY <2>0, <2>20, <3>1, LocksQuiet DEF Break, lists, lock, locals
  <2>21. ASSUME NEW w \in Threads, Continue(w) PROVE LocksInv'
    <3>1. \A v \in Threads : thread'[v] \in InsideAt <=> thread[v] \in InsideAt
      BY <2>0, <2>21 DEF Continue, Goto, InsideAt, Types
    <3> QED BY <2>0, <2>21, <3>1, LocksQuiet DEF Continue, lists, lock, locals
  <2>22. ASSUME NEW w \in Threads, Work(w) PROVE LocksInv'
    <3>1. \A v \in Threads : thread'[v] \in InsideAt <=> thread[v] \in InsideAt
      BY <2>0, <2>22 DEF Work, Goto, InsideAt, Types
    <3> QED BY <2>0, <2>22, <3>1, LocksQuiet DEF Work, lists, lock, locals
  <2>23. ASSUME NEW w \in Threads, PostWrong(w) PROVE LocksInv'
    BY <2>0, <2>23, LocksWrong DEF PostWrong, GoesWrong
  <2>24. ASSUME NEW w \in Threads, AddDone(w) PROVE LocksInv'
    <3> DEFINE threadAt == [thread EXCEPT ![w] = "movein"]
    <3>1. /\ thread[w] = "add" /\ ThreadsInit(threadAt) /\ main' = main
          /\ threadAt \in [Threads -> ThreadAt]
          /\ \A v \in Threads : threadAt[v] = IF v = w THEN "movein" ELSE thread[v]
      BY <2>0, <2>24 DEF AddDone, Types, ThreadAt
    <3>2. \A v \in Threads : /\ threadAt[v] = "none" <=> thread[v] = "none"
                             /\ threadAt[v] \in InsideAt <=> thread[v] \in InsideAt
      BY <3>1 DEF InsideAt
    <3> HIDE DEF threadAt
    <3> QED BY <2>0, <3>1, <3>2, LocksInit
  <2>25. ASSUME NEW w \in Threads, MoveInDone(w) PROVE LocksInv'
    <3>1. job[w] \in Jobs
      BY <2>0, <2>25 DEF MoveInDone, Goto, MainInv, JobAt, Types
    <3>2. oy_job_list_' \in Seq(Jobs)
      BY <2>0, <2>25, <3>1, AppendProperties DEF MoveInDone, ListMoveIn, Types
    <3>3. oy_job_list_' # Null
      BY <3>2, ResetAssumption
    <3>4. \A v \in Threads : thread'[v] \in InsideAt <=> thread[v] \in InsideAt
      BY <2>0, <2>25 DEF MoveInDone, Goto, InsideAt, Types
    <3> QED BY <2>0, <2>25, <3>3, <3>4, LocksQuiet DEF MoveInDone, lock, locals
  <2>26. ASSUME NEW w \in Threads, MoveInLost(w) PROVE LocksInv'
    <3>1. \A v \in Threads : thread'[v] \in InsideAt <=> thread[v] \in InsideAt
      BY <2>0, <2>26 DEF MoveInLost, Goto, InsideAt, Types
    <3> QED BY <2>0, <2>26, <3>1, LocksQuiet DEF MoveInLost, lists, lock, locals
  <2>27. ASSUME NEW w \in Threads, SpuriousWakeup(w) PROVE LocksInv'
    <3>1. \A v \in Threads : thread'[v] \in InsideAt <=> thread[v] \in InsideAt
      BY <2>0, <2>27 DEF SpuriousWakeup, Goto, InsideAt, Types
    <3> QED BY <2>0, <2>27, <3>1, LocksQuiet DEF SpuriousWakeup, lists, lock, locals
  <2> QED
    BY <1>c, <2>1, <2>2, <2>3, <2>4, <2>5, <2>6, <2>6a, <2>7, <2>8, <2>9, <2>10, <2>11, <2>12,
       <2>13, <2>14, <2>15, <2>16, <2>17, <2>18, <2>19, <2>20, <2>21, <2>22, <2>23, <2>24,
       <2>25, <2>26, <2>27
    DEF Next, MainNext, ResetOn, WorkerNext
<1> QED BY <1>a, <1>b, <1>c, Dead

-----------------------------------------------------------------------------
(* Before the first reset.                                                   *)

\* As long as nothing was reset the lists and the lock are there from the first
\* use on, and no worker is on its way to release the list.
SoundInv ==
  resets = 0 =>
    /\ trds_reset = 0 /\ main \in {"run", "movein"}
    /\ \A w \in Threads : thread[w] \notin {"release", "undefined"}
    /\ IF oy_job_list_ = Null
       THEN main = "run" /\ \A w \in Threads : thread[w] = "none"
       ELSE locking /\ oy_job_message_list_ /\ oy_threads_

\* A step of the worker w, which uses the lists that are there.
LEMMA SoundQuiet ==
  ASSUME SoundInv, resets = 0, resets' = 0, NEW w \in Threads, thread[w] # "none",
         UNCHANGED <<trds_reset, main, locking, oy_job_message_list_, oy_threads_>>,
         oy_job_list_' # Null, thread'[w] \notin {"release", "undefined"},
         \A v \in Threads : v # w => thread'[v] = thread[v]
  PROVE  SoundInv'
  BY DEF SoundInv

\* What the two calls of oyThreadsInit_() do here.
LEMMA SoundInit ==
  ASSUME SoundInv, Types, InOrder, resets = 0, resets' = 0, UNCHANGED trds_reset,
         main' \in {"run", "movein"},
         NEW threadAt \in [Threads -> ThreadAt], ThreadsInit(threadAt),
         \A w \in Threads : /\ threadAt[w] = "none" <=> thread[w] = "none"
                            /\ threadAt[w] \notin {"release", "undefined"}
  PROVE  SoundInv'
<1>1. /\ oy_job_list_' # Null
      /\ \A w \in Threads : thread'[w] = threadAt[w] \/ thread'[w] = "loop"
      /\ locking' /\ oy_job_message_list_' /\ oy_threads_'
  <2>1. IF oy_job_list_ = Null
        THEN /\ oy_job_list_' # Null
             /\ oy_job_message_list_' = TRUE /\ oy_threads_' = TRUE /\ locking' = TRUE
             /\ \A w \in Threads :
                  \/ thread'[w] = threadAt[w]
                  \/ thread[w] = "none" /\ threadAt[w] = "none" /\ thread'[w] = "loop"
        ELSE thread' = threadAt /\ UNCHANGED <<lists, lock>>
    BY StartThreads
  <2>2. CASE oy_job_list_ = Null
    BY <2>1, <2>2
  <2>3. CASE oy_job_list_ # Null
    BY <2>1, <2>3 DEF SoundInv, lists, lock, locals
  <2> QED BY <2>2, <2>3
<1> QED BY <1>1 DEF SoundInv

LEMMA SoundStep == Control /\ SoundInv /\ [Next]_vars => SoundInv'
<1> SUFFICES ASSUME Control, SoundInv, [Next]_vars PROVE SoundInv'
  OBVIOUS
<1>a. Types /\ InOrder /\ MainInv
  BY DEF Control
<1>b. CASE UNCHANGED vars
  BY <1>b DEF vars, lists, lock, history, locals, SoundInv
<1>c. CASE resets # 0 /\ Next
  <2>1. resets' # 0
    <3>1. CASE MainNext
      BY <1>a, <1>c, <3>1 DEF Types, MainNext, Add, MoveIn, MoveInNull, JobResult, Reset,
         ResetOn, ResetTest, ResetFetch, ResetSignal, ResetSignalled, ResetLate, ResetMessages,
         ResetThreads, ResetLocks, CMMInit, GoesWrong, Ends, history, locals
    <3>2. ASSUME NEW w \in Threads, WorkerNext(w) \/ SpuriousWakeup(w) PROVE resets' # 0
      BY <1>c, <3>2 DEF WorkerNext, SpuriousWakeup, Loop, Enter, LockList, LockWrong, CondWait,
         Awake, Leave, Release, ReleaseWrong, Break, Continue, Work, PostWrong, AddDone,
         MoveInDone, MoveInLost, GoesWrong, Ends, history, locals
    <3> QED BY <1>c, <3>1, <3>2 DEF Next
  <2> QED BY <2>1 DEF SoundInv
<1>d. CASE resets = 0 /\ Next
  <2>0. resets = 0 /\ Defined /\ Types /\ InOrder /\ MainInv
    BY <1>a, <1>d DEF SoundInv
  <2>1. ASSUME NEW j \in Jobs, Add(j) PROVE SoundInv'
    <3>1. /\ thread \in [Threads -> ThreadAt] /\ ThreadsInit(thread)
          /\ \A w \in Threads : thread[w] \notin {"release", "undefined"}
          /\ resets' = 0 /\ trds_reset' = trds_reset /\ main' = "movein"
      BY <2>0, <2>1 DEF Types, SoundInv, Add
    <3> QED BY <2>0, <3>1, SoundInit
  <2>2. CASE MoveIn
    <3>1. mjob \in Jobs
      BY <2>0, <2>2 DEF MoveIn, MainInv, Types
    <3>2. oy_job_list_' \in Seq(Jobs) /\ oy_job_list_ # Null
      BY <2>0, <2>2, <3>1, AppendProperties DEF MoveIn, ListMoveIn, Types
    <3>3. oy_job_list_' # Null
      BY <3>2, ResetAssumption
    <3>4. \A w \in Threads : thread'[w] \notin {"release", "undefined"}
      BY <2>0, <2>2 DEF MoveIn, Waiting, Types, SoundInv
    <3> QED BY <2>0, <2>2, <3>2, <3>3, <3>4 DEF MoveIn, ListMoveIn, lock, history, locals,
       SoundInv
  <2>3. CASE MoveInNull
    BY <2>0, <2>3 DEF MoveInNull, SoundInv
  <2>4. CASE JobResult
    <3>1. oy_job_list_' \in Seq(Jobs) /\ oy_job_list_ # Null
      BY <2>0, <2>4, ShortenedProperties DEF JobResult, Types, Shortened
    <3>2. oy_job_list_' # Null
      BY <3>1, ResetAssumption
    <3> QED BY <2>0, <2>4, <3>1, <3>2 DEF JobResult, lock, history, locals, SoundInv
  <2>5. CASE Reset
    BY <2>0, <2>5 DEF Reset, SoundInv, Types
  <2>6. CASE ResetOn \/ CMMInit
    BY <2>0, <2>6 DEF ResetOn, ResetTest, ResetFetch, ResetSignal, ResetSignalled, ResetLate,
       ResetMessages, ResetThreads, ResetLocks, CMMInit, SoundInv
  <2>7. ASSUME NEW w \in Threads, Loop(w) PROVE SoundInv'
    <3>1. /\ thread[w] # "none" /\ thread'[w] \notin {"release", "undefined"}
          /\ \A v \in Threads : v # w => thread'[v] = thread[v]
      BY <2>0, <2>7 DEF Loop, Goto, Types, SoundInv
    <3>2. oy_job_list_ # Null
      BY <2>0, <3>1 DEF SoundInv
    <3> QED BY <2>0, <2>7, <3>1, <3>2, SoundQuiet DEF Loop, lists, lock, history, locals
  <2>8. ASSUME NEW w \in Threads, Enter(w) PROVE SoundInv'
    <3>1. /\ thread[w] # "none" /\ thread'[w] \notin {"release", "undefined"}
          /\ \A v \in Threads : v # w => thread'[v] = thread[v]
      BY <2>0, <2>8 DEF Enter, Goto, Types, SoundInv
    <3>2. oy_job_list_ # Null
      BY <2>0, <3>1 DEF SoundInv
    <3> QED BY <2>0, <2>8, <3>1, <3>2, SoundQuiet DEF Enter, lists, lock, history, locals
  <2>9. ASSUME NEW w \in Threads, LockList(w) PROVE SoundInv'
    <3>1. /\ thread[w] # "none" /\ thread'[w] \notin {"release", "undefined"}
          /\ \A v \in Threads : v # w => thread'[v] = thread[v]
          /\ oy_job_list_ # Null /\ oy_job_list_ \in Seq(Jobs)
      BY <2>0, <2>9 DEF LockList, Types, SoundInv
    <3>2. oy_job_list_' \in Seq(Jobs)
      BY <2>9, <3>1, ShortenedProperties DEF LockList, Shortened
    <3>3. oy_job_list_' # Null
      BY <3>2, ResetAssumption
    <3> QED BY <2>0, <2>9, <3>1, <3>3, SoundQuiet DEF LockList, Lock, history, locals
  <2>10. ASSUME NEW w \in Threads, LockWrong(w) PROVE SoundInv'
    BY <2>0, <2>10 DEF LockWrong, SoundInv
  <2>11. ASSUME NEW w \in Threads, CondWait(w) PROVE SoundInv'
    <3>1. /\ thread[w] # "none" /\ thread'[w] \notin {"release", "undefined"}
          /\ \A v \in Threads : v # w => thread'[v] = thread[v]
      BY <2>0, <2>11 DEF CondWait, Goto, Types, SoundInv
    <3>2. oy_job_list_ # Null
      BY <2>0, <3>1 DEF SoundInv
    <3> QED BY <2>0, <2>11, <3>1, <3>2, SoundQuiet DEF CondWait, lists, lock, history, locals
  <2>12. ASSUME NEW w \in Threads, Awake(w) PROVE SoundInv'
    <3>1. /\ thread[w] # "none" /\ thread'[w] \notin {"release", "undefined"}
          /\ \A v \in Threads : v # w => thread'[v] = thread[v]
      BY <2>0, <2>12 DEF Awake, Goto, Types, SoundInv
    <3>2. oy_job_list_ # Null
      BY <2>0, <3>1 DEF SoundInv
    <3> QED BY <2>0, <2>12, <3>1, <3>2, SoundQuiet DEF Awake, lists, lock, history, locals
  <2>13. ASSUME NEW w \in Threads, Leave(w) PROVE SoundInv'
    <3>1. /\ thread[w] # "none" /\ thread'[w] \notin {"release", "undefined"}
          /\ \A v \in Threads : v # w => thread'[v] = thread[v]
      BY <2>0, <2>13 DEF Leave, Goto, Types, SoundInv
    <3>2. oy_job_list_ # Null
      BY <2>0, <3>1 DEF SoundInv
    <3> QED BY <2>0, <2>13, <3>1, <3>2, SoundQuiet DEF Leave, UnLock, lists, history, locals
  <2>14. ASSUME NEW w \in Threads, Release(w) \/ ReleaseWrong(w) PROVE SoundInv'
    BY <2>0, <2>14 DEF Release, ReleaseWrong, Goto, SoundInv
  <2>15. ASSUME NEW w \in Threads, Break(w) PROVE SoundInv'
    <3>1. /\ thread[w] # "none" /\ thread'[w] \notin {"release", "undefined"}
          /\ \A v \in Threads : v # w => thread'[v] = thread[v]
      BY <2>0, <2>15 DEF Break, Goto, Types, SoundInv
    <3>2. oy_job_list_ # Null
      BY <2>0, <3>1 DEF SoundInv
    <3> QED BY <2>0, <2>15, <3>1, <3>2, SoundQuiet DEF Break, lists, lock, history, locals
  <2>16. ASSUME NEW w \in Threads, Continue(w) PROVE SoundInv'
    <3>1. /\ thread[w] # "none" /\ thread'[w] \notin {"release", "undefined"}
          /\ \A v \in Threads : v # w => thread'[v] = thread[v]
      BY <2>0, <2>16 DEF Continue, Goto, Types, SoundInv
    <3>2. oy_job_list_ # Null
      BY <2>0, <3>1 DEF SoundInv
    <3> QED BY <2>0, <2>16, <3>1, <3>2, SoundQuiet DEF Continue, lists, lock, history, locals
  <2>17. ASSUME NEW w \in Threads, Work(w) PROVE SoundInv'
    <3>1. /\ thread[w] # "none" /\ thread'[w] \notin {"release", "undefined"}
          /\ \A v \in Threads : v # w => thread'[v] = thread[v]
      BY <2>0, <2>17 DEF Work, Goto, Types, SoundInv
    <3>2. oy_job_list_ # Null
      BY <2>0, <3>1 DEF SoundInv
    <3> QED BY <2>0, <2>17, <3>1, <3>2, SoundQuiet DEF Work, lists, lock, history, locals
  <2>18. ASSUME NEW w \in Threads, PostWrong(w) PROVE SoundInv'
    BY <2>0, <2>18 DEF PostWrong, CanPost, SoundInv
  <2>19. ASSUME NEW w \in Threads, AddDone(w) PROVE SoundInv'
    <3> DEFINE threadAt == [thread EXCEPT ![w] = "movein"]
    <3>1. /\ thread[w] = "add" /\ ThreadsInit(threadAt)
          /\ threadAt \in [Threads -> ThreadAt]
          /\ \A v \in Threads : threadAt[v] = IF v = w THEN "movein" ELSE thread[v]
          /\ resets' = 0 /\ trds_reset' = trds_reset /\ main' \in {"run", "movein"}
      BY <2>0, <2>19 DEF AddDone, Types, ThreadAt, history, locals, SoundInv
    <3>2. \A v \in Threads : /\ threadAt[v] = "none" <=> thread[v] = "none"
                             /\ threadAt[v] \notin {"release", "undefined"}
      BY <2>0, <3>1 DEF SoundInv
    <3> HIDE DEF threadAt
    <3> QED BY <2>0, <3>1, <3>2, SoundInit
  <2>20. ASSUME NEW w \in Threads, MoveInDone(w) PROVE SoundInv'
    <3>1. /\ job[w] \in Jobs /\ thread[w] # "none"
          /\ thread'[w] \notin {"release", "undefined"}
          /\ \A v \in Threads : v # w => thread'[v] = thread[v]
      BY <2>0, <2>20 DEF MoveInDone, Goto, MainInv, JobAt, Types, SoundInv
    <3>2. oy_job_list_' \in Seq(Jobs)
      BY <2>0, <2>20, <3>1, AppendProperties DEF MoveInDone, ListMoveIn, Types
    <3>3. oy_job_list_' # Null
      BY <3>2, ResetAssumption
    <3> QED BY <2>0, <2>20, <3>1, <3>3, SoundQuiet DEF MoveInDone, ListMoveIn, lock, history,
       locals
  <2>21. ASSUME NEW w \in Threads, MoveInLost(w) PROVE SoundInv'
    <3>1. /\ thread[w] # "none" /\ thread'[w] \notin {"release", "undefined"}
          /\ \A v \in Threads : v # w => thread'[v] = thread[v]
      BY <2>0, <2>21 DEF MoveInLost, Goto, Types, SoundInv
    <3>2. oy_job_list_ # Null
      BY <2>0, <3>1 DEF SoundInv
    <3> QED BY <2>0, <2>21, <3>1, <3>2, SoundQuiet DEF MoveInLost, lists, lock, history, locals
  <2>22. ASSUME NEW w \in Threads, SpuriousWakeup(w) PROVE SoundInv'
    <3>1. /\ thread[w] # "none" /\ thread'[w] \notin {"release", "undefined"}
          /\ \A v \in Threads : v # w => thread'[v] = thread[v]
      BY <2>0, <2>22 DEF SpuriousWakeup, Goto, Types, SoundInv
    <3>2. oy_job_list_ # Null
      BY <2>0, <3>1 DEF SoundInv
    <3> QED BY <2>0, <2>22, <3>1, <3>2, SoundQuiet DEF SpuriousWakeup, lists, lock, history,
       locals
  <2> QED
    BY <1>d, <2>1, <2>2, <2>3, <2>4, <2>5, <2>6, <2>7, <2>8, <2>9, <2>10, <2>11, <2>12,
       <2>13, <2>14, <2>15, <2>16, <2>17, <2>18, <2>19, <2>20, <2>21, <2>22
    DEF Next, MainNext, ResetOn, WorkerNext
<1> QED BY <1>b, <1>c, <1>d

-----------------------------------------------------------------------------
(* A reset of waiting workers.                                               *)

QuietAt == {"none", "exit", "wait", "woken", "held", "release", "check", "loop"}

Releasing == {w \in Threads : thread[w] = "release"}

\* In a reset that began with waiting workers only, nobody has a job or comes to
\* the lock again.
NobodyComes ==
  quiet /\ trds_reset = 1 /\ Defined =>
    \A w \in Threads : job[w] = NoJob /\ thread[w] \in QuietAt

\* trdsCMMReset() before the sleep.
Signalling == main \in {"test", "fetch", "signal"}

\* One who waits gets a signal, and the last one inside releases the list.
AllLeave == /\ Releasing # {} => Inside = {}
            /\ Inside = {} /\ Releasing = {} => oy_job_list_ = Null
            /\ IF Signalling THEN Cardinality(Waiting) <= signals ELSE Waiting = {}

\* With a working lock there is a thread list up to its release, enough signals
\* for those who wait, and one who releases the list after all have left the lock.
LastOneReleases ==
  /\ Defined /\ locking /\ ~oy_threads_ => main = "locks"
  /\ quiet /\ trds_reset = 1 /\ locking => main # "undefined" /\ (Defined => AllLeave)

LEMMA QuietStart ==
  ASSUME Control, Reset, quiet'
  PROVE  /\ \A w \in Threads : thread[w] \in {"none", "exit", "wait"} /\ job[w] = NoJob
         /\ thread' = thread /\ job' = job /\ main' = "test"
         /\ Waiting # {} /\ Cardinality(Waiting) <= NBase + 1
<1>1. /\ Waiting # {} /\ Alive = Waiting /\ Cardinality(Waiting) <= NBase + 1
      /\ thread' = thread /\ job' = job /\ main' = "test" /\ main = "run"
  BY DEF Reset
<1>2. ASSUME NEW w \in Threads PROVE thread[w] \in {"none", "exit", "wait"} /\ job[w] = NoJob
  <2>1. w \in Alive <=> w \in Waiting
    BY <1>1
  <2>2. thread[w] \in {"none", "exit", "wait"}
    BY <2>1 DEF Alive, Waiting
  <2>3. JobAt(w)
    BY <1>1 DEF Control, MainInv
  <2> QED BY <2>2, <2>3 DEF JobAt
<1> QED BY <1>1, <1>2

LEMMA NobodyComesStep == Control /\ NobodyComes /\ [Next]_vars => NobodyComes'
<1> SUFFICES ASSUME Control, NobodyComes, [Next]_vars,
                    quiet', trds_reset' = 1, Defined'
             PROVE  \A v \in Threads : job'[v] = NoJob /\ thread'[v] \in QuietAt
  BY DEF NobodyComes
<1> DEFINE Good == \A v \in Threads : job'[v] = NoJob /\ thread'[v] \in QuietAt
<1>0. Types /\ MainInv
  BY DEF Control
<1>1. CASE UNCHANGED vars
  BY <1>1 DEF vars, history, locals, NobodyComes
<1>2. ASSUME Next PROVE Good
  <2>0. Defined
    BY <1>0, <1>2, Dead
  <2>1. CASE Reset
    BY <2>1, QuietStart DEF QuietAt
  <2>2. CASE ResetTest \/ ResetFetch \/ ResetSignal \/ ResetSignalled
    <3>1. /\ \A v \in Threads : job[v] = NoJob /\ thread[v] \in QuietAt
          /\ job' = job
      BY <2>0, <2>2 DEF ResetTest, ResetFetch, ResetSignal, ResetSignalled, history, NobodyComes
    <3>2. \A v \in Threads : thread'[v] = thread[v] \/ thread'[v] = "woken"
      BY <1>0, <2>2 DEF ResetTest, ResetFetch, ResetSignal, ResetSignalled, Waiting, Types
    <3> QED BY <3>1, <3>2 DEF QuietAt
  <2>2a. CASE ResetLate
    BY <2>2a DEF ResetLate, Ends
  <2>3. CASE ResetMessages \/ ResetThreads \/ ResetLocks
    BY <2>0, <2>3 DEF ResetMessages, ResetThreads, ResetLocks, history, locals, NobodyComes
  <2>4. CASE (\E j \in Jobs : Add(j)) \/ MoveIn \/ MoveInNull \/ JobResult \/ CMMInit
    <3>1. trds_reset' = 0
      BY <1>0, <2>0, <2>4 DEF Add, MoveIn, MoveInNull, JobResult, CMMInit, GoesWrong, Ends,
         MainInv
    <3> QED BY <3>1
  <2>5. ASSUME NEW w \in Threads, WorkerNext(w) \/ SpuriousWakeup(w) PROVE Good
    <3>1. /\ quiet /\ trds_reset = 1
      BY <2>5 DEF WorkerNext, SpuriousWakeup, Loop, Enter, LockList, LockWrong, CondWait,
         Awake, Leave, Release, ReleaseWrong, Break, Continue, Work, PostWrong, AddDone,
         MoveInDone, MoveInLost, GoesWrong, Ends, history, locals
    <3>2. \A v \in Threads : job[v] = NoJob /\ thread[v] \in QuietAt
      BY <2>0, <3>1 DEF NobodyComes
    <3>3. CASE Loop(w) \/ Awake(w) \/ Leave(w) \/ Release(w) \/ Continue(w) \/ SpuriousWakeup(w)
      <4>1. job' = job /\ thread'[w] \in QuietAt
        BY <1>0, <3>1, <3>2, <3>3 DEF Loop, Awake, Leave, Release, Continue, SpuriousWakeup,
           Goto, QuietAt, Types
      <4>2. \A v \in Threads : v # w => thread'[v] = thread[v]
        BY <1>0, <3>3 DEF Loop, Awake, Leave, Release, Continue, SpuriousWakeup, Goto, Types
      <4> QED BY <3>2, <4>1, <4>2
    <3>4. CASE Break(w)
      <4>1. thread' = [thread EXCEPT ![w] = "exit"] /\ job' = [job EXCEPT ![w] = NoJob]
        BY <3>4 DEF Break, Goto
      <4> QED BY <1>0, <3>2, <4>1 DEF Types, QuietAt
    <3>5. CASE LockWrong(w) \/ ReleaseWrong(w) \/ PostWrong(w)
      BY <3>5 DEF LockWrong, ReleaseWrong, PostWrong, GoesWrong, Ends
    <3>6. CASE \/ Enter(w) \/ LockList(w) \/ CondWait(w) \/ Work(w) \/ AddDone(w)
               \/ MoveInDone(w) \/ MoveInLost(w)
      BY <3>2, <3>6 DEF Enter, LockList, CondWait, Work, AddDone, MoveInDone, MoveInLost,
         Goto, QuietAt
    <3> QED BY <2>5, <3>3, <3>4, <3>5, <3>6 DEF WorkerNext
  <2> QED BY <1>2, <2>1, <2>2, <2>2a, <2>3, <2>4, <2>5 DEF Next, MainNext, ResetOn
<1> QED BY <1>1, <1>2

\* The thread list is there from the start of the threads up to its release, with
\* which the lock goes, too.
LEMMA ThreadListStep ==
  ASSUME Control, LastOneReleases, Next, Defined', locking', ~oy_threads_'
  PROVE  main' = "locks"
<1>0. Types /\ InOrder /\ MainInv /\ Defined
  BY Dead DEF Control
<1>1. CASE \E j \in Jobs : Add(j)
  BY <1>0, <1>1 DEF Add, ThreadsInit, lists, lock, locals, LastOneReleases
<1>2. CASE MoveIn \/ MoveInNull \/ JobResult \/ CMMInit
  BY <1>0, <1>2 DEF MoveIn, MoveInNull, JobResult, CMMInit, GoesWrong, Ends, ListMoveIn, lists,
     lock, locals,
     LastOneReleases
<1>3. CASE Reset \/ ResetOn
  BY <1>0, <1>3 DEF Reset, ResetOn, ResetTest, ResetFetch, ResetSignal, ResetSignalled,
     ResetLate, Ends, ResetMessages, ResetThreads, ResetLocks, lists, lock, LastOneReleases
<1>4. ASSUME NEW w \in Threads, WorkerNext(w) \/ SpuriousWakeup(w) PROVE main' = "locks"
  <2>1. CASE AddDone(w)
    BY <1>0, <2>1 DEF AddDone, ThreadsInit, lists, lock, locals, LastOneReleases
  <2>2. CASE ~AddDone(w)
    BY <1>0, <1>4, <2>2 DEF WorkerNext, SpuriousWakeup, Loop, Enter, LockList, LockWrong, Lock,
       CondWait, Awake, Leave, UnLock, Release, ReleaseWrong, Break, Continue, Work, PostWrong,
       MoveInDone, ListMoveIn, MoveInLost, GoesWrong, Ends, lists, lock, locals, LastOneReleases
  <2> QED BY <2>1, <2>2
<1> QED BY <1>1, <1>2, <1>3, <1>4 DEF Next, MainNext

\* A step that nobody inside takes, and that keeps the list or loses it.
LEMMA LastOneQuiet ==
  ASSUME Types, AllLeave, main' = main, signals' = signals,
         Inside' = Inside, Releasing' \subseteq Releasing, Waiting' \subseteq Waiting,
         oy_job_list_' = Null \/ (oy_job_list_' = oy_job_list_ /\ Releasing' = Releasing)
  PROVE  AllLeave'
<1>1. CASE Signalling
  <2>1. Cardinality(Waiting) <= signals /\ signals \in Int
    BY <1>1 DEF AllLeave, Types
  <2>2. Cardinality(Waiting') <= Cardinality(Waiting) /\ Cardinality(Waiting') \in Nat
        /\ Cardinality(Waiting) \in Nat
    <3>1. Waiting \in SUBSET Threads /\ Waiting' \in SUBSET Threads
      BY InsideFinite
    <3>2. IsFiniteSet(Waiting) /\ Cardinality(Waiting) \in Nat /\ Cardinality(Waiting') \in Nat
      BY <3>1, InsideFinite
    <3> QED BY <3>2, FS_Subset
  <2>3. Cardinality(Waiting') <= signals'
    BY <2>1, <2>2
  <2> QED BY <1>1, <2>3 DEF AllLeave, Signalling
<1>2. CASE ~Signalling
  BY <1>2 DEF AllLeave, Signalling
<1> QED BY <1>1, <1>2

\* A signal wakes one of those who wait, so that the rest has enough of them.
LEMMA OneWoken ==
  ASSUME Types, AllLeave, ResetSignal
  PROVE  AllLeave'
<1>1. /\ main = "signal" /\ main' = main /\ signals \in Nat /\ signals > 0
      /\ signals' = signals - 1 /\ oy_job_list_' = oy_job_list_
      /\ Cardinality(Waiting) <= signals
  BY DEF ResetSignal, Types, lists, AllLeave, Signalling
<1>2. IsFiniteSet(Waiting) /\ Cardinality(Waiting) \in Nat
  BY InsideFinite
<1>3. Inside' = Inside /\ Releasing' = Releasing
  <2>1. \A w \in Threads : \/ thread'[w] = thread[w]
                           \/ thread[w] = "wait" /\ thread'[w] = "woken"
    BY DEF ResetSignal, Types, Waiting
  <2> QED BY <2>1 DEF Inside, Releasing
<1>4. Cardinality(Waiting') <= signals'
  <2>1. CASE Waiting = {}
    <3>1. Waiting' = {}
      BY <2>1 DEF ResetSignal, Waiting
    <3> QED BY <1>1, <3>1, FS_EmptySet
  <2>2. CASE Waiting # {}
    <3>1. PICK w \in Waiting : thread' = [thread EXCEPT ![w] = "woken"]
      BY <2>2 DEF ResetSignal
    <3>2. Waiting' = Waiting \ {w}
      BY <3>1 DEF Waiting, Types
    <3>3. Cardinality(Waiting') = Cardinality(Waiting) - 1
      BY <1>2, <3>1, <3>2, FS_RemoveElement
    <3> QED BY <1>1, <1>2, <3>3
  <2> QED BY <2>1, <2>2
<1> QED BY <1>1, <1>3, <1>4 DEF AllLeave, Signalling

\* The reset goes on, and no thread with it.
LEMMA ResetAlone ==
  ASSUME Types, LocksInv, AllLeave, ResetTest \/ ResetFetch \/ ResetSignalled
  PROVE  AllLeave'
<1>1. thread' = thread /\ oy_job_list_' = oy_job_list_
  BY DEF ResetTest, ResetFetch, ResetSignalled, lists
<1>2. Inside' = Inside /\ Releasing' = Releasing /\ Waiting' = Waiting
  BY <1>1 DEF Inside, Releasing, Waiting
<1>3. Cardinality(Waiting) <= signals
  BY DEF ResetTest, ResetFetch, ResetSignalled, AllLeave, Signalling
<1>4. CASE Signalling'
  <2>1. signals' = signals
    BY <1>4 DEF ResetTest, ResetFetch, ResetSignalled, Signalling
  <2> QED BY <1>1, <1>2, <1>3, <1>4, <2>1 DEF AllLeave
<1>5. CASE ~Signalling'
  <2>1. Waiting = {}
    <3>1. CASE ResetTest
      <4>1. oy_job_list_ = Null
        BY <1>5, <3>1 DEF ResetTest, Signalling
      <4> QED BY <4>1 DEF LocksInv, Inside, Waiting
    <3>2. CASE ResetSignalled
      <4>1. Cardinality(Waiting) <= 0
        BY <1>3, <3>2 DEF ResetSignalled
      <4>2. IsFiniteSet(Waiting) /\ Cardinality(Waiting) \in Nat
        BY InsideFinite
      <4>3. Cardinality(Waiting) = 0
        BY <4>1, <4>2
      <4> QED BY <4>2, <4>3, FS_EmptySet
    <3> QED BY <1>5, <3>1, <3>2 DEF ResetFetch, Signalling
  <2> QED BY <1>1, <1>2, <1>5, <2>1 DEF AllLeave
<1> QED BY <1>4, <1>5

\* The last one to leave goes on to release the list.
LEMMA LastOneLeaves ==
  ASSUME Types, LocksInv, Defined, AllLeave, trds_reset = 1, locking,
         NEW w \in Threads, Leave(w)
  PROVE  AllLeave'
<1>1. /\ thread[w] = "held" /\ main' = main /\ signals' = signals
      /\ thread'[w] = IF ref = 1 THEN "release" ELSE "check"
      /\ \A v \in Threads : v # w => thread'[v] = thread[v]
  BY DEF Leave, Goto, Types, locals
<1>2. w \in Inside /\ Releasing = {} /\ Waiting' = Waiting
  <2>1. w \in Inside
    BY <1>1 DEF Inside
  <2>2. Waiting' = Waiting
    BY <1>1 DEF Waiting
  <2> QED BY <2>1, <2>2 DEF AllLeave
<1>3. /\ Cardinality(Inside') = Cardinality(Inside) - 1 /\ Cardinality(Inside') \in Nat
      /\ ref = Cardinality(Inside)
  BY <1>1, LocksLeave DEF LocksInv, RefCountsInside
<1>4. IsFiniteSet(Inside') /\ (Cardinality(Inside') = 0 <=> Inside' = {})
  <2>1. Inside' \in SUBSET Threads
    BY DEF Inside
  <2>2. IsFiniteSet(Inside')
    BY <2>1, InsideFinite
  <2> QED BY <2>2, FS_EmptySet
<1>5. ref = 1 <=> Inside' = {}
  BY <1>3, <1>4, InsideFinite
<1>6. CASE ref = 1
  <2>1. w \in Releasing'
    BY <1>1, <1>6 DEF Releasing
  <2> QED BY <1>1, <1>2, <1>5, <1>6, <2>1 DEF AllLeave, Signalling
<1>7. CASE ref # 1
  <2>1. Releasing' = Releasing
    BY <1>1, <1>7 DEF Releasing
  <2> QED BY <1>1, <1>2, <1>5, <1>7, <2>1 DEF AllLeave, Signalling
<1> QED BY <1>6, <1>7

LEMMA LastOneStep ==
  Control /\ LocksInv /\ NobodyComes /\ LastOneReleases /\ [Next]_vars => LastOneReleases'
<1> SUFFICES ASSUME Control, LocksInv, NobodyComes, LastOneReleases, [Next]_vars
             PROVE  LastOneReleases'
  OBVIOUS
<1>0. Types /\ InOrder /\ MainInv
  BY DEF Control
<1>1. CASE UNCHANGED vars
  BY <1>1 DEF vars, lists, lock, history, locals, LastOneReleases, AllLeave,
     Signalling, Releasing, Inside, Waiting
<1>2. ASSUME Next PROVE LastOneReleases'
  <2>0. Defined
    BY <1>0, <1>2, Dead
  <2> SUFFICES ASSUME quiet', trds_reset' = 1, locking'
               PROVE  main' # "undefined" /\ (Defined' => AllLeave')
    BY <1>2, ThreadListStep DEF LastOneReleases
  <2> DEFINE Good == main' # "undefined" /\ (Defined' => AllLeave')
  <2>1. CASE Reset
    <3>1. /\ Waiting' = Waiting /\ Inside' = Inside /\ Releasing' = {}
          /\ Inside # {} /\ Cardinality(Waiting) <= NBase + 1 /\ main' = "test"
      BY <2>1, QuietStart DEF Waiting, Inside, Releasing
    <3>2. oy_threads_ /\ signals' = NBase + 1
      BY <1>0, <2>0, <2>1 DEF Reset, lock, LastOneReleases
    <3> QED BY <3>1, <3>2 DEF AllLeave, Signalling
  <2>2. CASE ResetTest \/ ResetFetch \/ ResetSignal \/ ResetSignalled
    <3>1. quiet /\ trds_reset = 1 /\ locking /\ main' # "undefined"
      BY <2>0, <2>2 DEF ResetTest, ResetFetch, ResetSignal, ResetSignalled, lock, history
    <3>2. AllLeave
      BY <2>0, <3>1 DEF LastOneReleases
    <3>3. AllLeave'
      BY <1>0, <2>2, <3>2, OneWoken, ResetAlone
    <3> QED BY <3>1, <3>3
  <2>2a. CASE ResetLate
    BY <2>2a DEF ResetLate, Ends
  <2>3. CASE ResetMessages \/ ResetThreads
    <3>1. /\ quiet /\ trds_reset = 1 /\ locking /\ oy_job_list_' = oy_job_list_
          /\ main \in {"messages", "threads"} /\ main' \in {"threads", "locks"}
          /\ thread' = thread
      BY <2>3 DEF ResetMessages, ResetThreads, lock, history, locals
    <3>2. Waiting' = Waiting /\ Inside' = Inside /\ Releasing' = Releasing
      BY <3>1 DEF Waiting, Inside, Releasing
    <3> QED BY <2>0, <3>1, <3>2 DEF LastOneReleases, AllLeave, Signalling
  <2>4. CASE ResetLocks
    BY <2>4 DEF ResetLocks
  <2>5. CASE (\E j \in Jobs : Add(j)) \/ MoveIn \/ MoveInNull \/ JobResult \/ CMMInit
    <3>1. trds_reset' = 0
      BY <1>0, <2>0, <2>5 DEF Add, MoveIn, MoveInNull, JobResult, CMMInit, GoesWrong, Ends,
         MainInv
    <3> QED BY <3>1
  <2>6. ASSUME NEW w \in Threads, WorkerNext(w) \/ SpuriousWakeup(w) PROVE Good
    <3>1. quiet /\ trds_reset = 1
      BY <2>6 DEF WorkerNext, SpuriousWakeup, Loop, Enter, LockList, LockWrong, CondWait,
         Awake, Leave, Release, ReleaseWrong, Break, Continue, Work, PostWrong, AddDone,
         MoveInDone, MoveInLost, GoesWrong, Ends, history, locals
    <3>2. job[w] = NoJob /\ thread[w] \in QuietAt
      BY <2>0, <3>1 DEF NobodyComes
    <3>2a. locking => AllLeave
      BY <2>0, <3>1 DEF LastOneReleases
    <3>3. CASE Loop(w) \/ Awake(w) \/ Break(w) \/ Continue(w) \/ SpuriousWakeup(w)
      <4>1. /\ locking /\ main' = main /\ signals' = signals /\ oy_job_list_' = oy_job_list_
            /\ \A v \in Threads : v # w => thread'[v] = thread[v]
        BY <1>0, <3>3 DEF Loop, Awake, Break, Continue, SpuriousWakeup, Goto, lists, lock,
           locals, Types
      <4>2. \/ thread[w] = "loop" /\ thread'[w] = "exit"
            \/ thread[w] = "woken" /\ thread'[w] = "held"
            \/ thread[w] = "check" /\ thread'[w] \in {"exit", "loop"}
            \/ thread[w] = "wait" /\ thread'[w] = "woken"
        BY <1>0, <3>1, <3>2, <3>3 DEF Loop, Awake, Break, Continue, SpuriousWakeup, Goto, Types
      <4>3. Inside' = Inside
        BY <4>1, <4>2 DEF Inside
      <4>4. Releasing' = Releasing
        BY <4>1, <4>2 DEF Releasing
      <4>5. Waiting' \subseteq Waiting
        BY <4>1, <4>2 DEF Waiting
      <4> QED BY <1>0, <2>0, <3>2a, <4>1, <4>3, <4>4, <4>5, LastOneQuiet
    <3>4. CASE Leave(w)
      <4>1. locking /\ main' = main
        BY <3>4 DEF Leave, UnLock
      <4> QED BY <1>0, <2>0, <3>1, <3>2a, <3>4, <4>1, LastOneLeaves
    <3>5. CASE Release(w)
      <4>1. /\ locking /\ main' = main /\ signals' = signals /\ oy_job_list_' = Null
            /\ thread[w] = "release" /\ thread'[w] = "check"
            /\ \A v \in Threads : v # w => thread'[v] = thread[v]
        BY <1>0, <3>5 DEF Release, Goto, lock, locals, Types
      <4>2. Inside' = Inside
        BY <4>1 DEF Inside
      <4>3. Releasing' \subseteq Releasing
        BY <4>1 DEF Releasing
      <4>4. Waiting' \subseteq Waiting
        BY <4>1 DEF Waiting
      <4> QED BY <1>0, <2>0, <3>2a, <4>1, <4>2, <4>3, <4>4, LastOneQuiet
    <3>6. CASE ReleaseWrong(w)
      <4>1. locking /\ w \in Releasing /\ Inside # {}
        BY <3>6 DEF ReleaseWrong, GoesWrong, Ends, lock, locals, Releasing
      <4> QED BY <3>2a, <4>1 DEF AllLeave
    <3>7. CASE PostWrong(w)
      BY <3>2, <3>7, ResetAssumption DEF PostWrong, CanPost, QuietAt
    <3>8. CASE \/ Enter(w) \/ LockList(w) \/ LockWrong(w) \/ CondWait(w) \/ Work(w) \/ AddDone(w)
               \/ MoveInDone(w) \/ MoveInLost(w)
      BY <3>2, <3>8 DEF Enter, LockList, LockWrong, CondWait, Work, AddDone, MoveInDone,
         MoveInLost,
         Goto, QuietAt
    <3> QED BY <2>6, <3>3, <3>4, <3>5, <3>6, <3>7, <3>8 DEF WorkerNext
  <2> QED BY <1>2, <2>1, <2>2, <2>2a, <2>3, <2>4, <2>5, <2>6 DEF Next, MainNext, ResetOn
<1> QED BY <1>1, <1>2

-----------------------------------------------------------------------------
(* The places of a job.                                                      *)

\* The entry i of the list is in no other place, and was worked on if it is done.
Entry(i) ==
  LET j == oy_job_list_[i] IN
  /\ \A k \in 1 .. Len(oy_job_list_) : oy_job_list_[k] = j => k = i
  /\ \A w \in Threads : job[w] # j
  /\ j # mjob /\ added[j] # 0
  /\ status_done_[j] = 0 => works[j] = 0

\* The job of the worker w is nobody else's, and is worked on once.
Holds(w) ==
  /\ \A v \in Threads : job[v] = job[w] => v = w
  /\ job[w] # mjob /\ added[job[w]] # 0
  /\ works[job[w]] = IF thread[w] \in {"add", "movein"} THEN 1 ELSE 0
  /\ thread[w] = "movein" => status_done_[job[w]] = 1

OnceInv ==
  /\ oy_job_list_ # Null => \A i \in 1 .. Len(oy_job_list_) : Entry(i)
  /\ Defined => \A w \in Threads : job[w] # NoJob => Holds(w)
  /\ mjob # NoJob => works[mjob] = 0 /\ added[mjob] # 0
  /\ \A j \in Jobs : works[j] <= 1 /\ (added[j] = 0 => works[j] = 0)

\* A step that leaves the jobs where they are, or loses some of them.
LEMMA OnceQuiet ==
  ASSUME OnceInv, Defined, UNCHANGED <<status_done_, added, works>>,
         mjob' \in {mjob, NoJob},
         \A w \in Threads :
           job'[w] # NoJob =>
             /\ job'[w] = job[w]
             /\ thread'[w] \in {"add", "movein"} <=> thread[w] \in {"add", "movein"}
             /\ thread'[w] = "movein" => thread[w] = "movein",
         \A w \in Threads : job'[w] = NoJob \/ job'[w] = job[w],
         oy_job_list_ # Null => NoJob \notin {oy_job_list_[i] : i \in 1 .. Len(oy_job_list_)},
         \/ oy_job_list_' = oy_job_list_
         \/ oy_job_list_' = Null \/ oy_job_list_' = << >>
         \/ /\ oy_job_list_ # Null /\ Len(oy_job_list_') \in Nat
            /\ Len(oy_job_list_) = Len(oy_job_list_') + 1
            /\ \A i \in 1 .. Len(oy_job_list_') : oy_job_list_'[i] = oy_job_list_[i]
  PROVE  OnceInv'
<1>1. oy_job_list_' # Null => \A i \in 1 .. Len(oy_job_list_') : Entry(i)'
  <2> SUFFICES ASSUME oy_job_list_' # Null, NEW i \in 1 .. Len(oy_job_list_')
               PROVE  Entry(i)'
    OBVIOUS
  <2>1. /\ oy_job_list_ # Null /\ i \in 1 .. Len(oy_job_list_)
        /\ oy_job_list_'[i] = oy_job_list_[i]
        /\ \A k \in 1 .. Len(oy_job_list_') :
             k \in 1 .. Len(oy_job_list_) /\ oy_job_list_'[k] = oy_job_list_[k]
    BY EmptySeq
  <2>2. Entry(i) /\ oy_job_list_[i] # NoJob
    BY <2>1 DEF OnceInv
  <2>3. \A w \in Threads : job'[w] # oy_job_list_[i]
    BY <2>2 DEF Entry
  <2> QED BY <2>1, <2>2, <2>3 DEF Entry
<1>2. \A w \in Threads : job'[w] # NoJob => Holds(w)'
  <2> SUFFICES ASSUME NEW w \in Threads, job'[w] # NoJob PROVE Holds(w)'
    OBVIOUS
  <2>1. Holds(w) /\ job'[w] = job[w]
    BY DEF OnceInv
  <2>2. \A v \in Threads : job'[v] = job'[w] => v = w
    BY <2>1 DEF Holds
  <2> QED BY <2>1, <2>2 DEF Holds
<1> QED BY <1>1, <1>2 DEF OnceInv

\* oyStructList_MoveIn() puts a job into the list that is in no other place.
LEMMA OnceMoveIn ==
  ASSUME OnceInv, Defined, UNCHANGED <<status_done_, added, works>>,
         NEW j \in Jobs, oy_job_list_ \in Seq(Jobs), oy_job_list_' = Append(oy_job_list_, j),
         oy_job_list_ # Null,
         \A i \in 1 .. Len(oy_job_list_) : oy_job_list_[i] # j,
         \A w \in Threads : job'[w] # j, j # mjob', added[j] # 0,
         status_done_[j] = 0 => works[j] = 0,
         mjob' \in {mjob, NoJob}, NoJob \notin Jobs,
         \A w \in Threads : job'[w] = NoJob \/ job'[w] = job[w],
         \A w \in Threads :
           job'[w] # NoJob =>
             /\ thread'[w] \in {"add", "movein"} <=> thread[w] \in {"add", "movein"}
             /\ thread'[w] = "movein" => thread[w] = "movein"
  PROVE  OnceInv'
<1> DEFINE n == Len(oy_job_list_)
<1>1. /\ n \in Nat /\ Len(oy_job_list_') = n + 1
      /\ \A i \in 1 .. n : oy_job_list_'[i] = oy_job_list_[i]
      /\ oy_job_list_'[n + 1] = j
  BY LenProperties, AppendProperties
<1>2. \A i \in 1 .. n + 1 : i \in 1 .. n \/ i = n + 1
  BY <1>1
<1>3. \A i \in 1 .. n : oy_job_list_[i] \in Jobs /\ Entry(i)
  BY ElementOfSeq DEF OnceInv
<1> HIDE DEF n
<1>4. \A i \in 1 .. n + 1 : Entry(i)'
  <2> SUFFICES ASSUME NEW i \in 1 .. n + 1 PROVE Entry(i)'
    OBVIOUS
  <2>1. CASE i = n + 1
    <3>1. \A k \in 1 .. n + 1 : oy_job_list_'[k] = j => k = i
      BY <1>1, <1>2, <2>1 DEF n
    <3> QED BY <1>1, <2>1, <3>1 DEF Entry
  <2>2. CASE i \in 1 .. n
    <3>1. Entry(i) /\ oy_job_list_'[i] = oy_job_list_[i] /\ oy_job_list_[i] # j
      BY <1>1, <1>3, <2>2 DEF n
    <3>2. \A k \in 1 .. n + 1 : oy_job_list_'[k] = oy_job_list_'[i] => k = i
      BY <1>1, <1>2, <3>1 DEF Entry, n
    <3>3. \A w \in Threads : job'[w] # oy_job_list_'[i]
      BY <1>3, <2>2, <3>1 DEF Entry
    <3>4. oy_job_list_'[i] # mjob'
      BY <1>3, <2>2, <3>1 DEF Entry
    <3> QED BY <1>1, <3>1, <3>2, <3>3, <3>4 DEF Entry
  <2> QED BY <1>2, <2>1, <2>2
<1>5. \A w \in Threads : job'[w] # NoJob => Holds(w)'
  <2> SUFFICES ASSUME NEW w \in Threads, job'[w] # NoJob PROVE Holds(w)'
    OBVIOUS
  <2>1. Holds(w) /\ job'[w] = job[w]
    BY DEF OnceInv
  <2>2. \A v \in Threads : job'[v] = job'[w] => v = w
    BY <2>1 DEF Holds
  <2> QED BY <2>1, <2>2 DEF Holds
<1> QED BY <1>1, <1>4, <1>5 DEF OnceInv

\* A worker takes the last entry.
LEMMA OnceTake ==
  ASSUME Control, OnceInv, Defined, NEW w \in Threads, LockList(w)
  PROVE  OnceInv'
<1>0. /\ Types /\ MainInv /\ oy_job_list_ \in Seq(Jobs) /\ oy_job_list_ # Null
      /\ thread[w] = "lock" /\ job[w] = NoJob /\ NoJob \notin Jobs
      /\ UNCHANGED <<status_done_, added, works, mjob, main>>
  BY ResetAssumption DEF Control, LockList, MainInv, JobAt, Types, history, locals
<1>1. /\ thread'[w] \notin {"add", "movein"}
      /\ \A v \in Threads : v # w => thread'[v] = thread[v]
  BY <1>0 DEF LockList, Types
<1>2. \A i \in 1 .. Len(oy_job_list_) : oy_job_list_[i] \in Jobs /\ Entry(i)
  BY <1>0, ElementOfSeq DEF OnceInv
<1>3. CASE UNCHANGED <<job, oy_job_list_>>
  <2>1. oy_job_list_ # Null => NoJob \notin {oy_job_list_[i] : i \in 1 .. Len(oy_job_list_)}
    BY <1>0, <1>2
  <2>2. \A v \in Threads : job'[v] # NoJob =>
          /\ job'[v] = job[v]
          /\ thread'[v] \in {"add", "movein"} <=> thread[v] \in {"add", "movein"}
          /\ thread'[v] = "movein" => thread[v] = "movein"
    BY <1>0, <1>1, <1>3
  <2> QED BY <1>0, <1>3, <2>1, <2>2, OnceQuiet
<1>4. CASE ~UNCHANGED <<job, oy_job_list_>>
  <2> DEFINE n == Len(oy_job_list_)
             j == oy_job_list_[n]
  <2>1. /\ oy_job_list_ # << >> /\ status_done_[j] = 0
        /\ job' = [job EXCEPT ![w] = j] /\ oy_job_list_' = Shortened
    BY <1>4 DEF LockList, LastJob
  <2>2. /\ n \in Nat \ {0} /\ n \in 1 .. n /\ Len(oy_job_list_') = n - 1
        /\ \A i \in 1 .. n - 1 : oy_job_list_'[i] = oy_job_list_[i]
    BY <1>0, <2>1, ShortenedProperties DEF Shortened
  <2>3. \A i \in 1 .. n - 1 : i \in 1 .. n /\ i # n
    BY <2>2
  <2>4. Entry(n) /\ j \in Jobs
    BY <1>2, <2>2
  <2>5. /\ job'[w] = j
        /\ \A v \in Threads : v # w => job'[v] = job[v]
    BY <1>0, <2>1 DEF Types
  <2> HIDE DEF n
  <2>6. \A i \in 1 .. n - 1 : Entry(i)'
    <3> SUFFICES ASSUME NEW i \in 1 .. n - 1 PROVE Entry(i)'
      OBVIOUS
    <3>1. Entry(i) /\ oy_job_list_'[i] = oy_job_list_[i] /\ oy_job_list_[i] # j
      BY <1>2, <2>2, <2>3, <2>4 DEF Entry, n
    <3>2. \A k \in 1 .. n - 1 : oy_job_list_'[k] = oy_job_list_'[i] => k = i
      BY <2>2, <2>3, <3>1 DEF Entry, n
    <3>3. \A v \in Threads : job'[v] # oy_job_list_[i]
      BY <2>5, <3>1 DEF Entry
    <3> QED BY <1>0, <2>2, <3>1, <3>2, <3>3 DEF Entry
  <2>7. \A v \in Threads : job'[v] # NoJob => Holds(v)'
    <3> SUFFICES ASSUME NEW v \in Threads, job'[v] # NoJob PROVE Holds(v)'
      OBVIOUS
    <3>1. CASE v = w
      <4>1. \A u \in Threads : job'[u] = j => u = w
        BY <2>4, <2>5 DEF Entry, n
      <4>2. j # mjob /\ added[j] # 0 /\ works[j] = 0
        BY <2>1, <2>4 DEF Entry
      <4> QED BY <1>0, <1>1, <2>5, <3>1, <4>1, <4>2 DEF Holds
    <3>2. CASE v # w
      <4>1. Holds(v) /\ job'[v] = job[v] /\ thread'[v] = thread[v] /\ job[v] # j
        BY <1>1, <2>4, <2>5, <3>2 DEF OnceInv, Entry
      <4>2. \A u \in Threads : job'[u] = job'[v] => u = v
        BY <2>5, <3>2, <4>1 DEF Holds
      <4> QED BY <1>0, <4>1, <4>2 DEF Holds
    <3> QED BY <3>1, <3>2
  <2> QED BY <1>0, <2>2, <2>6, <2>7 DEF OnceInv
<1> QED BY <1>3, <1>4

LEMMA EntriesAreJobs ==
  Types /\ oy_job_list_ # Null => NoJob \notin {oy_job_list_[i] : i \in 1 .. Len(oy_job_list_)}
<1> SUFFICES ASSUME Types, oy_job_list_ # Null
             PROVE  NoJob \notin {oy_job_list_[i] : i \in 1 .. Len(oy_job_list_)}
  OBVIOUS
<1>1. \A i \in 1 .. Len(oy_job_list_) : oy_job_list_[i] \in Jobs
  BY ElementOfSeq DEF Types
<1> QED BY <1>1, ResetAssumption

\* A job that is added was in no place before.
LEMMA OnceAdd ==
  ASSUME Control, OnceInv, Defined, NEW j \in Jobs, Add(j)
  PROVE  OnceInv'
<1>0. /\ Types /\ InOrder /\ MainInv /\ thread \in [Threads -> ThreadAt]
      /\ ThreadsInit(thread) /\ added[j] = 0 /\ mjob' = j /\ mjob = NoJob /\ j # NoJob
      /\ added' = [added EXCEPT ![j] = resets + 1]
      /\ UNCHANGED <<job, status_done_, works>>
  BY ResetAssumption DEF Control, Add, MainInv, Types
<1>1. /\ oy_job_list_' = << >> \/ (oy_job_list_ # Null /\ oy_job_list_' = oy_job_list_)
      /\ \A w \in Threads : thread'[w] = thread[w] \/ (thread[w] = "none" /\ thread'[w] = "loop")
  <2>1. IF oy_job_list_ = Null
        THEN /\ oy_job_list_' = << >>
             /\ \A w \in Threads :
                  \/ thread'[w] = thread[w]
                  \/ thread[w] = "none" /\ thread[w] = "none" /\ thread'[w] = "loop"
        ELSE thread' = thread /\ UNCHANGED <<lists, lock>>
    BY <1>0, StartThreads
  <2> QED BY <2>1 DEF lists, locals
<1>2. added'[j] # 0 /\ \A k \in Jobs : k # j => added'[k] = added[k]
  BY <1>0, ThreadsNat DEF Types
<1>3. oy_job_list_' # Null => \A i \in 1 .. Len(oy_job_list_') : Entry(i)'
  <2> SUFFICES ASSUME oy_job_list_' # Null, NEW i \in 1 .. Len(oy_job_list_') PROVE Entry(i)'
    OBVIOUS
  <2>1. oy_job_list_' = oy_job_list_ /\ oy_job_list_ # Null
    BY <1>1, EmptySeq
  <2>2. Entry(i) /\ oy_job_list_[i] \in Jobs
    BY <1>0, <2>1, ElementOfSeq DEF OnceInv, Types
  <2>3. oy_job_list_[i] # j
    BY <1>0, <2>2 DEF Entry
  <2> QED BY <1>0, <1>2, <2>1, <2>2, <2>3 DEF Entry
<1>4. \A w \in Threads : job'[w] # NoJob => Holds(w)'
  <2> SUFFICES ASSUME NEW w \in Threads, job'[w] # NoJob PROVE Holds(w)'
    OBVIOUS
  <2>1. Holds(w) /\ job[w] \in Jobs /\ job' = job
    BY <1>0 DEF OnceInv, Types
  <2>2. job[w] # j /\ thread[w] # "none"
    BY <1>0, <2>1 DEF Holds, MainInv, JobAt
  <2>3. thread'[w] = thread[w]
    BY <1>1, <2>2
  <2> QED BY <1>0, <1>2, <2>1, <2>2, <2>3 DEF Holds
<1>5. \A k \in Jobs : works'[k] <= 1 /\ (added'[k] = 0 => works'[k] = 0)
  BY <1>0, <1>2 DEF OnceInv
<1>6. works'[mjob'] = 0 /\ added'[mjob'] # 0
  BY <1>0, <1>2 DEF OnceInv
<1> QED BY <1>3, <1>4, <1>5, <1>6 DEF OnceInv

LEMMA OnceWork ==
  ASSUME Control, OnceInv, Defined, NEW w \in Threads, Work(w)
  PROVE  OnceInv'
<1>0. /\ Types /\ thread[w] = "work" /\ job[w] \in Jobs /\ job[w] # NoJob
      /\ works' = [works EXCEPT ![job[w]] = works[job[w]] + 1]
      /\ thread' = [thread EXCEPT ![w] = "add"]
      /\ UNCHANGED <<oy_job_list_, job, mjob, main, status_done_, added>>
  BY ResetAssumption DEF Control, Work, Goto, MainInv, JobAt, Types, lists, history, locals
<1>1. Holds(w) /\ works[job[w]] = 0
  BY <1>0 DEF OnceInv, Holds
<1>2. /\ works'[job[w]] = 1 /\ \A k \in Jobs : k # job[w] => works'[k] = works[k]
      /\ thread'[w] = "add" /\ \A v \in Threads : v # w => thread'[v] = thread[v]
  BY <1>0, <1>1 DEF Types
<1>3. oy_job_list_ # Null => \A i \in 1 .. Len(oy_job_list_) : Entry(i)'
  <2> SUFFICES ASSUME oy_job_list_ # Null, NEW i \in 1 .. Len(oy_job_list_) PROVE Entry(i)'
    OBVIOUS
  <2>1. Entry(i) /\ oy_job_list_[i] \in Jobs
    BY <1>0, ElementOfSeq DEF OnceInv, Types
  <2>2. works'[oy_job_list_[i]] = works[oy_job_list_[i]]
    BY <1>2, <2>1 DEF Entry
  <2> QED BY <1>0, <2>1, <2>2 DEF Entry
<1>4. \A v \in Threads : job'[v] # NoJob => Holds(v)'
  <2> SUFFICES ASSUME NEW v \in Threads, job'[v] # NoJob PROVE Holds(v)'
    OBVIOUS
  <2>1. Holds(v) /\ job[v] \in Jobs
    BY <1>0 DEF OnceInv, Types
  <2>2. CASE v = w
    BY <1>0, <1>2, <2>1, <2>2 DEF Holds
  <2>3. CASE v # w
    <3>1. job[v] # job[w]
      BY <1>1, <2>3 DEF Holds
    <3> QED BY <1>0, <1>2, <2>1, <2>3, <3>1 DEF Holds
  <2> QED BY <2>2, <2>3
<1>5. mjob # NoJob => works'[mjob] = 0 /\ added'[mjob] # 0
  BY <1>0, <1>1, <1>2 DEF OnceInv, Holds, Types
<1>6. \A k \in Jobs : works'[k] <= 1 /\ (added'[k] = 0 => works'[k] = 0)
  BY <1>0, <1>1, <1>2 DEF OnceInv, Holds
<1> QED BY <1>0, <1>3, <1>4, <1>5, <1>6 DEF OnceInv

LEMMA OnceAddDone ==
  ASSUME Control, OnceInv, Defined, NEW w \in Threads, AddDone(w)
  PROVE  OnceInv'
<1> DEFINE threadAt == [thread EXCEPT ![w] = "movein"]
<1>0. /\ Types /\ InOrder /\ MainInv /\ thread[w] = "add" /\ job[w] \in Jobs /\ job[w] # NoJob
      /\ status_done_' = [status_done_ EXCEPT ![job[w]] = 1]
      /\ UNCHANGED <<job, mjob, main, works, added>>
      /\ ThreadsInit(threadAt) /\ threadAt \in [Threads -> ThreadAt]
      /\ \A v \in Threads : threadAt[v] = IF v = w THEN "movein" ELSE thread[v]
  BY ResetAssumption DEF Control, AddDone, MainInv, JobAt, Types, history, locals, ThreadAt
<1>1. \A v \in Threads : threadAt[v] = "none" <=> thread[v] = "none"
  BY <1>0
<1> HIDE DEF threadAt
<1>2. /\ oy_job_list_' = << >> \/ (oy_job_list_ # Null /\ oy_job_list_' = oy_job_list_)
      /\ \A v \in Threads : thread'[v] = threadAt[v] \/ (thread[v] = "none" /\ thread'[v] = "loop")
  <2>1. IF oy_job_list_ = Null
        THEN /\ oy_job_list_' = << >>
             /\ \A v \in Threads :
                  \/ thread'[v] = threadAt[v]
                  \/ thread[v] = "none" /\ threadAt[v] = "none" /\ thread'[v] = "loop"
        ELSE thread' = threadAt /\ UNCHANGED <<lists, lock>>
    BY <1>0, <1>1, StartThreads
  <2> QED BY <2>1 DEF lists, locals
<1>3. Holds(w)
  BY <1>0 DEF OnceInv
<1>4. status_done_'[job[w]] = 1 /\ \A k \in Jobs : k # job[w] => status_done_'[k] = status_done_[k]
  BY <1>0 DEF Types
<1>5. oy_job_list_' # Null => \A i \in 1 .. Len(oy_job_list_') : Entry(i)'
  <2> SUFFICES ASSUME oy_job_list_' # Null, NEW i \in 1 .. Len(oy_job_list_') PROVE Entry(i)'
    OBVIOUS
  <2>1. oy_job_list_' = oy_job_list_ /\ oy_job_list_ # Null
    BY <1>2, EmptySeq
  <2>2. Entry(i) /\ oy_job_list_[i] \in Jobs
    BY <1>0, <2>1, ElementOfSeq DEF OnceInv, Types
  <2>3. status_done_'[oy_job_list_[i]] = status_done_[oy_job_list_[i]]
    BY <1>4, <2>2 DEF Entry
  <2> QED BY <1>0, <2>1, <2>2, <2>3 DEF Entry
<1>6. \A v \in Threads : job'[v] # NoJob => Holds(v)'
  <2> SUFFICES ASSUME NEW v \in Threads, job'[v] # NoJob PROVE Holds(v)'
    OBVIOUS
  <2>1. Holds(v) /\ job[v] \in Jobs /\ thread[v] # "none"
    BY <1>0 DEF OnceInv, Types, MainInv, JobAt
  <2>2. thread'[v] = threadAt[v]
    BY <1>2, <2>1
  <2>3. CASE v = w
    BY <1>0, <1>4, <2>1, <2>2, <2>3 DEF Holds
  <2>4. CASE v # w
    <3>1. job[v] # job[w]
      BY <1>3, <2>4 DEF Holds
    <3> QED BY <1>0, <1>4, <2>1, <2>2, <2>4, <3>1 DEF Holds
  <2> QED BY <2>3, <2>4
<1> QED BY <1>0, <1>5, <1>6 DEF OnceInv

LEMMA OnceWrong ==
  ASSUME OnceInv, NEW how \in {"undefined", "late"}, Ends(how) PROVE OnceInv'
<1>1. /\ ~Defined'
      /\ UNCHANGED <<oy_job_list_, status_done_, mjob, job, added, works>>
  BY DEF Ends, lists, history, locals
<1> QED BY <1>1 DEF OnceInv, Entry

LEMMA OnceStep == Control /\ OnceInv /\ [Next]_vars => OnceInv'
<1> SUFFICES ASSUME Control, OnceInv, [Next]_vars PROVE OnceInv'
  OBVIOUS
<1>0. Types /\ InOrder /\ MainInv /\ NoJob \notin Jobs
  BY ResetAssumption DEF Control
<1>1. CASE UNCHANGED vars
  BY <1>1 DEF vars, lists, history, locals, OnceInv, Entry, Holds
<1>2. ASSUME Next PROVE OnceInv'
  <2>0. /\ Defined
        /\ oy_job_list_ # Null => NoJob \notin {oy_job_list_[i] : i \in 1 .. Len(oy_job_list_)}
    BY <1>0, <1>2, Dead, EntriesAreJobs
  <2>1. ASSUME NEW j \in Jobs, Add(j) PROVE OnceInv'
    BY <2>0, <2>1, OnceAdd
  <2>2. CASE MoveIn
    <3>1. /\ mjob \in Jobs /\ mjob # NoJob /\ mjob' = NoJob
          /\ oy_job_list_ \in Seq(Jobs) /\ oy_job_list_ # Null
          /\ oy_job_list_' = Append(oy_job_list_, mjob)
          /\ UNCHANGED <<job, status_done_, added, works>>
      BY <1>0, <2>0, <2>2 DEF MoveIn, ListMoveIn, MainInv, Types, history, locals
    <3>2. /\ works[mjob] = 0 /\ added[mjob] # 0
          /\ \A i \in 1 .. Len(oy_job_list_) : oy_job_list_[i] # mjob
          /\ \A w \in Threads : job'[w] # mjob
      BY <2>0, <3>1 DEF OnceInv, Entry, Holds
    <3>3. \A w \in Threads : /\ thread'[w] \in {"add", "movein"} <=>
                                  thread[w] \in {"add", "movein"}
                             /\ thread'[w] = "movein" => thread[w] = "movein"
      BY <1>0, <2>2 DEF MoveIn, Waiting, Types
    <3> QED BY <1>0, <2>0, <3>1, <3>2, <3>3, OnceMoveIn
  <2>3. CASE MoveInNull
    BY <2>3, OnceWrong DEF MoveInNull, GoesWrong
  <2>4. CASE JobResult
    <3>1. /\ oy_job_list_ \in Seq(Jobs) /\ oy_job_list_ # << >> /\ oy_job_list_ # Null
          /\ oy_job_list_' = Shortened
          /\ UNCHANGED <<status_done_, added, works, mjob, job, thread>>
      BY <1>0, <2>4 DEF JobResult, Types, history, locals
    <3>2. /\ Len(oy_job_list_) = Len(oy_job_list_') + 1 /\ Len(oy_job_list_') \in Nat
          /\ \A i \in 1 .. Len(oy_job_list_') : oy_job_list_'[i] = oy_job_list_[i]
      BY <3>1, ShortenedProperties DEF Shortened
    <3> QED BY <2>0, <3>1, <3>2, OnceQuiet
  <2>5. CASE Reset \/ ResetTest \/ ResetFetch \/ ResetSignal \/ ResetSignalled
             \/ ResetMessages \/ ResetThreads \/ ResetLocks \/ CMMInit
    <3>1. UNCHANGED <<oy_job_list_, status_done_, added, works, mjob, job>>
      BY <2>5 DEF Reset, ResetTest, ResetFetch, ResetSignal, ResetSignalled, ResetMessages,
         ResetThreads, ResetLocks, CMMInit, lists, history, locals
    <3>2. \A w \in Threads : /\ thread'[w] \in {"add", "movein"} <=>
                                  thread[w] \in {"add", "movein"}
                             /\ thread'[w] = "movein" => thread[w] = "movein"
      BY <1>0, <2>5 DEF Reset, ResetTest, ResetFetch, ResetSignal, ResetSignalled, ResetMessages,
         ResetThreads, ResetLocks, CMMInit, Waiting, Types
    <3> QED BY <2>0, <3>1, <3>2, OnceQuiet
  <2>5a. CASE ResetLate
    BY <2>5a, OnceWrong DEF ResetLate
  <2>6. ASSUME NEW w \in Threads, WorkerNext(w) \/ SpuriousWakeup(w) PROVE OnceInv'
    <3>1. CASE \/ Loop(w) \/ Enter(w) \/ CondWait(w) \/ Awake(w) \/ Leave(w) \/ Continue(w)
               \/ SpuriousWakeup(w) \/ Release(w)
      <4>1. /\ UNCHANGED <<status_done_, added, works, mjob, job>>
            /\ oy_job_list_' = oy_job_list_ \/ oy_job_list_' = Null
        BY <3>1 DEF Loop, Enter, CondWait, Awake, Leave, UnLock, Continue, SpuriousWakeup,
           Release,
           lists, history, locals
      <4>2. \A v \in Threads :
              /\ thread'[v] \in {"add", "movein"} <=> thread[v] \in {"add", "movein"}
              /\ thread'[v] = "movein" => thread[v] = "movein"
        BY <1>0, <3>1 DEF Loop, Enter, CondWait, Awake, Leave, Continue, SpuriousWakeup, Release,
           Goto, Types
      <4> QED BY <2>0, <4>1, <4>2, OnceQuiet
    <3>2. CASE LockList(w)
      BY <2>0, <3>2, OnceTake
    <3>3. CASE LockWrong(w) \/ ReleaseWrong(w) \/ PostWrong(w)
      BY <3>3, OnceWrong DEF LockWrong, ReleaseWrong, PostWrong, GoesWrong
    <3>4. CASE Break(w) \/ MoveInLost(w)
      <4>1. /\ UNCHANGED <<status_done_, added, works, mjob, oy_job_list_>>
            /\ job' = [job EXCEPT ![w] = NoJob]
            /\ \A v \in Threads : v # w => thread'[v] = thread[v]
        BY <1>0, <3>4 DEF Break, MoveInLost, Goto, lists, history, locals, Types
      <4>2. job'[w] = NoJob /\ \A v \in Threads : v # w => job'[v] = job[v]
        BY <1>0, <4>1 DEF Types
      <4>3. \A v \in Threads :
              job'[v] # NoJob =>
                /\ job'[v] = job[v]
                /\ thread'[v] \in {"add", "movein"} <=> thread[v] \in {"add", "movein"}
                /\ thread'[v] = "movein" => thread[v] = "movein"
        BY <4>1, <4>2
      <4> QED BY <2>0, <4>1, <4>2, <4>3, OnceQuiet
    <3>5. CASE Work(w)
      BY <2>0, <3>5, OnceWork
    <3>6. CASE AddDone(w)
      BY <2>0, <3>6, OnceAddDone
    <3>7. CASE MoveInDone(w)
      <4> DEFINE j == job[w]
      <4>1. /\ j \in Jobs /\ j # NoJob /\ thread[w] = "movein"
            /\ oy_job_list_ \in Seq(Jobs) /\ oy_job_list_ # Null
            /\ oy_job_list_' = Append(oy_job_list_, j)
            /\ job' = [job EXCEPT ![w] = NoJob]
            /\ \A v \in Threads : v # w => thread'[v] = thread[v]
            /\ UNCHANGED <<mjob, status_done_, added, works>>
        BY <1>0, <2>0, <3>7 DEF MoveInDone, ListMoveIn, Goto, MainInv, JobAt, Types, history,
           locals
      <4>2. Holds(w)
        BY <2>0, <4>1 DEF OnceInv
      <4>3. job'[w] = NoJob /\ \A v \in Threads : v # w => job'[v] = job[v]
        BY <1>0, <4>1 DEF Types
      <4>4. /\ \A v \in Threads : job'[v] # j
            /\ \A i \in 1 .. Len(oy_job_list_) : oy_job_list_[i] # j
            /\ j # mjob' /\ added[j] # 0 /\ status_done_[j] = 1
        BY <4>1, <4>2, <4>3 DEF OnceInv, Entry, Holds
      <4>5. \A v \in Threads :
              job'[v] # NoJob =>
                /\ thread'[v] \in {"add", "movein"} <=> thread[v] \in {"add", "movein"}
                /\ thread'[v] = "movein" => thread[v] = "movein"
        BY <4>1, <4>3
      <4>6. \A v \in Threads : job'[v] = NoJob \/ job'[v] = job[v]
        BY <4>3
      <4> HIDE DEF j
      <4> QED BY <1>0, <2>0, <4>1, <4>4, <4>5, <4>6, OnceMoveIn
    <3> QED BY <2>6, <3>1, <3>2, <3>3, <3>4, <3>5, <3>6, <3>7 DEF WorkerNext
  <2> QED BY <1>2, <2>1, <2>2, <2>3, <2>4, <2>5, <2>5a, <2>6 DEF Next, MainNext, ResetOn
<1> QED BY <1>1, <1>2

-----------------------------------------------------------------------------
(* The theorems.                                                             *)

ResetInv == Control /\ LocksInv /\ SoundInv /\ NobodyComes /\ LastOneReleases /\ OnceInv

LEMMA ResetInit == Init => ResetInv
<1> SUFFICES ASSUME Init PROVE ResetInv
  OBVIOUS
<1>1. /\ \A w \in Threads : thread[w] = "none" /\ job[w] = NoJob
      /\ \A w \in Threads : w > 0
      /\ \A j \in Jobs : works[j] = 0
      /\ mjob = NoJob /\ main = "run" /\ trds_reset = 0 /\ resets = 0
      /\ oy_job_list_ = Null /\ ~quiet /\ ~locking /\ ref = 0
  BY ThreadsNat DEF Init
<1>2. Types
  <2>1. 0 \in 0 .. MaxResets /\ 0 \in 0 .. MaxResets + 1
    BY ThreadsNat
  <2>2. 0 \in 0 .. NBase + 1
    BY ThreadsNat
  <2> QED BY <2>1, <2>2 DEF Init, Types, MainAt, ThreadAt, LockAt
<1>3. Control
  <2>1. 0 \in 0 .. MaxThreads /\ \A w \in Threads : thread[w] # "none" <=> w <= 0
    BY <1>1, ThreadsNat
  <2>2. InOrder
    BY <2>1 DEF InOrder
  <2>3. MainInv
    BY <1>1 DEF MainInv, JobAt
  <2> QED BY <1>2, <2>2, <2>3 DEF Control
<1>4. LocksInv
  <2>1. Inside = {}
    BY <1>1 DEF Inside
  <2>2. 0 \in 0 .. MaxThreads
    BY ThreadsNat
  <2> QED BY <1>1, <2>1, <2>2 DEF LocksInv, RefCountsInside
<1>5. SoundInv /\ NobodyComes /\ LastOneReleases
  BY <1>1 DEF SoundInv, NobodyComes, LastOneReleases
<1>6. OnceInv
  BY <1>1 DEF OnceInv
<1> QED BY <1>3, <1>4, <1>5, <1>6 DEF ResetInv

\* The inductive invariant of the queue with its resets.
THEOREM ResetInvariant == Spec => []ResetInv
<1>1. ResetInv /\ [Next]_vars => ResetInv'
  BY ControlStep, LocksStep, SoundStep, NobodyComesStep, LastOneStep, OnceStep DEF ResetInv
<1> QED BY ResetInit, <1>1, PTL DEF Spec

\* Every variable keeps its type over any number of resets: no job is worked on
\* twice, ms->ref stays between 0 and the number of threads, and a worker has a job
\* where oyJobWorker() has one.
THEOREM ResetTypes == Spec => []TypeOK
<1>1. ResetInv => TypeOK
  <2> SUFFICES ASSUME ResetInv PROVE TypeOK
    OBVIOUS
  <2>1. Types /\ MainInv /\ ref \in 0 .. MaxThreads
    BY DEF ResetInv, Control, LocksInv
  <2>2. works \in [Jobs -> 0 .. 1]
    <3>1. \A j \in Jobs : works[j] \in Nat /\ works[j] <= 1
      BY <2>1 DEF ResetInv, OnceInv, Types
    <3>2. \A j \in Jobs : works[j] \in 0 .. 1
      BY <3>1
    <3> QED BY <2>1, <3>2 DEF Types
  <2>3. Defined => \A w \in Threads :
          /\ job[w] # NoJob => thread[w] \in {"held", "release", "check", "work", "add", "movein"}
          /\ job[w] = NoJob => thread[w] \notin {"work", "add", "movein"}
    BY <2>1 DEF MainInv, JobAt
  <2> QED BY <2>1, <2>2, <2>3 DEF Types, TypeOK
<1> QED BY <1>1, ResetInvariant, PTL

\* Nothing goes wrong before the first reset, although oyJob_Get_() looks at the
\* list before it locks it.
THEOREM SoundUntilReset == Spec => []SoundBeforeReset
<1>1. ResetInv => SoundBeforeReset
  BY DEF ResetInv, SoundInv, SoundBeforeReset
<1> QED BY <1>1, ResetInvariant, PTL

\* ms->ref is the number of threads inside of the list's lock, sleeping ones
\* included, whenever the lock functions are set.
THEOREM RefCounted == Spec => []RefCountsInside
<1>1. ResetInv => RefCountsInside
  BY DEF ResetInv, LocksInv
<1> QED BY <1>1, ResetInvariant, PTL

\* A reset of workers that wait for work: no worker uses what another has released,
\* all of them are woken when the signals are sent, and the last one that leaves the
\* lock releases the list, unless the reset itself comes late to the list or to the
\* lock that it signals.
THEOREM QuietResetIsSound == Spec => []QuietReset
<1>1. ResetInv => QuietReset
  <2> SUFFICES ASSUME ResetInv, quiet, locking, trds_reset = 1
               PROVE  /\ main # "undefined"
                      /\ main \notin {"test", "fetch", "signal", "late"} => Waiting = {}
                      /\ Alive = {} => oy_job_list_ = Null
    BY DEF QuietReset
  <2>1. main # "undefined" /\ (Defined => AllLeave)
    BY DEF ResetInv, LastOneReleases
  <2>2. CASE Defined
    <3>1. Alive = {} => Inside = {} /\ Releasing = {}
      BY DEF Alive, Inside, Releasing
    <3> QED BY <2>1, <2>2, <3>1 DEF AllLeave, Signalling
  <2>3. CASE ~Defined
    <3>1. thread[1] = "undefined" /\ 1 \in Threads
      BY <2>3, ResetAssumption DEF ResetInv, Control, MainInv, Threads
    <3> QED BY <2>1, <2>3, <3>1 DEF Alive
  <2> QED BY <2>2, <2>3
<1> QED BY <1>1, ResetInvariant, PTL
=============================================================================
