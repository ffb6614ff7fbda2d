--------------------------- MODULE TrdsJobs_proofs ---------------------------
(***************************************************************************)
(* Theorems about the job queue of module TrdsJobs, for any finite set of  *)
(* jobs and any number of workers.                                         *)
(***************************************************************************)
EXTENDS TrdsJobs, SequenceTheorems, FiniteSetTheorems, TLAPS

\* What oyStructList_ReleaseAt(list, n-1) leaves of a list.
LEMMA ReleaseLastProperties ==
  ASSUME NEW S, NEW s \in Seq(S), s # << >>
  PROVE  /\ Len(s) \in Nat \ {0}
         /\ Last(s) \in S
         /\ Last(s) = s[Len(s)]
         /\ ReleaseLast(s) \in Seq(S)
         /\ Len(ReleaseLast(s)) = Len(s) - 1
         /\ \A i \in 1 .. Len(s) - 1 : ReleaseLast(s)[i] = s[i]
<1>1. Len(s) \in Nat \ {0}
  BY EmptySeq
<1>2. \A i \in 1 .. Len(s) : s[i] \in S
  BY ElementOfSeq
<1>3. \A i \in 1 .. Len(s) - 1 : s[i] \in S
  BY <1>1, <1>2
<1>4. /\ SubSeq(s, 1, Len(s) - 1) \in Seq(S)
      /\ Len(SubSeq(s, 1, Len(s) - 1)) = IF 1 <= Len(s) - 1 THEN Len(s) - 1 - 1 + 1 ELSE 0
      /\ \A i \in 1 .. Len(s) - 1 - 1 + 1 : SubSeq(s, 1, Len(s) - 1)[i] = s[1 + i - 1]
  <2>1. Len(s) - 1 \in Int /\ 1 \in Int
    BY <1>1
  <2> QED BY <1>3, <2>1, SubSeqProperties
<1>5. \A n \in Nat \ {0} : /\ (IF 1 <= n - 1 THEN n - 1 - 1 + 1 ELSE 0) = n - 1
                           /\ n - 1 - 1 + 1 = n - 1
                           /\ \A i \in 1 .. n - 1 : 1 + i - 1 = i
                           /\ n \in 1 .. n
  OBVIOUS
<1>6. \A i \in 1 .. Len(s) - 1 : SubSeq(s, 1, Len(s) - 1)[i] = s[i]
  BY <1>1, <1>4, <1>5
<1>7. Len(SubSeq(s, 1, Len(s) - 1)) = Len(s) - 1 /\ Len(s) \in 1 .. Len(s)
  BY <1>1, <1>4, <1>5
<1> QED BY <1>1, <1>2, <1>4, <1>6, <1>7 DEF Last, ReleaseLast

\* The number of workers is a natural number, and the base workers are some.
LEMMA WorkersNat == /\ Cardinality(Persistent) \in Nat
                    /\ NBase + Cardinality(Persistent) \in Nat
                    /\ Workers \subseteq Nat
                    /\ NBase \in Nat
BY JobsAssumption, NBaseAssumption, FS_Subset, FS_CardinalityType DEF Workers

-----------------------------------------------------------------------------
\* oyMsg_Add_() keeps the type of the message list.
LEMMA PostType ==
  ASSUME oy_job_message_list_ \in Seq(Messages), NEW j \in Jobs,
         NEW p \in {StartMsg, MiddleMsg, DoneMsg}, Post(j, p)
  PROVE  oy_job_message_list_' \in Seq(Messages)
<1>1. Message(j, p) \in Messages
  BY DEF Message, Messages
<1> QED BY <1>1, AppendProperties DEF Post

\* Every step keeps the types.
LEMMA TypeStep == TypeOK /\ [Next]_vars => Types'
<1> SUFFICES ASSUME TypeOK, [Next]_vars PROVE Types'
  OBVIOUS
<1> USE DEF Types, MainAt, ThreadAt, Holding, Messages, Message,
            StartMsg, MiddleMsg, DoneMsg, queue, members, history
<1>0. Types /\ NoJob \notin Jobs /\ \A w \in Workers : thread[w] \in Holding => job[w] \in Jobs
  BY JobsAssumption DEF TypeOK, LocalJobs
<1>1. ASSUME NEW j \in Jobs, Add(j) PROVE Types'
  BY <1>0, <1>1, WorkersNat DEF Add, ThreadsInit, ThreadsAfter
<1>2. CASE MoveIn
  BY <1>0, <1>2, AppendProperties DEF MoveIn, TypeOK, LocalJobs
<1>3. CASE Signal
  BY <1>0, <1>3 DEF Signal, Waiting
<1>4. CASE JobResult
  BY <1>0, <1>4 DEF JobResult
<1>5. CASE DrainMessage
  <2>1. /\ Head(oy_job_message_list_) \in Messages
        /\ Tail(oy_job_message_list_) \in Seq(Messages)
    BY <1>0, <1>5, HeadTailProperties DEF DrainMessage
  <2>2. delivered' \in [Jobs -> {0, StartMsg, MiddleMsg, DoneMsg}]
    BY <1>0, <1>5, <2>1 DEF DrainMessage
  <2> QED BY <1>0, <1>5, <2>1, <2>2 DEF DrainMessage
<1>6. CASE DrainEnd
  BY <1>0, <1>6 DEF DrainEnd
<1>7. CASE GetDone
  BY <1>0, <1>7, ReleaseLastProperties DEF GetDone
<1>8. CASE FinishJob
  <2>1. mjob \in Jobs
    BY <1>0, <1>8 DEF FinishJob, TypeOK, LocalJobs
  <2>2. finishes' \in [Jobs -> Nat]
    BY <1>0, <1>8, <2>1 DEF FinishJob
  <2> QED BY <1>0, <1>8, <2>2 DEF FinishJob
<1>9. ASSUME NEW w \in Workers, TakeJob(w) PROVE Types'
  BY <1>0, <1>9, ReleaseLastProperties DEF TakeJob, Transition
<1>10. ASSUME NEW w \in Workers, Wait(w) PROVE Types'
  BY <1>0, <1>10 DEF Wait, Transition
<1>11. ASSUME NEW w \in Workers, SpuriousWakeup(w) PROVE Types'
  BY <1>0, <1>11 DEF SpuriousWakeup, Transition
<1>12. ASSUME NEW w \in Workers, Return(w) PROVE Types'
  BY <1>0, <1>12 DEF Return, Transition
<1>13. ASSUME NEW w \in Workers, PostStart(w) PROVE Types'
  <2>1. job[w] \in Jobs
    BY <1>0, <1>13 DEF PostStart, Transition
  <2>2. oy_job_message_list_' \in Seq(Messages)
    BY <1>0, <1>13, <2>1, PostType DEF PostStart
  <2>3. thread' \in [Workers -> ThreadAt]
    BY <1>0, <1>13 DEF PostStart, Transition
  <2> QED BY <1>0, <1>13, <2>2, <2>3 DEF PostStart
<1>14. ASSUME NEW w \in Workers, Work(w) PROVE Types'
  <2>1. job[w] \in Jobs
    BY <1>0, <1>14 DEF Work, Transition
  <2>2. oy_job_message_list_' \in Seq(Messages)
    BY <1>0, <1>14, <2>1, PostType DEF Work
  <2>3. works' \in [Jobs -> Nat]
    BY <1>0, <1>14, <2>1 DEF Work
  <2>4. thread' \in [Workers -> ThreadAt]
    BY <1>0, <1>14 DEF Work, Transition
  <2> QED BY <1>0, <1>14, <2>2, <2>3, <2>4 DEF Work
<1>15. ASSUME NEW w \in Workers, PostDone(w) PROVE Types'
  <2>1. job[w] \in Jobs
    BY <1>0, <1>15 DEF PostDone, Transition
  <2>2. oy_job_message_list_' \in Seq(Messages)
    BY <1>0, <1>15, <2>1, PostType DEF PostDone
  <2>3. thread' \in [Workers -> ThreadAt]
    BY <1>0, <1>15 DEF PostDone, Transition
  <2> QED BY <1>0, <1>15, <2>2, <2>3 DEF PostDone
<1>16. ASSUME NEW w \in Workers, AddDone(w) PROVE Types'
  BY <1>0, <1>16, AppendProperties DEF AddDone, Transition
<1>17. CASE UNCHANGED vars
  BY <1>0, <1>17 DEF vars
<1> QED BY <1>1, <1>2, <1>3, <1>4, <1>5, <1>6, <1>7, <1>8, <1>9, <1>10, <1>11,
           <1>12, <1>13, <1>14, <1>15, <1>16, <1>17
        DEF Next, MainNext, Poll, WorkerNext

\* Every step keeps the local job of a thread in step with the place it has
\* reached.
LEMMA LocalStep == TypeOK /\ [Next]_vars => LocalJobs'
<1> SUFFICES ASSUME TypeOK, [Next]_vars PROVE LocalJobs'
  OBVIOUS
<1> USE DEF LocalJobs, Holding, queue, members, history
<1>0. Types /\ LocalJobs /\ NoJob \notin Jobs
  BY JobsAssumption DEF TypeOK
<1>1. ASSUME NEW j \in Jobs, Add(j) PROVE LocalJobs'
  <2>1. /\ oy_threads_ \in Nat /\ ThreadsAfter(j) \in Nat /\ oy_threads_ <= ThreadsAfter(j)
        /\ Workers \subseteq Nat
    BY <1>0, WorkersNat, NBaseAssumption DEF Types, ThreadsAfter
  <2>2. \A w \in Workers : /\ job'[w] # NoJob <=> thread'[w] \in Holding
                           /\ thread'[w] = "none" <=> oy_threads_' < w
    BY <1>0, <1>1, <2>1 DEF Add, ThreadsInit
  <2> QED BY <1>0, <1>1, <2>2 DEF Add
<1>2. CASE MoveIn
  BY <1>0, <1>2 DEF MoveIn
<1>3. CASE Signal
  BY <1>0, <1>3 DEF Signal, Waiting, Types
<1>4. CASE JobResult
  BY <1>0, <1>4 DEF JobResult
<1>5. CASE DrainMessage
  BY <1>0, <1>5 DEF DrainMessage
<1>6. CASE DrainEnd
  BY <1>0, <1>6 DEF DrainEnd
<1>7. CASE GetDone
  BY <1>0, <1>7, ReleaseLastProperties DEF GetDone, Types
<1>8. CASE FinishJob
  BY <1>0, <1>8 DEF FinishJob
<1>9. ASSUME NEW w \in Workers, TakeJob(w) PROVE LocalJobs'
  BY <1>0, <1>9, ReleaseLastProperties, SMTT(30) DEF TakeJob, Transition, Types
<1>10. ASSUME NEW w \in Workers, Wait(w) PROVE LocalJobs'
  BY <1>0, <1>10 DEF Wait, Transition, Types
<1>11. ASSUME NEW w \in Workers, SpuriousWakeup(w) PROVE LocalJobs'
  BY <1>0, <1>11 DEF SpuriousWakeup, Transition, Types
<1>12. ASSUME NEW w \in Workers, Return(w) PROVE LocalJobs'
  BY <1>0, <1>12 DEF Return, Transition, Types
<1>13. ASSUME NEW w \in Workers, PostStart(w) PROVE LocalJobs'
  BY <1>0, <1>13 DEF PostStart, Transition, Types
<1>14. ASSUME NEW w \in Workers, Work(w) PROVE LocalJobs'
  BY <1>0, <1>14 DEF Work, Transition, Types
<1>15. ASSUME NEW w \in Workers, PostDone(w) PROVE LocalJobs'
  BY <1>0, <1>15 DEF PostDone, Transition, Types
<1>16. ASSUME NEW w \in Workers, AddDone(w) PROVE LocalJobs'
  BY <1>0, <1>16 DEF AddDone, Transition, Types
<1>17. CASE UNCHANGED vars
  BY <1>0, <1>17 DEF vars
<1> QED BY <1>1, <1>2, <1>3, <1>4, <1>5, <1>6, <1>7, <1>8, <1>9, <1>10, <1>11,
           <1>12, <1>13, <1>14, <1>15, <1>16, <1>17
        DEF Next, MainNext, Poll, WorkerNext

\* Type correctness of the queue.
THEOREM TypeCorrect == Spec => []TypeOK
<1>1. Init => Types
  BY JobsAssumption, EmptySeq DEF Init, Types, MainAt, ThreadAt, Messages
<1>2. Init => LocalJobs
  BY WorkersNat DEF Init, LocalJobs, Holding, Workers
<1>3. TypeOK /\ [Next]_vars => TypeOK'
  BY TypeStep, LocalStep DEF TypeOK
<1> QED BY <1>1, <1>2, <1>3, PTL DEF Spec, TypeOK

-----------------------------------------------------------------------------
(* Lists as sets of entries. *)

LEMMA EntriesAppend ==
  ASSUME NEW S, NEW s \in Seq(S), NEW e \in S
  PROVE  /\ Entries(Append(s, e)) = Entries(s) \cup {e}
         /\ Distinct(s) /\ e \notin Entries(s) => Distinct(Append(s, e))
<1> DEFINE t == Append(s, e)
<1>1. /\ Len(s) \in Nat /\ Len(t) = Len(s) + 1
      /\ \A i \in 1 .. Len(s) : t[i] = s[i]
      /\ t[Len(s) + 1] = e
  BY AppendProperties, LenProperties
<1> HIDE DEF t
<1>2. 1 .. Len(t) = (1 .. Len(s)) \cup {Len(s) + 1}
  BY <1>1
<1>3. Entries(t) = Entries(s) \cup {e}
  BY <1>1, <1>2, ZenonT(40) DEF Entries
<1>4. ASSUME Distinct(s), e \notin Entries(s) PROVE Distinct(t)
  <2> SUFFICES ASSUME NEW i \in 1 .. Len(t), NEW k \in 1 .. Len(t), t[i] = t[k]
               PROVE  i = k
    BY DEF Distinct
  <2>1. CASE i \in 1 .. Len(s) /\ k \in 1 .. Len(s)
    BY <1>1, <1>4, <2>1 DEF Distinct
  <2>2. CASE i = Len(s) + 1 /\ k \in 1 .. Len(s)
    BY <1>1, <1>4, <2>2 DEF Entries
  <2>3. CASE i \in 1 .. Len(s) /\ k = Len(s) + 1
    BY <1>1, <1>4, <2>3 DEF Entries
  <2> QED BY <1>2, <2>1, <2>2, <2>3
<1> QED BY <1>3, <1>4 DEF t

LEMMA EntriesReleaseLast ==
  ASSUME NEW S, NEW s \in Seq(S), s # << >>, Distinct(s)
  PROVE  /\ Last(s) \in Entries(s)
         /\ Entries(ReleaseLast(s)) = Entries(s) \ {Last(s)}
         /\ Distinct(ReleaseLast(s))
<1> DEFINE t == ReleaseLast(s)
<1>1. /\ Len(s) \in Nat \ {0} /\ Len(t) = Len(s) - 1
      /\ Last(s) = s[Len(s)]
      /\ \A i \in 1 .. Len(s) - 1 : t[i] = s[i]
  BY ReleaseLastProperties
<1> HIDE DEF t
<1>2. /\ 1 .. Len(s) = (1 .. Len(t)) \cup {Len(s)}
      /\ Len(s) \notin 1 .. Len(t)
      /\ \A i \in 1 .. Len(t) : t[i] = s[i]
  BY <1>1
<1>3. Last(s) \in Entries(s)
  BY <1>1, <1>2 DEF Entries
<1>4. Entries(t) = Entries(s) \ {Last(s)}
  <2>1. ASSUME NEW x \in Entries(t) PROVE x \in Entries(s) \ {Last(s)}
    BY <1>1, <1>2, <2>1 DEF Entries, Distinct
  <2>2. ASSUME NEW x \in Entries(s) \ {Last(s)} PROVE x \in Entries(t)
    BY <1>1, <1>2, <2>2 DEF Entries
  <2> QED BY <2>1, <2>2
<1>5. Distinct(t)
  BY <1>2 DEF Distinct
<1> QED BY <1>3, <1>4, <1>5 DEF t

-----------------------------------------------------------------------------
(* The inductive invariant of the jobs. *)

Jobwise == UniqueJob /\ JobKept /\ JobProgress

\* Steps that move no job and call no callback of one.
LEMMA QuietStep ==
  ASSUME JobInv,
         UNCHANGED <<oy_job_list_, id_, status_done_, mjob, job, works, finishes>>,
         \A w \in Workers : job[w] # NoJob =>
           (thread'[w] \in {"start", "work"} <=> thread[w] \in {"start", "work"}),
         mjob # NoJob => main' = main
  PROVE  Jobwise'
<1> NoJob \notin Jobs
  BY JobsAssumption
<1>1. UniqueJob'
  BY DEF JobInv, UniqueJob, InList, Held
<1>2. JobKept'
  BY DEF JobInv, JobKept, InList, Held
<1>3. JobProgress'
  BY DEF JobInv, JobProgress, InList, Held
<1> QED BY <1>1, <1>2, <1>3 DEF Jobwise

LEMMA AddStep == ASSUME JobInv, NEW j \in Jobs, Add(j) PROVE Jobwise'
<1> USE DEF Add, InList, Held, queue, history
<1>0. Types /\ LocalJobs /\ UniqueJob /\ JobKept /\ JobProgress /\ NoJob \notin Jobs
  BY JobsAssumption DEF JobInv, TypeOK
<1>1. /\ mjob = NoJob /\ ~InList(j) /\ ~Held(j)
      /\ works[j] = 0 /\ finishes[j] = 0
  BY <1>0 DEF LocalJobs, JobProgress
<1>2. /\ id_' = [id_ EXCEPT ![j] = job_count + 1] /\ id_'[j] > 0
      /\ status_done_' = [status_done_ EXCEPT ![j] = 0]
      /\ mjob' = j /\ main' = "movein"
      /\ UNCHANGED <<oy_job_list_, job, works, finishes>>
  BY <1>0 DEF Types
<1>3. ASSUME NEW w \in Workers, job[w] # NoJob PROVE thread'[w] = thread[w]
  BY <1>0, <1>3, NBaseAssumption DEF ThreadsInit, LocalJobs, Holding, Types
<1>4. UniqueJob'
  BY <1>0, <1>1, <1>2 DEF UniqueJob
<1>5. JobKept'
  <2> SUFFICES ASSUME NEW k \in Jobs, id_'[k] > 0, finishes'[k] = 0
               PROVE  InList(k)' \/ Held(k)' \/ mjob' = k
    BY DEF JobKept
  <2>1. CASE k = j
    BY <1>2, <2>1
  <2>2. CASE k # j
    <3>1. id_[k] > 0 /\ finishes[k] = 0
      BY <1>0, <1>2, <2>2 DEF Types
    <3>2. InList(k) \/ Held(k)
      BY <1>0, <1>1, <3>1, JobsAssumption DEF JobKept
    <3> QED BY <1>2, <3>2
  <2> QED BY <2>1, <2>2
<1>6. JobProgress'
  <2> SUFFICES ASSUME NEW k \in Jobs PROVE
        /\ finishes'[k] \in {0, 1}
        /\ finishes'[k] = 1 => works'[k] = 1 /\ status_done_'[k] = 1
        /\ id_'[k] = 0 => /\ works'[k] = 0 /\ finishes'[k] = 0 /\ status_done_'[k] = 0
                          /\ ~InList(k)' /\ ~Held(k)' /\ mjob' # k
        /\ InList(k)' => finishes'[k] = 0 /\ works'[k] = status_done_'[k]
        /\ mjob' = k => /\ finishes'[k] = 0
                        /\ works'[k] = (IF main' = "movein" THEN 0 ELSE 1)
                        /\ status_done_'[k] = works'[k]
        /\ \A w \in Workers : job'[w] = k =>
             /\ finishes'[k] = 0 /\ status_done_'[k] = 0
             /\ works'[k] = (IF thread'[w] \in {"start", "work"} THEN 0 ELSE 1)
    BY DEF JobProgress
  <2>1. CASE k = j
    BY <1>0, <1>1, <1>2, <2>1 DEF Types
  <2>2. CASE k # j
    BY <1>0, <1>1, <1>2, <1>3, <2>2 DEF Types, JobProgress
  <2> QED BY <2>1, <2>2
<1> QED BY <1>4, <1>5, <1>6 DEF Jobwise

LEMMA MoveInStep == ASSUME JobInv, MoveIn PROVE Jobwise'
<1> USE DEF MoveIn, InList, Held, members, history
<1>0. Types /\ LocalJobs /\ UniqueJob /\ JobKept /\ JobProgress /\ NoJob \notin Jobs
  BY JobsAssumption DEF JobInv, TypeOK
<1>1. mjob \in Jobs /\ ~InList(mjob) /\ ~Held(mjob)
  BY <1>0 DEF LocalJobs, UniqueJob, Types
<1>2. /\ Entries(oy_job_list_') = Entries(oy_job_list_) \cup {mjob}
      /\ Distinct(oy_job_list_')
  BY <1>0, <1>1, EntriesAppend DEF UniqueJob, Types
<1>3. UniqueJob'
  BY <1>0, <1>1, <1>2 DEF UniqueJob
<1>4. JobKept'
  BY <1>0, <1>1, <1>2 DEF JobKept
<1>5. JobProgress'
  BY <1>0, <1>1, <1>2 DEF JobProgress
<1> QED BY <1>3, <1>4, <1>5 DEF Jobwise

LEMMA GetDoneStep == ASSUME JobInv, GetDone PROVE Jobwise'
<1> USE DEF GetDone, InList, Held, members, history
<1>0. Types /\ LocalJobs /\ UniqueJob /\ JobKept /\ JobProgress /\ NoJob \notin Jobs
  BY JobsAssumption DEF JobInv, TypeOK
<1>1. mjob = NoJob
  BY <1>0 DEF LocalJobs
<1>2. CASE oy_job_list_ # << >> /\ status_done_[Last(oy_job_list_)] > 0
  <2> DEFINE j == Last(oy_job_list_)
  <2>0. oy_job_list_ \in Seq(Jobs) /\ Distinct(oy_job_list_) /\ oy_job_list_ # << >>
    BY <1>0, <1>2 DEF UniqueJob, Types
  <2>1. /\ j \in Jobs /\ InList(j)
        /\ Entries(oy_job_list_') = Entries(oy_job_list_) \ {j}
        /\ Distinct(oy_job_list_')
    <3>1. oy_job_list_' = ReleaseLast(oy_job_list_)
      BY <1>2
    <3>2. j \in Jobs
      BY <2>0, ReleaseLastProperties
    <3> QED BY <2>0, <3>1, <3>2, EntriesReleaseLast
  <2>2. status_done_[j] = 1 /\ mjob' = j /\ main' = "finish"
        /\ UNCHANGED <<id_, status_done_, thread, job, works, finishes>>
    BY <1>0, <1>2, <2>1 DEF Types
  <2> HIDE DEF j
  <2>3. UniqueJob'
    BY <1>0, <1>1, <2>1, <2>2 DEF UniqueJob
  <2>4. JobKept'
    BY <1>0, <1>1, <2>1, <2>2 DEF JobKept
  <2>5. JobProgress'
    BY <1>0, <1>1, <2>1, <2>2 DEF JobProgress
  <2> QED BY <2>3, <2>4, <2>5 DEF Jobwise
<1>3. CASE ~(oy_job_list_ # << >> /\ status_done_[Last(oy_job_list_)] > 0)
  BY <1>0, <1>1, <1>3, QuietStep
<1> QED BY <1>2, <1>3

LEMMA FinishStep == ASSUME JobInv, FinishJob PROVE Jobwise'
<1> USE DEF FinishJob, InList, Held, queue, members
<1>0. Types /\ LocalJobs /\ UniqueJob /\ JobKept /\ JobProgress /\ NoJob \notin Jobs
  BY JobsAssumption DEF JobInv, TypeOK
<1>1. /\ mjob \in Jobs /\ ~InList(mjob) /\ ~Held(mjob) /\ id_[mjob] # 0
      /\ works[mjob] = 1 /\ finishes[mjob] = 0 /\ status_done_[mjob] = 1
  BY <1>0 DEF LocalJobs, UniqueJob, Types, JobProgress
<1>2. /\ finishes'[mjob] = 1
      /\ \A j \in Jobs \ {mjob} : finishes'[j] = finishes[j]
  BY <1>0, <1>1 DEF Types
<1>3. UniqueJob'
  BY <1>0, <1>1 DEF UniqueJob
<1>4. JobKept'
  BY <1>0, <1>1, <1>2 DEF JobKept
<1>5. JobProgress'
  BY <1>0, <1>1, <1>2 DEF JobProgress
<1> QED BY <1>3, <1>4, <1>5 DEF Jobwise

LEMMA TakeStep == ASSUME JobInv, NEW w \in Workers, TakeJob(w) PROVE Jobwise'
<1> USE DEF TakeJob, Transition, InList, Held, members, history
<1> DEFINE j == Last(oy_job_list_)
<1>0. Types /\ LocalJobs /\ UniqueJob /\ JobKept /\ JobProgress /\ NoJob \notin Jobs
  BY JobsAssumption DEF JobInv, TypeOK
<1>1. /\ j \in Jobs /\ InList(j)
      /\ Entries(oy_job_list_') = Entries(oy_job_list_) \ {j}
      /\ Distinct(oy_job_list_')
  BY <1>0, ReleaseLastProperties, EntriesReleaseLast DEF UniqueJob, Types
<1>2. /\ status_done_[j] = 0 /\ job[w] = NoJob
      /\ job' = [job EXCEPT ![w] = j] /\ thread' = [thread EXCEPT ![w] = "start"]
      /\ UNCHANGED <<id_, status_done_, main, mjob, works, finishes>>
  BY <1>0 DEF LocalJobs, Holding
<1> HIDE DEF j
<1>3. job'[w] = j /\ thread'[w] = "start"
      /\ \A v \in Workers \ {w} : job'[v] = job[v] /\ thread'[v] = thread[v]
  BY <1>0, <1>2 DEF Types
<1>4. UniqueJob'
  BY <1>0, <1>1, <1>2, <1>3 DEF UniqueJob
<1>5. JobKept'
  BY <1>0, <1>1, <1>2, <1>3 DEF JobKept
<1>6. JobProgress'
  BY <1>0, <1>1, <1>2, <1>3 DEF JobProgress, UniqueJob
<1> QED BY <1>4, <1>5, <1>6 DEF Jobwise

LEMMA WorkStep == ASSUME JobInv, NEW w \in Workers, Work(w) PROVE Jobwise'
<1> USE DEF Work, Transition, InList, Held, members
<1>0. Types /\ LocalJobs /\ UniqueJob /\ JobKept /\ JobProgress /\ NoJob \notin Jobs
  BY JobsAssumption DEF JobInv, TypeOK
<1>1. /\ job[w] \in Jobs /\ Held(job[w]) /\ works[job[w]] = 0 /\ finishes[job[w]] = 0
      /\ id_[job[w]] # 0
  BY <1>0 DEF LocalJobs, Holding, Types, JobProgress
<1>2. /\ works'[job[w]] = 1 /\ thread'[w] = "done"
      /\ \A j \in Jobs \ {job[w]} : works'[j] = works[j]
      /\ \A v \in Workers \ {w} : thread'[v] = thread[v]
      /\ UNCHANGED <<oy_job_list_, id_, status_done_, main, mjob, job, finishes>>
  BY <1>0, <1>1 DEF Types
<1>3. UniqueJob'
  BY <1>0, <1>2 DEF UniqueJob
<1>4. JobKept'
  BY <1>0, <1>2 DEF JobKept
<1>5. JobProgress'
  BY <1>0, <1>1, <1>2 DEF JobProgress, UniqueJob
<1> QED BY <1>3, <1>4, <1>5 DEF Jobwise

LEMMA AddDoneStep == ASSUME JobInv, NEW w \in Workers, AddDone(w) PROVE Jobwise'
<1> USE DEF AddDone, Transition, InList, Held, history
<1> DEFINE j == job[w]
<1>0. Types /\ LocalJobs /\ UniqueJob /\ JobKept /\ JobProgress /\ NoJob \notin Jobs
  BY JobsAssumption DEF JobInv, TypeOK
<1>1. /\ j \in Jobs /\ Held(j) /\ ~InList(j) /\ mjob # j /\ id_[j] # 0
      /\ works[j] = 1 /\ finishes[j] = 0
  <2>1. thread[w] = "add" /\ j \in Jobs /\ Held(j)
    BY <1>0 DEF LocalJobs, Holding, Types
  <2>2. ~InList(j) /\ mjob # j
    BY <1>0, <2>1 DEF UniqueJob
  <2>3. works[j] = 1 /\ finishes[j] = 0 /\ id_[j] # 0
    BY <1>0, <2>1 DEF JobProgress
  <2> QED BY <2>1, <2>2, <2>3
<1>2. /\ Entries(oy_job_list_') = Entries(oy_job_list_) \cup {j}
      /\ Distinct(oy_job_list_')
  BY <1>0, <1>1, EntriesAppend DEF UniqueJob, Types
<1>3. /\ status_done_'[j] = 1 /\ job'[w] = NoJob
      /\ \A k \in Jobs \ {j} : status_done_'[k] = status_done_[k]
      /\ \A v \in Workers \ {w} : job'[v] = job[v] /\ thread'[v] = thread[v] /\ job[v] # j
      /\ UNCHANGED <<id_, main, mjob, works, finishes>>
  BY <1>0, <1>1 DEF Types, UniqueJob
<1> HIDE DEF j
<1>4. UniqueJob'
  BY <1>0, <1>1, <1>2, <1>3 DEF UniqueJob
<1>5. JobKept'
  BY <1>0, <1>1, <1>2, <1>3 DEF JobKept, j
<1>6. JobProgress'
  BY <1>0, <1>1, <1>2, <1>3 DEF JobProgress
<1> QED BY <1>4, <1>5, <1>6 DEF Jobwise

\* Every step keeps the invariant: one case for each action.
LEMMA JobStep == JobInv /\ [Next]_vars => JobInv'
<1> SUFFICES ASSUME JobInv, [Next]_vars PROVE Jobwise'
  BY TypeStep, LocalStep DEF JobInv, Jobwise, TypeOK
<1> USE DEF Transition, queue, members, history
<1>0. Types /\ LocalJobs
  BY DEF JobInv, TypeOK
<1>1. ASSUME NEW j \in Jobs, Add(j) PROVE Jobwise'
  BY <1>1, AddStep
<1>2. CASE MoveIn
  BY <1>2, MoveInStep
<1>3. CASE Signal
  BY <1>0, <1>3, QuietStep DEF Signal, Waiting, LocalJobs, Types
<1>4. CASE JobResult
  BY <1>0, <1>4, QuietStep DEF JobResult, LocalJobs
<1>5. CASE DrainMessage
  BY <1>0, <1>5, QuietStep DEF DrainMessage
<1>6. CASE DrainEnd
  BY <1>0, <1>6, QuietStep DEF DrainEnd, LocalJobs
<1>7. CASE GetDone
  BY <1>7, GetDoneStep
<1>8. CASE FinishJob
  BY <1>8, FinishStep
<1>9. ASSUME NEW w \in Workers, TakeJob(w) PROVE Jobwise'
  BY <1>9, TakeStep
<1>10. ASSUME NEW w \in Workers, Wait(w) PROVE Jobwise'
  BY <1>0, <1>10, QuietStep DEF Wait, Types
<1>11. ASSUME NEW w \in Workers, SpuriousWakeup(w) PROVE Jobwise'
  BY <1>0, <1>11, QuietStep DEF SpuriousWakeup, Types
<1>12. ASSUME NEW w \in Workers, Return(w) PROVE Jobwise'
  BY <1>0, <1>12, QuietStep DEF Return, Types
<1>13. ASSUME NEW w \in Workers, PostStart(w) PROVE Jobwise'
  BY <1>0, <1>13, QuietStep DEF PostStart, Types
<1>14. ASSUME NEW w \in Workers, Work(w) PROVE Jobwise'
  BY <1>14, WorkStep
<1>15. ASSUME NEW w \in Workers, PostDone(w) PROVE Jobwise'
  BY <1>0, <1>15, QuietStep DEF PostDone, Types
<1>16. ASSUME NEW w \in Workers, AddDone(w) PROVE Jobwise'
  BY <1>16, AddDoneStep
<1>17. CASE UNCHANGED vars
  BY <1>0, <1>17, QuietStep DEF vars
<1> QED BY <1>1, <1>2, <1>3, <1>4, <1>5, <1>6, <1>7, <1>8, <1>9, <1>10, <1>11,
           <1>12, <1>13, <1>14, <1>15, <1>16, <1>17
        DEF Next, MainNext, Poll, WorkerNext

LEMMA JobInit == Init => JobInv
<1> SUFFICES ASSUME Init PROVE JobInv
  OBVIOUS
<1>1. Types /\ LocalJobs
  BY JobsAssumption, WorkersNat, EmptySeq
     DEF Init, Types, LocalJobs, MainAt, ThreadAt, Messages, Holding, Workers
<1>2. Entries(oy_job_list_) = {} /\ Distinct(oy_job_list_)
  BY EmptySeq DEF Init, Entries, Distinct
<1>3. \A j \in Jobs : ~InList(j) /\ ~Held(j) /\ mjob # j
  BY <1>2, JobsAssumption DEF Init, InList, Held
<1>4. UniqueJob
  BY <1>2, <1>3 DEF Init, UniqueJob
<1>5. JobKept /\ JobProgress
  BY <1>3 DEF Init, JobKept, JobProgress, Held
<1> QED BY <1>1, <1>4, <1>5 DEF JobInv, TypeOK

THEOREM JobInvariant == Spec => []JobInv
BY JobInit, JobStep, PTL DEF Spec

\* A job is in one place at a time, whatever the interleaving.
THEOREM UniqueJobs == Spec => []UniqueJob
BY JobInvariant, PTL DEF JobInv

\* No job gets lost on its way.
THEOREM JobsKept == Spec => []JobKept
BY JobInvariant, PTL DEF JobInv

\* work() runs once, and finish() once and after it.
THEOREM WorkOnceThenFinish == Spec => []WorkThenFinish
<1>1. JobInv => WorkThenFinish
  <2> SUFFICES ASSUME JobInv, NEW j \in Jobs
               PROVE  /\ works[j] <= 1
                      /\ finishes[j] <= works[j]
                      /\ InList(j) => works[j] = status_done_[j] /\ finishes[j] = 0
                      /\ id_[j] = 0 => works[j] = 0
    BY DEF WorkThenFinish
  <2>0. /\ Types /\ JobKept /\ JobProgress
        /\ works[j] \in Nat /\ status_done_[j] \in {0, 1} /\ id_[j] \in Nat
    BY DEF JobInv, TypeOK, Types
  <2>1. CASE id_[j] = 0 \/ finishes[j] = 1
    BY <2>0, <2>1 DEF JobProgress
  <2>2. CASE id_[j] # 0 /\ finishes[j] = 0
    <3>1. InList(j) \/ Held(j) \/ mjob = j
      BY <2>0, <2>2 DEF JobKept
    <3> QED BY <2>0, <2>2, <3>1 DEF JobProgress, Held
  <2> QED BY <2>0, <2>1, <2>2 DEF JobProgress
<1> QED BY <1>1, JobInvariant, PTL

-----------------------------------------------------------------------------
(***************************************************************************)
(* What the workers owe to each other: enough of them for ordinary jobs,   *)
(* no lost wakeup, and the refinement of JobPool.                          *)
(***************************************************************************)

LEMMA SetsFinite ==
  /\ IsFiniteSet(Workers) /\ IsFiniteSet(Jobs) /\ IsFiniteSet(Persistent)
  /\ \A S \in SUBSET Workers : IsFiniteSet(S) /\ Cardinality(S) \in Nat
  /\ \A S \in SUBSET Jobs : IsFiniteSet(S) /\ Cardinality(S) \in Nat
  /\ \A S \in SUBSET Persistent : Cardinality(S) <= Cardinality(Persistent)
<1>1. IsFiniteSet(Workers)
  BY WorkersNat, FS_Interval DEF Workers
<1>2. IsFiniteSet(Jobs) /\ IsFiniteSet(Persistent)
  BY JobsAssumption, FS_Subset
<1>3. \A S \in SUBSET Workers : IsFiniteSet(S) /\ Cardinality(S) \in Nat
  BY <1>1, FS_Subset, FS_CardinalityType
<1>4. \A S \in SUBSET Jobs : IsFiniteSet(S) /\ Cardinality(S) \in Nat
  BY <1>2, FS_Subset, FS_CardinalityType
<1>5. \A S \in SUBSET Persistent : Cardinality(S) <= Cardinality(Persistent)
  BY <1>2, FS_Subset
<1> QED BY <1>1, <1>2, <1>3, <1>4, <1>5

-----------------------------------------------------------------------------
(* Workers are counted by the persistent jobs. *)

Added == {j \in Persistent : id_[j] > 0}
Ended == {w \in Workers : thread[w] = "exit"}
Back  == {j \in Persistent : status_done_[j] = 1}

LEMMA CountAdd ==
  ASSUME JobInv, ThreadsCounted, NEW j \in Jobs, Add(j) PROVE ThreadsCounted'
<1>0. Types /\ LocalJobs /\ JobProgress
  BY DEF JobInv, TypeOK
<1>1. /\ oy_threads_' = ThreadsAfter(j)
      /\ id_' = [id_ EXCEPT ![j] = job_count + 1]
      /\ id_[j] = 0 /\ job_count \in Nat /\ oy_threads_ \in Nat
      /\ NBase \in Nat \ {0} /\ Persistent \subseteq Jobs
  BY <1>0, NBaseAssumption, JobsAssumption DEF Add, ThreadsInit, Types
<1>2. Added' = IF j \in Persistent THEN Added \cup {j} ELSE Added
  BY <1>0, <1>1 DEF Added, Types
<1>3. /\ j \notin Added /\ IsFiniteSet(Added) /\ Cardinality(Added) \in Nat
      /\ oy_threads_ = 0 => Added = {}
  BY <1>1, JobsAssumption, SetsFinite DEF Added, ThreadsCounted
<1>4. Cardinality(Added') = IF j \in Persistent THEN Cardinality(Added) + 1 ELSE Cardinality(Added)
  BY <1>2, <1>3, FS_AddElement
<1>5. oy_threads_' = NBase + Cardinality(Added')
  BY <1>1, <1>3, <1>4, FS_EmptySet DEF ThreadsAfter, ThreadsCounted, Added
<1>6. oy_threads_' > 0
  BY <1>1, <1>3, <1>4, <1>5
<1>7. Ended' = Ended
  BY <1>0, WorkersNat, NBaseAssumption DEF Add, ThreadsInit, Ended, LocalJobs, Types
<1>8. Back' = Back
  BY <1>0, <1>1 DEF Add, Back, JobProgress, Types
<1>9. Cardinality(Ended') = Cardinality(Back')
  BY <1>7, <1>8 DEF ThreadsCounted, Ended, Back
<1> QED BY <1>5, <1>6, <1>9 DEF ThreadsCounted, Added, Ended, Back

LEMMA CountAddDone ==
  ASSUME JobInv, ThreadsCounted, NEW w \in Workers, AddDone(w) PROVE ThreadsCounted'
<1> DEFINE j == job[w]
<1>0. /\ Types /\ LocalJobs /\ JobProgress
      /\ Ended \in SUBSET Workers /\ Back \in SUBSET Jobs
  BY JobsAssumption DEF JobInv, TypeOK, Ended, Back
<1>1. /\ thread[w] = "add" /\ j \in Jobs /\ status_done_[j] = 0
      /\ UNCHANGED <<oy_threads_, id_>>
  BY <1>0 DEF AddDone, Transition, LocalJobs, Holding, JobProgress, Types
<1>2. CASE j \in Persistent
  <2>1. Ended' = Ended \cup {w} /\ w \notin Ended
    BY <1>0, <1>1, <1>2 DEF AddDone, Transition, Ended, Types
  <2>2. Back' = Back \cup {j} /\ j \notin Back
    BY <1>0, <1>1, <1>2 DEF AddDone, Back, Types
  <2>3. /\ Cardinality(Ended') = Cardinality(Ended) + 1
        /\ Cardinality(Back') = Cardinality(Back) + 1
    BY <1>0, <2>1, <2>2, SetsFinite, FS_AddElement
  <2> QED BY <1>1, <2>3 DEF ThreadsCounted, Ended, Back
<1>3. CASE j \notin Persistent
  <2>1. Ended' = Ended
    BY <1>0, <1>1, <1>3 DEF AddDone, Transition, Ended, Types
  <2>2. Back' = Back
    BY <1>0, <1>1, <1>3 DEF AddDone, Back, Types
  <2> QED BY <1>1, <2>1, <2>2 DEF ThreadsCounted, Ended, Back
<1> QED BY <1>2, <1>3

LEMMA CountQuiet ==
  ASSUME ThreadsCounted, UNCHANGED <<oy_threads_, id_, status_done_>>,
         \A w \in Workers : thread'[w] = "exit" <=> thread[w] = "exit"
  PROVE  ThreadsCounted'
BY DEF ThreadsCounted

LEMMA CountStep == JobInv /\ ThreadsCounted /\ [Next]_vars => ThreadsCounted'
<1> SUFFICES ASSUME JobInv, ThreadsCounted, [Next]_vars PROVE ThreadsCounted'
  OBVIOUS
<1> USE DEF Transition, members
<1>0. Types
  BY DEF JobInv, TypeOK
<1>1. ASSUME NEW j \in Jobs, Add(j) PROVE ThreadsCounted'
  BY <1>1, CountAdd
<1>2. ASSUME NEW w \in Workers, AddDone(w) PROVE ThreadsCounted'
  BY <1>2, CountAddDone
<1>3. CASE MoveIn \/ Poll
  BY <1>3, CountQuiet DEF MoveIn, Poll, JobResult, DrainMessage, DrainEnd, GetDone, FinishJob
<1>4. CASE Signal
  BY <1>0, <1>4, CountQuiet DEF Signal, Waiting, Types
<1>5. ASSUME NEW w \in Workers, WorkerNext(w) \/ SpuriousWakeup(w), ~AddDone(w)
      PROVE  ThreadsCounted'
  BY <1>0, <1>5, CountQuiet DEF WorkerNext, SpuriousWakeup, TakeJob, Wait, Return,
                                PostStart, Work, PostDone, Types
<1>6. CASE UNCHANGED vars
  BY <1>6, CountQuiet DEF vars
<1> QED BY <1>1, <1>2, <1>3, <1>4, <1>5, <1>6 DEF Next, MainNext

Created  == {w \in Workers : thread[w] # "none"}
Busy     == {w \in Workers : job[w] \in Persistent}
Ordinary == {w \in Workers : thread[w] \notin {"none", "exit"} /\ job[w] \notin Persistent}
Taken    == {j \in Persistent : Held(j)}

\* Persistent jobs that were added and wait for a worker.
Spare == Added \ (Taken \cup Back)

LEMMA AccountSets ==
  /\ IsFiniteSet(Created) /\ IsFiniteSet(Busy) /\ IsFiniteSet(Ordinary) /\ IsFiniteSet(Ended)
  /\ IsFiniteSet(Taken) /\ IsFiniteSet(Added) /\ IsFiniteSet(Back) /\ IsFiniteSet(Spare)
<1>1. /\ Created \in SUBSET Workers /\ Busy \in SUBSET Workers
      /\ Ordinary \in SUBSET Workers /\ Ended \in SUBSET Workers
  BY DEF Created, Busy, Ordinary, Ended
<1>2. /\ Taken \in SUBSET Jobs /\ Added \in SUBSET Jobs /\ Back \in SUBSET Jobs
      /\ Spare \in SUBSET Jobs
  BY JobsAssumption DEF Taken, Added, Back, Spare
<1> QED BY <1>1, <1>2, SetsFinite

LEMMA BusyTaken == JobInv => Cardinality(Busy) = Cardinality(Taken)
<1> SUFFICES ASSUME JobInv PROVE Cardinality(Busy) = Cardinality(Taken)
  OBVIOUS
<1>0. UniqueJob /\ Types /\ NoJob \notin Persistent
  BY JobsAssumption DEF JobInv, TypeOK
<1> DEFINE f == [w \in Busy |-> job[w]]
<1>1. f \in Injection(Busy, Taken) /\ f \in Surjection(Busy, Taken)
  BY <1>0 DEF Injection, IsInjective, Surjection, UniqueJob, Held, Busy, Taken
<1> HIDE DEF f
<1> QED BY <1>1, AccountSets, FS_Injection

LEMMA DisjointUnion ==
  ASSUME NEW S, NEW T, IsFiniteSet(S), IsFiniteSet(T), S \cap T = {}
  PROVE  /\ IsFiniteSet(S \cup T)
         /\ Cardinality(S) \in Nat /\ Cardinality(T) \in Nat
         /\ Cardinality(S \cup T) = Cardinality(S) + Cardinality(T)
<1>1. Cardinality(S) \in Nat /\ Cardinality(T) \in Nat
  BY FS_CardinalityType
<1>2. /\ IsFiniteSet(S \cup T)
      /\ Cardinality(S \cup T) = Cardinality(S) + Cardinality(T) - Cardinality(S \cap T)
  BY FS_Union
<1>3. Cardinality(S \cap T) = 0
  BY FS_EmptySet, Zenon
<1> QED BY <1>1, <1>2, <1>3

\* A worker that is not there for ordinary jobs stands for a persistent one that
\* was added and has not come back, or has ended for one that has.
LEMMA Account ==
  JobInv /\ ThreadsCounted /\ oy_threads_ > 0 =>
    /\ Cardinality(Spare) \in Nat
    /\ Cardinality(Ordinary) = NBase + Cardinality(Spare)
<1> SUFFICES ASSUME JobInv, ThreadsCounted, oy_threads_ > 0
             PROVE  /\ Cardinality(Spare) \in Nat
                    /\ Cardinality(Ordinary) = NBase + Cardinality(Spare)
  OBVIOUS
<1>0. /\ Types /\ LocalJobs /\ JobProgress /\ NoJob \notin Jobs
      /\ Persistent \subseteq Jobs /\ NBase \in Nat /\ oy_threads_ \in Nat
  BY JobsAssumption, WorkersNat DEF JobInv, TypeOK, Types
<1>1. oy_threads_ = NBase + Cardinality(Added) /\ Cardinality(Ended) = Cardinality(Back)
  BY DEF ThreadsCounted, Added, Ended, Back
<1>2. Cardinality(Created) = oy_threads_
  <2>1. Added \in SUBSET Persistent
    BY DEF Added
  <2>2. oy_threads_ <= NBase + Cardinality(Persistent)
    <3>1. Cardinality(Added) <= Cardinality(Persistent)
      BY <2>1, SetsFinite
    <3>2. Cardinality(Added) \in Nat /\ Cardinality(Persistent) \in Nat
      BY <1>0, <2>1, SetsFinite
    <3> QED BY <1>0, <1>1, <3>1, <3>2
  <2>3. Created = 1 .. oy_threads_
    BY <1>0, <2>2, WorkersNat DEF LocalJobs, Workers, Created
  <2>4. Cardinality(1 .. oy_threads_) = oy_threads_
    BY <1>0, FS_Interval
  <2> QED BY <2>3, <2>4, Zenon
<1>3. Cardinality(Created) = Cardinality(Ordinary) + Cardinality(Ended) + Cardinality(Busy)
  <2>1. /\ Created = Ordinary \cup (Ended \cup Busy)
        /\ Ordinary \cap (Ended \cup Busy) = {}
        /\ Ended \cap Busy = {}
    BY <1>0 DEF LocalJobs, Holding, Created, Ordinary, Ended, Busy
  <2>2. /\ IsFiniteSet(Ended \cup Busy)
        /\ Cardinality(Ended \cup Busy) = Cardinality(Ended) + Cardinality(Busy)
        /\ Cardinality(Ended) \in Nat /\ Cardinality(Busy) \in Nat
    BY <2>1, AccountSets, DisjointUnion
  <2>3. /\ Cardinality(Created) = Cardinality(Ordinary) + Cardinality(Ended \cup Busy)
        /\ Cardinality(Ordinary) \in Nat
    BY <2>1, <2>2, AccountSets, DisjointUnion
  <2> QED BY <2>2, <2>3
<1>4. Cardinality(Added) = Cardinality(Spare) + Cardinality(Taken) + Cardinality(Back)
  <2>1. /\ Added = Spare \cup (Taken \cup Back)
        /\ Spare \cap (Taken \cup Back) = {}
        /\ Taken \cap Back = {}
    BY <1>0 DEF Spare, Taken, Back, Added, Held, JobProgress, Types
  <2>2. /\ IsFiniteSet(Taken \cup Back)
        /\ Cardinality(Taken \cup Back) = Cardinality(Taken) + Cardinality(Back)
        /\ Cardinality(Taken) \in Nat /\ Cardinality(Back) \in Nat
    BY <2>1, AccountSets, DisjointUnion
  <2>3. /\ Cardinality(Added) = Cardinality(Spare) + Cardinality(Taken \cup Back)
        /\ Cardinality(Spare) \in Nat
    BY <2>1, <2>2, AccountSets, DisjointUnion
  <2> QED BY <2>2, <2>3
<1>5. /\ Cardinality(Spare) \in Nat /\ Cardinality(Taken) \in Nat /\ Cardinality(Back) \in Nat
      /\ Cardinality(Ordinary) \in Nat /\ Cardinality(Ended) \in Nat /\ Cardinality(Busy) \in Nat
  BY AccountSets, FS_CardinalityType
<1> QED BY <1>0, <1>1, <1>2, <1>3, <1>4, <1>5, BusyTaken

LEMMA EnoughWorkers == JobInv /\ ThreadsCounted => OrdinaryWorkers
<1> SUFFICES ASSUME JobInv, ThreadsCounted, oy_threads_ > 0
             PROVE  NBase <= Cardinality(Ordinary)
  BY DEF OrdinaryWorkers, Ordinary
<1> QED BY Account, NBaseAssumption

-----------------------------------------------------------------------------
(* Wakeups.  Each new job wakes a sleeping worker, if there is one; otherwise *)
(* there are enough workers awake.                                            *)

LEMMA WakeTypes ==
  /\ IsFiniteSet(ToBeDone) /\ Cardinality(ToBeDone) \in Nat
  /\ IsFiniteSet(Attentive) /\ Cardinality(Attentive) \in Nat
  /\ IsFiniteSet(ToBeDone') /\ Cardinality(ToBeDone') \in Nat
  /\ IsFiniteSet(Attentive') /\ Cardinality(Attentive') \in Nat
<1>1. /\ ToBeDone \in SUBSET Jobs /\ Attentive \in SUBSET Workers
      /\ ToBeDone' \in SUBSET Jobs /\ Attentive' \in SUBSET Workers
  BY DEF ToBeDone, Attentive
<1> QED BY <1>1, SetsFinite

\* Nothing is to be done while the list is empty.
LEMMA NothingToDo == oy_job_list_ = << >> => ToBeDone = {}
BY EmptySeq DEF ToBeDone, InList, Entries

\* A step that gives nobody more to do keeps the account if it loses no worker,
\* puts nobody to sleep and sends no signal.
LEMMA WakeQuiet ==
  ASSUME JobInv, WakeupsPending,
         ToBeDone' \subseteq ToBeDone, Attentive \subseteq Attentive',
         Waiting' \subseteq Waiting, main = "signal" => main' = "signal"
  PROVE  WakeupsPending'
<1>1. /\ Cardinality(ToBeDone') <= Cardinality(ToBeDone)
      /\ Cardinality(Attentive) <= Cardinality(Attentive')
  BY WakeTypes, FS_Subset
<1>2. /\ Cardinality(ToBeDone') \in Nat /\ Cardinality(ToBeDone) \in Nat
      /\ Cardinality(Attentive') \in Nat /\ Cardinality(Attentive) \in Nat
  BY WakeTypes
<1> QED BY <1>1, <1>2 DEF WakeupsPending

LEMMA WakeMoveIn ==
  ASSUME JobInv, WakeupsPending, MoveIn PROVE WakeupsPending'
<1>0. /\ Types /\ LocalJobs /\ UniqueJob /\ JobProgress
  BY DEF JobInv, TypeOK
<1>1. mjob \in Jobs /\ main = "movein" /\ main' = "signal" /\ Waiting' = Waiting
  BY <1>0 DEF MoveIn, LocalJobs, Types, Waiting
<1>2. Entries(oy_job_list_') = Entries(oy_job_list_) \cup {mjob}
  BY <1>0, <1>1, EntriesAppend DEF MoveIn, Types
<1>3. ToBeDone' \subseteq ToBeDone \cup {mjob}
  BY <1>2 DEF ToBeDone, InList, MoveIn, members
<1>4. Attentive' = Attentive
  BY DEF MoveIn, Attentive
<1>5. Cardinality(ToBeDone') <= Cardinality(ToBeDone) + 1
  <2>1. /\ IsFiniteSet(ToBeDone \cup {mjob})
        /\ Cardinality(ToBeDone \cup {mjob}) <= Cardinality(ToBeDone) + 1
    <3>1. /\ IsFiniteSet(ToBeDone \cup {mjob})
          /\ Cardinality(ToBeDone \cup {mjob}) =
               IF mjob \in ToBeDone THEN Cardinality(ToBeDone) ELSE Cardinality(ToBeDone) + 1
      BY WakeTypes, FS_AddElement
    <3> QED BY <3>1, WakeTypes
  <2>2. /\ Cardinality(ToBeDone') <= Cardinality(ToBeDone \cup {mjob})
        /\ Cardinality(ToBeDone \cup {mjob}) \in Nat
    BY <1>3, <2>1, FS_Subset, FS_CardinalityType
  <2> QED BY <2>1, <2>2, WakeTypes
<1>6. /\ Cardinality(ToBeDone') \in Nat /\ Cardinality(ToBeDone) \in Nat
      /\ Cardinality(Attentive) \in Nat
  BY WakeTypes
<1> QED BY <1>1, <1>4, <1>5, <1>6 DEF WakeupsPending

LEMMA WakeSignal ==
  ASSUME JobInv, WakeupsPending, Signal PROVE WakeupsPending'
<1>0. Types /\ LocalJobs
  BY DEF JobInv, TypeOK
<1>1. main = "signal" /\ main' = "idle" /\ ToBeDone' = ToBeDone
  BY DEF Signal, ToBeDone, InList, queue, members
<1>2. CASE Waiting = {}
  BY <1>2 DEF Signal, Waiting, WakeupsPending
<1>3. CASE Waiting # {}
  <2>1. PICK w \in Waiting : thread' = [thread EXCEPT ![w] = "woken"]
    BY <1>3 DEF Signal
  <2>2. w \notin Attentive /\ Attentive' = Attentive \cup {w}
    BY <1>0, <2>1 DEF Signal, Attentive, Waiting, Holding, Types
  <2>3. Cardinality(Attentive') = Cardinality(Attentive) + 1
    BY <2>2, WakeTypes, FS_AddElement
  <2>4. Cardinality(ToBeDone) \in Nat /\ Cardinality(Attentive) \in Nat
    BY WakeTypes
  <2> QED BY <1>1, <1>3, <2>3, <2>4 DEF WakeupsPending
<1> QED BY <1>2, <1>3

LEMMA WakeTake ==
  ASSUME JobInv, WakeupsPending, NEW w \in Workers, TakeJob(w)
  PROVE  WakeupsPending'
<1> DEFINE j == Last(oy_job_list_)
<1>0. Types /\ LocalJobs /\ UniqueJob
  BY DEF JobInv, TypeOK
<1>1. /\ j \in Jobs /\ InList(j)
      /\ Entries(oy_job_list_') = Entries(oy_job_list_) \ {j}
  BY <1>0, ReleaseLastProperties, EntriesReleaseLast DEF TakeJob, UniqueJob, Types, InList
<1>2. j \in ToBeDone /\ ToBeDone' = ToBeDone \ {j}
  BY <1>1 DEF TakeJob, ToBeDone, InList, members
<1>3. Cardinality(ToBeDone') = Cardinality(ToBeDone) - 1
  BY <1>2, WakeTypes, FS_RemoveElement
<1>4. Attentive \ {w} \subseteq Attentive'
  BY <1>0 DEF TakeJob, Transition, Attentive, Types
<1>5. Cardinality(Attentive) - 1 <= Cardinality(Attentive')
  <2>1. Cardinality(Attentive) - 1 <= Cardinality(Attentive \ {w})
    <3>1. Cardinality(Attentive \ {w}) =
            IF w \in Attentive THEN Cardinality(Attentive) - 1 ELSE Cardinality(Attentive)
      BY WakeTypes, FS_RemoveElement
    <3> QED BY <3>1, WakeTypes
  <2>2. /\ Cardinality(Attentive \ {w}) <= Cardinality(Attentive')
        /\ Cardinality(Attentive \ {w}) \in Nat
    BY <1>4, WakeTypes, FS_Subset, FS_CardinalityType
  <2> QED BY <2>1, <2>2, WakeTypes
<1>6. Waiting' \subseteq Waiting /\ main' = main
  BY <1>0 DEF TakeJob, Transition, Waiting, Types
<1>7. /\ Cardinality(ToBeDone) \in Nat
      /\ Cardinality(Attentive) \in Nat /\ Cardinality(Attentive') \in Nat
  BY WakeTypes
<1> QED BY <1>3, <1>5, <1>6, <1>7 DEF WakeupsPending

LEMMA WakeStep ==
  JobInv /\ WakeupsPending /\ [Next]_vars => WakeupsPending'
<1> SUFFICES ASSUME JobInv, WakeupsPending, [Next]_vars PROVE WakeupsPending'
  OBVIOUS
<1> USE DEF Transition, queue, members, history
<1>0. Types /\ LocalJobs /\ UniqueJob /\ JobProgress
  BY DEF JobInv, TypeOK
<1>1. ASSUME NEW j \in Jobs, Add(j) PROVE WakeupsPending'
  <2>1. ToBeDone' \subseteq ToBeDone
    BY <1>0, <1>1 DEF Add, ToBeDone, InList, JobProgress, Types
  <2>2. \A w \in Workers : thread[w] # "none" => thread'[w] = thread[w]
    BY <1>0, <1>1, WorkersNat DEF Add, ThreadsInit, LocalJobs, Types
  <2>3. Attentive \subseteq Attentive'
    BY <1>1, <2>2 DEF Add, Attentive, Holding
  <2>4. Waiting' \subseteq Waiting
    BY <1>1 DEF Add, ThreadsInit, Waiting
  <2> QED BY <1>1, <2>1, <2>3, <2>4, WakeQuiet DEF Add
<1>2. CASE MoveIn
  BY <1>2, WakeMoveIn
<1>3. CASE Signal
  BY <1>3, WakeSignal
<1>4. CASE Poll
  <2>1. ToBeDone' \subseteq ToBeDone
    <3>1. Entries(oy_job_list_') \subseteq Entries(oy_job_list_)
      BY <1>0, <1>4, EntriesReleaseLast
         DEF Poll, JobResult, DrainMessage, DrainEnd, GetDone, FinishJob, UniqueJob, Types
    <3> QED BY <1>4, <3>1 DEF Poll, JobResult, DrainMessage, DrainEnd, GetDone, FinishJob,
                              ToBeDone, InList
  <2>2. Attentive' = Attentive /\ Waiting' = Waiting /\ main # "signal"
    BY <1>4 DEF Poll, JobResult, DrainMessage, DrainEnd, GetDone, FinishJob, Attentive, Waiting
  <2> QED BY <2>1, <2>2, WakeQuiet
<1>5. ASSUME NEW w \in Workers, TakeJob(w) PROVE WakeupsPending'
  BY <1>5, WakeTake
<1>6. ASSUME NEW w \in Workers, Wait(w) PROVE WakeupsPending'
  <2>1. ToBeDone' = {}
    BY <1>6, NothingToDo DEF Wait, ToBeDone, InList
  <2>2. Cardinality(ToBeDone') = 0 /\ Cardinality(Attentive') \in Nat
    BY <2>1, FS_EmptySet, WakeTypes
  <2> QED BY <2>2 DEF WakeupsPending
<1>7. ASSUME NEW w \in Workers,
             SpuriousWakeup(w) \/ Return(w) \/ PostStart(w) \/ Work(w) \/ PostDone(w)
      PROVE  WakeupsPending'
  <2>1. ToBeDone' = ToBeDone /\ main' = main
    BY <1>7 DEF SpuriousWakeup, Return, PostStart, Work, PostDone, ToBeDone, InList
  <2>2. Attentive \subseteq Attentive' /\ Waiting' \subseteq Waiting
    BY <1>0, <1>7 DEF SpuriousWakeup, Return, PostStart, Work, PostDone, Attentive, Waiting,
                      Holding, Types
  <2> QED BY <2>1, <2>2, WakeQuiet
<1>8. ASSUME NEW w \in Workers, AddDone(w) PROVE WakeupsPending'
  <2>0. job[w] \in Jobs
    BY <1>0, <1>8 DEF AddDone, LocalJobs, Holding, Types
  <2>1. ToBeDone' \subseteq ToBeDone
    <3>1. Entries(oy_job_list_') = Entries(oy_job_list_) \cup {job[w]}
      BY <1>0, <1>8, <2>0, EntriesAppend DEF AddDone, Types
    <3> QED BY <1>0, <1>8, <2>0, <3>1 DEF AddDone, ToBeDone, InList, Types
  <2>2. Attentive \subseteq Attentive' /\ Waiting' \subseteq Waiting /\ main' = main
    BY <1>0, <1>8 DEF AddDone, Attentive, Waiting, Holding, Types
  <2> QED BY <2>1, <2>2, WakeQuiet
<1>9. CASE UNCHANGED vars
  BY <1>9, WakeQuiet DEF vars, ToBeDone, InList, Attentive, Waiting
<1> QED BY <1>1, <1>2, <1>3, <1>4, <1>5, <1>6, <1>7, <1>8, <1>9
        DEF Next, MainNext, WorkerNext

\* Somebody is awake if nobody sleeps, since there are ordinary workers.
LEMMA SomebodyLooks ==
  JobInv /\ ThreadsCounted /\ WakeupsPending => NoLostWakeup
<1> SUFFICES ASSUME JobInv, ThreadsCounted, WakeupsPending,
                    NEW i \in 1 .. Len(oy_job_list_), status_done_[oy_job_list_[i]] = 0,
                    main # "signal"
             PROVE  Attentive # {}
  BY DEF NoLostWakeup
<1> DEFINE j == oy_job_list_[i]
<1>0. Types /\ LocalJobs /\ JobProgress
  BY DEF JobInv, TypeOK
<1>1. j \in ToBeDone
  BY <1>0, ElementOfSeq DEF ToBeDone, InList, Entries, Types
<1>2. CASE Waiting # {}
  <2>1. Cardinality(ToBeDone) # 0 /\ Cardinality(ToBeDone) <= Cardinality(Attentive)
    BY <1>1, <1>2, WakeTypes, FS_EmptySet DEF WakeupsPending
  <2> QED BY <2>1, WakeTypes, FS_EmptySet
<1>3. CASE Waiting = {}
  <2>1. oy_threads_ > 0
    BY <1>0, <1>1 DEF ThreadsCounted, JobProgress, ToBeDone, Types
  <2>2. NBase <= Cardinality(Ordinary)
    BY <2>1, EnoughWorkers DEF OrdinaryWorkers, Ordinary
  <2>3. Ordinary \subseteq Attentive
    BY <1>0, <1>3 DEF Attentive, Waiting, Holding, ThreadAt, Types, Ordinary
  <2>4. Ordinary # {}
    <3>1. Cardinality({}) = 0 /\ NBase \in Nat /\ NBase # 0
      BY NBaseAssumption, FS_EmptySet
    <3> QED BY <2>2, <3>1
  <2> QED BY <2>3, <2>4
<1> QED BY <1>2, <1>3

LEMMA WorkersInit == Init => ThreadsCounted /\ WakeupsPending
<1> SUFFICES ASSUME Init PROVE ThreadsCounted /\ WakeupsPending
  OBVIOUS
<1>1. Ended = {} /\ Back = {}
  BY JobsAssumption DEF Init, Ended, Back
<1>2. ThreadsCounted
  <2>1. Cardinality(Ended) = Cardinality(Back)
    BY <1>1
  <2> QED BY <2>1 DEF Init, ThreadsCounted, Ended, Back
<1>3. Waiting = {}
  BY DEF Init, Waiting
<1> QED BY <1>2, <1>3 DEF WakeupsPending

\* The account of workers and the account of wakeups hold in every state.
THEOREM WorkersInvariant == Spec => [](JobInv /\ ThreadsCounted /\ WakeupsPending)
BY JobInit, WorkersInit, JobStep, CountStep, WakeStep, PTL DEF Spec

\* Persistent jobs take no worker away from the others: with any set of jobs
\* and any order of the threads, NBase workers of oyJobWorker() remain that are
\* not busy with a persistent job.
THEOREM OrdinaryWorkersRemain == Spec => []OrdinaryWorkers
BY WorkersInvariant, EnoughWorkers, PTL

\* No lost wakeup: signals sent while nobody waits, jobs put back without a
\* signal and waits without a loop never leave a job in the list with all
\* workers asleep.
THEOREM NoWakeupLost == Spec => []NoLostWakeup
BY WorkersInvariant, SomebodyLooks, PTL

-----------------------------------------------------------------------------
(* The queue implements JobPool.                                             *)

\* A job does not change its phase as long as the calls of its callbacks do
\* not, and a job not yet worked on stays where it is.
LEMMA PhaseQuiet ==
  ASSUME works' = works, finishes' = finishes,
         \A j \in Jobs : works[j] = 0 /\ finishes[j] = 0 =>
           (Held(j)' <=> Held(j)) /\ (Submitted(j)' <=> Submitted(j))
  PROVE  PoolPhases' = PoolPhases
<1>1. \A j \in Jobs : PoolPhase(j)' = PoolPhase(j)
  BY DEF PoolPhase
<1> QED BY <1>1 DEF PoolPhases

\* One job changes its phase.
LEMMA PhaseAdvance ==
  ASSUME NEW j \in Jobs, NEW from, NEW to,
         PoolPhase(j) = from, PoolPhase(j)' = to,
         \A k \in Jobs \ {j} : PoolPhase(k)' = PoolPhase(k)
  PROVE  Pool!Advance(j, from, to)
BY DEF Pool!Advance, PoolPhases

\* The phase of a job that is not yet worked on.
LEMMA PhaseFresh ==
  ASSUME JobInv, NEW j \in Jobs
  PROVE  /\ PoolPhase(j) = "running" <=> works[j] = 0 /\ Held(j)
         /\ PoolPhase(j) = "queued" <=> works[j] = 0 /\ Submitted(j)
         /\ PoolPhase(j) = "new" <=> id_[j] = 0
<1>0. /\ Types /\ UniqueJob /\ JobKept /\ JobProgress
      /\ works[j] \in Nat /\ finishes[j] \in Nat /\ id_[j] \in Nat
  BY DEF JobInv, TypeOK, Types
<1>1. Held(j) => works[j] \in {0, 1} /\ finishes[j] = 0 /\ ~InList(j) /\ mjob # j /\ id_[j] # 0
  BY <1>0 DEF JobProgress, UniqueJob, Held
<1>2. Submitted(j) => finishes[j] = 0 /\ id_[j] # 0 /\ ~Held(j)
  BY <1>0 DEF JobProgress, UniqueJob, Submitted
<1>3. finishes[j] > 0 => works[j] > 0 /\ id_[j] # 0
  BY <1>0 DEF JobProgress
<1>4. id_[j] = 0 => finishes[j] = 0 /\ works[j] = 0 /\ ~Held(j) /\ ~Submitted(j)
  BY <1>0 DEF JobProgress, Submitted
<1>5. id_[j] # 0 /\ finishes[j] = 0 /\ works[j] = 0 => Held(j) \/ Submitted(j)
  BY <1>0 DEF JobKept, JobProgress, Submitted
<1> QED BY <1>0, <1>1, <1>2, <1>3, <1>4, <1>5 DEF PoolPhase

\* While a worker takes a job, the workers of the pool are not all taken.
LEMMA PoolHasRoom ==
  ASSUME JobInv, ThreadsCounted, NEW w \in Workers, thread[w] = "get"
  PROVE  Cardinality(Pool!InPhase({"running"})) < Pool!Capacity
<1> DEFINE Run == Pool!InPhase({"running"})
           Due == Pool!InPhase({"queued", "running"}) \cap Persistent
           Others == Ordinary \ {w}
           Image == {job[v] : v \in Others}
<1>0. /\ Types /\ LocalJobs /\ UniqueJob /\ JobKept /\ JobProgress
      /\ NoJob \notin Jobs /\ Persistent \subseteq Jobs /\ NBase \in Nat
  BY JobsAssumption, WorkersNat DEF JobInv, TypeOK
<1>1. /\ Run = {j \in Jobs : works[j] = 0 /\ Held(j)}
      /\ Due = {j \in Persistent : works[j] = 0 /\ (Held(j) \/ Submitted(j))}
  BY <1>0, PhaseFresh DEF Pool!InPhase, PoolPhases
<1>2. oy_threads_ > 0 /\ job[w] = NoJob /\ w \in Ordinary
  <2>1. w \in Nat /\ w >= 1 /\ oy_threads_ \in Nat /\ ~(oy_threads_ < w)
    BY <1>0, WorkersNat DEF LocalJobs, Types, Workers
  <2>2. job[w] = NoJob
    BY <1>0 DEF LocalJobs, Holding
  <2> QED BY <1>0, <2>1, <2>2 DEF Ordinary
<1>3. /\ Cardinality(Spare) \in Nat
      /\ Cardinality(Ordinary) = NBase + Cardinality(Spare)
  BY <1>2, Account
<1>4. /\ IsFiniteSet(Others)
      /\ Cardinality(Others) = Cardinality(Ordinary) - 1
      /\ Cardinality(Others) \in Nat
  BY <1>2, AccountSets, FS_RemoveElement, FS_CardinalityType
<1>5. IsFiniteSet(Image) /\ Cardinality(Image) <= Cardinality(Others)
  <2> DEFINE f == [v \in Others |-> job[v]]
  <2>1. f \in Surjection(Others, Image)
    BY DEF Surjection
  <2> HIDE DEF f, Others, Image
  <2> QED BY <1>4, <2>1, FS_Surjection
<1>6. Run \ Persistent \subseteq Image
  BY <1>0, <1>1, <1>2 DEF Held, Ordinary, LocalJobs, Holding
<1>7. (Run \cap Persistent) \cup Spare \subseteq Due /\ (Run \cap Persistent) \cap Spare = {}
  BY <1>0, <1>1 DEF Spare, Added, Taken, Back, JobKept, JobProgress, Submitted, Types
<1>8. /\ Run = (Run \cap Persistent) \cup (Run \ Persistent)
      /\ (Run \cap Persistent) \cap (Run \ Persistent) = {}
      /\ Run \cap Persistent \in SUBSET Jobs /\ Run \ Persistent \in SUBSET Jobs
      /\ Due \in SUBSET Jobs
  BY <1>0, <1>1
<1>9. Pool!Capacity = NBase + Cardinality(Due)
  BY Zenon DEF Pool!Capacity, Pool!InPhase, Pool!Cardinality, Cardinality
<1> HIDE DEF Run, Due, Others, Image
<1>10. /\ Cardinality(Run) = Cardinality(Run \cap Persistent) + Cardinality(Run \ Persistent)
       /\ Cardinality(Run \cap Persistent) \in Nat /\ Cardinality(Run \ Persistent) \in Nat
  BY <1>8, SetsFinite, DisjointUnion
<1>11. Cardinality(Run \ Persistent) <= Cardinality(Image) /\ Cardinality(Image) \in Nat
  BY <1>5, <1>6, FS_Subset, FS_CardinalityType
<1>12. /\ Cardinality((Run \cap Persistent) \cup Spare)
             = Cardinality(Run \cap Persistent) + Cardinality(Spare)
       /\ Cardinality((Run \cap Persistent) \cup Spare) <= Cardinality(Due)
       /\ Cardinality(Due) \in Nat
  <2>1. /\ Cardinality((Run \cap Persistent) \cup Spare)
             = Cardinality(Run \cap Persistent) + Cardinality(Spare)
    BY <1>7, <1>8, SetsFinite, AccountSets, DisjointUnion
  <2>2. IsFiniteSet(Due) /\ Cardinality(Due) \in Nat
    BY <1>8, SetsFinite
  <2> QED BY <1>7, <2>1, <2>2, FS_Subset
<1>13. Cardinality(Run) < NBase + Cardinality(Due)
  BY <1>0, <1>3, <1>4, <1>5, <1>10, <1>11, <1>12
<1> QED BY <1>9, <1>13 DEF Run

LEMMA SubmitStep ==
  ASSUME JobInv, NEW j \in Jobs, Add(j) PROVE Pool!Submit(j)
<1>0. Types /\ JobProgress
  BY DEF JobInv, TypeOK
<1>1. /\ main = "idle" /\ main' = "movein" /\ mjob' = j /\ id_[j] = 0
      /\ works' = works /\ finishes' = finishes /\ job' = job /\ oy_job_list_' = oy_job_list_
  BY DEF Add, queue, history
<1>2. \A k \in Jobs : (Held(k)' <=> Held(k)) /\ (InList(k)' <=> InList(k))
  BY <1>1 DEF Held, InList
<1>3. /\ works[j] = 0 /\ finishes[j] = 0 /\ ~Held(j) /\ ~Submitted(j)
      /\ Submitted(j)'
  BY <1>0, <1>1 DEF JobProgress, Submitted
<1>4. PoolPhase(j) = "new" /\ PoolPhase(j)' = "queued"
  BY <1>1, <1>2, <1>3 DEF PoolPhase
<1>5. \A k \in Jobs \ {j} : Submitted(k)' <=> Submitted(k)
  BY <1>1, <1>2 DEF Submitted
<1>6. \A k \in Jobs \ {j} : PoolPhase(k)' = PoolPhase(k)
  BY <1>1, <1>2, <1>5 DEF PoolPhase
<1> QED BY <1>4, <1>6, PhaseAdvance DEF Pool!Submit

LEMMA StartStep ==
  ASSUME JobInv, ThreadsCounted, NEW w \in Workers, TakeJob(w),
         NEW j \in Jobs, j = Last(oy_job_list_)
  PROVE  Pool!Start(j)
<1>0. Types /\ LocalJobs /\ UniqueJob /\ JobProgress
  BY DEF JobInv, TypeOK
<1>1. /\ InList(j)
      /\ Entries(oy_job_list_') = Entries(oy_job_list_) \ {j}
  BY <1>0, ReleaseLastProperties, EntriesReleaseLast DEF TakeJob, UniqueJob, Types, InList
<1>2. /\ thread[w] = "get" /\ status_done_[j] = 0 /\ job' = [job EXCEPT ![w] = j]
      /\ works' = works /\ finishes' = finishes /\ main' = main /\ mjob' = mjob
      /\ job[w] = NoJob /\ NoJob \notin Jobs
  BY <1>0, JobsAssumption DEF TakeJob, Transition, history, LocalJobs, Holding
<1>3. /\ Held(j)' /\ ~Held(j)
      /\ \A k \in Jobs \ {j} : Held(k)' <=> Held(k)
  <2>1. ~Held(j)
    BY <1>0, <1>1 DEF UniqueJob
  <2>2. job'[w] = j /\ \A v \in Workers \ {w} : job'[v] = job[v]
    BY <1>0, <1>2 DEF Types
  <2> QED BY <1>2, <2>1, <2>2 DEF Held
<1>4. /\ Submitted(j)
      /\ \A k \in Jobs \ {j} : Submitted(k)' <=> Submitted(k)
  BY <1>1, <1>2 DEF Submitted, InList
<1>5. works[j] = 0 /\ finishes[j] = 0
  BY <1>0, <1>1, <1>2 DEF JobProgress
<1>6. PoolPhase(j) = "queued" /\ PoolPhase(j)' = "running"
  BY <1>2, <1>3, <1>4, <1>5 DEF PoolPhase
<1>7. \A k \in Jobs \ {j} : PoolPhase(k)' = PoolPhase(k)
  BY <1>2, <1>3, <1>4 DEF PoolPhase
<1>8. Cardinality(Pool!InPhase({"running"})) < Pool!Capacity
  BY <1>2, PoolHasRoom
<1>9. Pool!Advance(j, "queued", "running")
  BY <1>1, <1>6, <1>7, PhaseAdvance
<1> QED BY <1>8, <1>9, Zenon DEF Pool!Start, Pool!Cardinality, Cardinality

LEMMA CompleteStep ==
  ASSUME JobInv, NEW w \in Workers, Work(w) PROVE Pool!Complete(job[w])
<1> DEFINE j == job[w]
<1>0. Types /\ LocalJobs /\ JobProgress
  BY DEF JobInv, TypeOK
<1>1. /\ j \in Jobs /\ thread[w] = "work" /\ works' = [works EXCEPT ![j] = @ + 1]
      /\ finishes' = finishes /\ job' = job /\ main' = main /\ mjob' = mjob
      /\ oy_job_list_' = oy_job_list_
  BY <1>0 DEF Work, Transition, LocalJobs, Holding, Types
<1>2. works[j] = 0 /\ finishes[j] = 0 /\ works'[j] = 1 /\ Held(j)
  BY <1>0, <1>1 DEF JobProgress, Held, Types
<1>3. PoolPhase(j) = "running" /\ PoolPhase(j)' = "worked"
  BY <1>1, <1>2 DEF PoolPhase
<1>4. \A k \in Jobs \ {j} : /\ works'[k] = works[k]
                            /\ Held(k)' <=> Held(k)
                            /\ Submitted(k)' <=> Submitted(k)
  BY <1>0, <1>1 DEF Held, Submitted, InList, Types
<1>5. \A k \in Jobs \ {j} : PoolPhase(k)' = PoolPhase(k)
  BY <1>1, <1>4 DEF PoolPhase
<1> QED BY <1>1, <1>3, <1>5, PhaseAdvance DEF Pool!Complete

LEMMA FinishedStep ==
  ASSUME JobInv, FinishJob, NEW j \in Jobs, j = mjob PROVE Pool!Finish(j)
<1>0. Types /\ LocalJobs /\ JobProgress
  BY DEF JobInv, TypeOK
<1>1. /\ main = "finish" /\ finishes' = [finishes EXCEPT ![j] = @ + 1]
      /\ works' = works /\ job' = job /\ main' = "idle" /\ oy_job_list_' = oy_job_list_
  BY <1>0 DEF FinishJob, LocalJobs, Types, queue
<1>2. works[j] = 1 /\ finishes[j] = 0 /\ finishes'[j] = 1
  BY <1>0, <1>1 DEF JobProgress, Types
<1>3. PoolPhase(j) = "worked" /\ PoolPhase(j)' = "finished"
  BY <1>1, <1>2 DEF PoolPhase
<1>4. \A k \in Jobs \ {j} : /\ finishes'[k] = finishes[k]
                            /\ Held(k)' <=> Held(k)
                            /\ Submitted(k)' <=> Submitted(k)
  BY <1>0, <1>1 DEF Held, Submitted, InList, Types
<1>5. \A k \in Jobs \ {j} : PoolPhase(k)' = PoolPhase(k)
  BY <1>1, <1>4 DEF PoolPhase
<1> QED BY <1>3, <1>5, PhaseAdvance DEF Pool!Finish

\* Every other step is a stutter of the pool: lists, signals, messages and the
\* way of a done job are details of the queue.
LEMMA PoolStep ==
  JobInv /\ ThreadsCounted /\ [Next]_vars => [Pool!PoolNext]_PoolPhases
<1> SUFFICES ASSUME JobInv, ThreadsCounted, [Next]_vars
             PROVE  Pool!PoolNext \/ PoolPhases' = PoolPhases
  BY Zenon
<1> USE DEF Transition, queue, members, history
<1>0. Types /\ LocalJobs /\ UniqueJob /\ JobProgress
  BY DEF JobInv, TypeOK
<1>1. ASSUME NEW j \in Jobs, Add(j) PROVE Pool!PoolNext
  BY <1>1, SubmitStep DEF Pool!PoolNext
<1>2. CASE MoveIn
  <2>1. /\ mjob \in Jobs /\ main = "movein" /\ mjob' = NoJob /\ main' = "signal"
        /\ Entries(oy_job_list_') = Entries(oy_job_list_) \cup {mjob}
        /\ NoJob \notin Jobs
    BY <1>0, <1>2, EntriesAppend, JobsAssumption DEF MoveIn, LocalJobs, Types
  <2>2. \A j \in Jobs : (Submitted(j)' <=> Submitted(j)) /\ (Held(j)' <=> Held(j))
    BY <1>2, <2>1 DEF MoveIn, Submitted, InList, Held
  <2> QED BY <1>2, <2>2, PhaseQuiet DEF MoveIn
<1>3. CASE Signal
  BY <1>3, PhaseQuiet DEF Signal, Held, Submitted, InList
<1>4. CASE JobResult \/ DrainMessage \/ DrainEnd
  BY <1>4, PhaseQuiet DEF JobResult, DrainMessage, DrainEnd, Held, Submitted, InList
<1>5. CASE GetDone
  <2>1. CASE oy_job_list_ # << >> /\ status_done_[Last(oy_job_list_)] > 0
    <3>1. /\ Last(oy_job_list_) \in Jobs /\ InList(Last(oy_job_list_))
          /\ Entries(oy_job_list_') = Entries(oy_job_list_) \ {Last(oy_job_list_)}
      BY <1>0, <1>5, <2>1, ReleaseLastProperties, EntriesReleaseLast
         DEF GetDone, UniqueJob, Types, InList
    <3>2. works[Last(oy_job_list_)] # 0
      BY <1>0, <2>1, <3>1 DEF JobProgress, Types
    <3>3. \A j \in Jobs : works[j] = 0 => (Submitted(j)' <=> Submitted(j)) /\ (Held(j)' <=> Held(j))
      BY <1>5, <2>1, <3>1, <3>2 DEF GetDone, Submitted, InList, Held
    <3> QED BY <1>5, <3>3, PhaseQuiet DEF GetDone
  <2>2. CASE ~(oy_job_list_ # << >> /\ status_done_[Last(oy_job_list_)] > 0)
    BY <1>5, <2>2, PhaseQuiet DEF GetDone, Held, Submitted, InList
  <2> QED BY <2>1, <2>2
<1>6. CASE FinishJob
  BY <1>0, <1>6, FinishedStep DEF FinishJob, LocalJobs, Pool!PoolNext, Types
<1>7. ASSUME NEW w \in Workers, TakeJob(w) PROVE Pool!PoolNext
  <2>1. Last(oy_job_list_) \in Jobs
    BY <1>0, <1>7, ReleaseLastProperties DEF TakeJob, Types
  <2> QED BY <1>7, <2>1, StartStep DEF Pool!PoolNext
<1>8. ASSUME NEW w \in Workers,
             Wait(w) \/ SpuriousWakeup(w) \/ Return(w) \/ PostStart(w) \/ PostDone(w)
      PROVE  PoolPhases' = PoolPhases
  BY <1>8, PhaseQuiet DEF Wait, SpuriousWakeup, Return, PostStart, PostDone,
                          Held, Submitted, InList
<1>9. ASSUME NEW w \in Workers, Work(w) PROVE Pool!PoolNext
  <2>1. job[w] \in Jobs
    BY <1>0, <1>9 DEF Work, LocalJobs, Holding, Types
  <2> QED BY <1>9, <2>1, CompleteStep DEF Pool!PoolNext
<1>10. ASSUME NEW w \in Workers, AddDone(w) PROVE PoolPhases' = PoolPhases
  <2>1. job[w] \in Jobs /\ works[job[w]] = 1
    BY <1>0, <1>10 DEF AddDone, LocalJobs, Holding, JobProgress, Types
  <2>2. Entries(oy_job_list_') = Entries(oy_job_list_) \cup {job[w]}
    BY <1>0, <1>10, <2>1, EntriesAppend DEF AddDone, Types
  <2>3. \A j \in Jobs \ {job[w]} : (Submitted(j)' <=> Submitted(j)) /\ (Held(j)' <=> Held(j))
    BY <1>0, <1>10, <2>2, JobsAssumption DEF AddDone, Submitted, InList, Held, Types
  <2> QED BY <1>10, <2>1, <2>3, PhaseQuiet DEF AddDone
<1>11. CASE UNCHANGED vars
  BY <1>11, PhaseQuiet DEF vars, Held, Submitted, InList
<1> QED BY <1>1, <1>2, <1>3, <1>4, <1>5, <1>6, <1>7, <1>8, <1>9, <1>10, <1>11
        DEF Next, MainNext, Poll, WorkerNext

LEMMA PoolStart == Init => Pool!PoolInit
<1> SUFFICES ASSUME Init, NEW j \in Jobs PROVE PoolPhase(j) = "new"
  BY DEF Pool!PoolInit, PoolPhases
<1>1. ~Held(j) /\ ~Submitted(j)
  BY JobsAssumption, EmptySeq DEF Init, Held, Submitted, InList, Entries
<1> QED BY <1>1 DEF Init, PoolPhase

\* The queue implements the pool of JobPool: a job is submitted, started by one
\* of the workers the pool may have busy, completed and finished, each once.
THEOREM QueueImplementsPool == Spec => RefinesPool
BY WorkersInvariant, PoolStart, PoolStep, PTL DEF Spec, RefinesPool, Pool!PoolSpec

-----------------------------------------------------------------------------
(***************************************************************************)
(* The messages: oyMsg_Add_() by the workers, oyMsg_Get() and              *)
(* cb_progress() by the managing thread.                                   *)
(***************************************************************************)

\* There is something to report once work() of the job is through with its
\* messages.
ToReport(j) == status_done_[j] = 1 \/ \E w \in Workers : job[w] = j /\ thread[w] = "add"

Reported(j) == \/ delivered[j] = DoneMsg
               \/ \E i \in 1 .. Len(oy_job_message_list_) :
                    oy_job_message_list_[i] = Message(j, DoneMsg)

LEMMA PostedNat == \A j \in Jobs : Posted(j) \in 0 .. 3 /\ Posted(j)' \in 0 .. 3
BY DEF Posted, StartMsg, MiddleMsg, DoneMsg

\* What has been posted for a job depends on the calls of work() and on the
\* workers that are in the middle of it.
LEMMA PostedQuiet ==
  ASSUME works' = works,
         \A w \in Workers : thread[w] \in {"work", "done"} \/ thread'[w] \in {"work", "done"}
                              => thread'[w] = thread[w] /\ job'[w] = job[w]
  PROVE  \A j \in Jobs : Posted(j)' = Posted(j)
BY DEF Posted

\* A worker that goes on to its next place raises what is posted for its job.
LEMMA PostedRises ==
  ASSUME JobInv, NEW w \in Workers, NEW j \in Jobs, j = job[w]
  PROVE  /\ PostStart(w) => Posted(j) = 0 /\ Posted(j)' = StartMsg
         /\ Work(w)      => Posted(j) = StartMsg /\ Posted(j)' = MiddleMsg
         /\ PostDone(w)  => Posted(j) = MiddleMsg /\ Posted(j)' = DoneMsg
         /\ PostStart(w) \/ Work(w) \/ PostDone(w) =>
              \A k \in Jobs \ {j} : Posted(k)' = Posted(k)
<1> USE DEF Transition, StartMsg, MiddleMsg, DoneMsg, history
<1>0. /\ Types /\ JobProgress
      /\ \A v \in Workers : job[v] = j => v = w
  BY JobsAssumption DEF JobInv, TypeOK, UniqueJob
<1>1. ASSUME PostStart(w) PROVE Posted(j) = 0 /\ Posted(j)' = StartMsg
  BY <1>0, <1>1 DEF PostStart, Posted, JobProgress, Types
<1>2. ASSUME Work(w) PROVE Posted(j) = StartMsg /\ Posted(j)' = MiddleMsg
  BY <1>0, <1>2 DEF Work, Posted, JobProgress, Types
<1>3. ASSUME PostDone(w) PROVE Posted(j) = MiddleMsg /\ Posted(j)' = DoneMsg
  <2>1. /\ works[j] = 1 /\ works'[j] = 1 /\ thread[w] = "done" /\ thread'[w] = "add"
        /\ job' = job
    BY <1>0, <1>3 DEF PostDone, JobProgress, Types
  <2> QED BY <1>0, <2>1 DEF Posted
<1>4. ASSUME PostStart(w) \/ Work(w) \/ PostDone(w), NEW k \in Jobs \ {j}
      PROVE  Posted(k)' = Posted(k)
  <2>1. /\ works'[k] = works[k] /\ job' = job
        /\ \A v \in Workers : job[v] = k => thread'[v] = thread[v]
    BY <1>0, <1>4 DEF PostStart, Work, PostDone, Types
  <2> QED BY <2>1 DEF Posted
<1> QED BY <1>1, <1>2, <1>3, <1>4

\* Messages and deliveries stay below what has been posted.
LEMMA MessageFacts ==
  ASSUME Types, MessageInv
  PROVE  /\ \A i \in 1 .. Len(oy_job_message_list_) :
              /\ oy_job_message_list_[i].job \in Jobs /\ oy_job_message_list_[i].progress \in Nat
              /\ oy_job_message_list_[i].progress <= Posted(oy_job_message_list_[i].job)
         /\ \A j \in Jobs : delivered[j] \in Nat /\ delivered[j] <= Posted(j)
<1>1. /\ \A i \in 1 .. Len(oy_job_message_list_) :
           oy_job_message_list_[i].progress <= Posted(oy_job_message_list_[i].job)
      /\ \A j \in Jobs : delivered[j] <= Posted(j)
  BY DEF MessageInv
<1>2. \A i \in 1 .. Len(oy_job_message_list_) : oy_job_message_list_[i] \in Messages
  BY ElementOfSeq DEF Types
<1>3. \A m \in Messages : m.job \in Jobs /\ m.progress \in Nat
  BY DEF Messages, StartMsg, MiddleMsg, DoneMsg
<1>4. \A j \in Jobs : delivered[j] \in Nat
  <2>1. delivered \in [Jobs -> {0, StartMsg, MiddleMsg, DoneMsg}]
    BY DEF Types
  <2> QED BY <2>1 DEF StartMsg, MiddleMsg, DoneMsg
<1> QED BY <1>1, <1>2, <1>3, <1>4

\* A step that handles no message keeps the account of messages.
LEMMA MessageQuiet ==
  ASSUME Types, MessageInv,
         oy_job_message_list_' = oy_job_message_list_, delivered' = delivered,
         \A j \in Jobs : Posted(j) <= Posted(j)',
         \A j \in Progress : ToReport(j)' => ToReport(j)
  PROVE  MessageInv'
<1>1. \A i \in 1 .. Len(oy_job_message_list_) :
        /\ oy_job_message_list_[i].job \in Jobs /\ oy_job_message_list_[i].progress \in Nat
        /\ oy_job_message_list_[i].progress <= Posted(oy_job_message_list_[i].job)
  BY MessageFacts
<1>2. \A j \in Jobs : delivered[j] \in Nat /\ delivered[j] <= Posted(j)
  BY MessageFacts
<1>3. MessageOrder'
  BY DEF MessageInv, MessageOrder
<1>4. /\ \A i \in 1 .. Len(oy_job_message_list_') :
            oy_job_message_list_'[i].progress <= Posted(oy_job_message_list_[i].job)'
      /\ \A j \in Jobs : delivered'[j] <= Posted(j)'
  BY <1>1, <1>2, PostedNat
<1>5. \A j \in Progress : ToReport(j)' => Reported(j)'
  BY DEF MessageInv, ToReport, Reported
<1> QED BY <1>3, <1>4, <1>5 DEF MessageInv, ToReport, Reported

\* A message goes to the end of the list; it is newer than all of its job.
LEMMA MessagePosted ==
  ASSUME Types, MessageInv, NEW j \in Jobs, NEW p \in {StartMsg, MiddleMsg, DoneMsg},
         Post(j, p), delivered' = delivered, Posted(j) < p, p <= Posted(j)',
         \A k \in Jobs : Posted(k) <= Posted(k)',
         \A k \in Progress : ToReport(k)' => ToReport(k) \/ (k = j /\ p = DoneMsg)
  PROVE  MessageInv'
<1> DEFINE s == oy_job_message_list_
           n == Len(s)
           m == Message(j, p)
<1>1. /\ n \in Nat /\ Len(s') = n + 1
      /\ \A i \in 1 .. n : s'[i] = s[i]
      /\ s'[n + 1] = m
  BY AppendProperties, LenProperties DEF Types, Post, Message, Messages
<1>2. /\ m.job = j /\ m.progress = p /\ p \in 1 .. 3
  BY DEF Message, StartMsg, MiddleMsg, DoneMsg
<1>3. \A i \in 1 .. n : /\ s[i].job \in Jobs /\ s[i].progress \in Nat
                        /\ s[i].progress <= Posted(s[i].job)
  BY MessageFacts
<1>4. \A k \in Jobs : delivered[k] \in Nat /\ delivered[k] <= Posted(k)
  BY MessageFacts
<1>5. \A i \in 1 .. n + 1 : i \in 1 .. n \/ i = n + 1
  BY <1>1
<1> HIDE DEF n, m
<1>6. MessageOrder'
  <2> SUFFICES ASSUME NEW i \in 1 .. n + 1
               PROVE  /\ s'[i].job \in Progress => delivered[s'[i].job] < s'[i].progress
                      /\ \A k \in 1 .. i - 1 : s'[k].job = s'[i].job => s'[k].progress < s'[i].progress
    BY <1>1 DEF MessageOrder
  <2>1. CASE i \in 1 .. n
    <3>1. \A k \in 1 .. i - 1 : k \in 1 .. n
      BY <1>1, <2>1
    <3> QED BY <1>1, <2>1, <3>1 DEF MessageInv, MessageOrder, n
  <2>2. CASE i = n + 1
    <3>1. delivered[j] < p
      BY <1>2, <1>4, PostedNat
    <3>2. \A k \in 1 .. n : s[k].job = j => s[k].progress < p
      BY <1>2, <1>3, PostedNat
    <3>3. \A k \in 1 .. i - 1 : k \in 1 .. n
      BY <1>1, <2>2
    <3> QED BY <1>1, <1>2, <2>2, <3>1, <3>2, <3>3
  <2> QED BY <1>5, <2>1, <2>2
<1>7. \A i \in 1 .. n + 1 : s'[i].job \in Jobs /\ s'[i].progress <= Posted(s[i].job)'
  <2> SUFFICES ASSUME NEW i \in 1 .. n + 1
               PROVE  s'[i].job \in Jobs /\ s'[i].progress <= Posted(s[i].job)'
    OBVIOUS
  <2>1. CASE i \in 1 .. n
    <3>1. /\ s'[i] = s[i] /\ s[i].job \in Jobs /\ s[i].progress \in Nat
          /\ s[i].progress <= Posted(s[i].job)
      BY <1>1, <1>3, <2>1
    <3>2. Posted(s[i].job) <= Posted(s[i].job)'
      BY <3>1
    <3> QED BY <3>1, <3>2, PostedNat
  <2>2. CASE i = n + 1
    BY <1>1, <1>2, <2>2
  <2> QED BY <1>5, <2>1, <2>2
<1>8. \A k \in Jobs : delivered'[k] <= Posted(k)'
  BY <1>4, PostedNat
<1>9. \A k \in Progress : ToReport(k)' => Reported(k)'
  <2> SUFFICES ASSUME NEW k \in Progress, ToReport(k)' PROVE Reported(k)'
    OBVIOUS
  <2>1. CASE k = j /\ p = DoneMsg
    BY <1>1, <2>1 DEF Reported, m
  <2>2. CASE ToReport(k)
    <3>1. Reported(k)
      BY <2>2 DEF MessageInv, ToReport, Reported
    <3>2. \A i \in 1 .. n : i \in 1 .. n + 1
      BY <1>1
    <3> QED BY <1>1, <3>1, <3>2 DEF Reported, n
  <2> QED BY <2>1, <2>2
<1>10. \A i \in 1 .. Len(s') : s'[i].progress <= Posted(s[i].job)'
  BY <1>1, <1>7
<1> QED BY <1>6, <1>8, <1>9, <1>10 DEF MessageInv, ToReport, Reported

\* The first message is the oldest of its job: cb_progress() sees it next.
LEMMA MessageDrained ==
  ASSUME JobInv, MessageInv, DrainMessage PROVE MessageInv'
<1> DEFINE s == oy_job_message_list_
           n == Len(s)
           m == s[1]
<1>0. Types
  BY DEF JobInv, TypeOK
<1>1. /\ n \in Nat /\ n >= 1 /\ Len(s') = n - 1
      /\ \A i \in 1 .. n - 1 : s'[i] = s[i + 1]
      /\ delivered' = IF m.job \in Progress THEN [delivered EXCEPT ![m.job] = m.progress] ELSE delivered
  <2>1. s \in Seq(Messages) /\ s # << >>
    BY <1>0 DEF Types, DrainMessage
  <2>2. /\ n \in Nat /\ n >= 1 /\ Head(s) = s[1] /\ Len(Tail(s)) = n - 1
        /\ \A i \in 1 .. n - 1 : Tail(s)[i] = s[i + 1]
    <3>1. n \in Nat /\ n # 0
      BY <2>1, EmptySeq, LenProperties
    <3> QED BY <2>1, <3>1, HeadTailProperties
  <2>3. /\ s' = Tail(s)
        /\ delivered' = IF Head(s).job \in Progress
                        THEN [delivered EXCEPT ![Head(s).job] = Head(s).progress] ELSE delivered
    BY DEF DrainMessage
  <2> QED BY <2>2, <2>3
<1>2. /\ \A i \in 1 .. n : /\ s[i].job \in Jobs /\ s[i].progress \in Nat
                           /\ s[i].progress <= Posted(s[i].job)
      /\ \A k \in Jobs : delivered[k] \in Nat /\ delivered[k] <= Posted(k)
  BY <1>0, MessageFacts
<1>3. /\ 1 \in 1 .. n
      /\ \A i \in 1 .. n - 1 : i + 1 \in 1 .. n /\ 1 \in 1 .. i + 1 - 1
      /\ \A i \in 1 .. n - 1, k \in 1 .. n - 1 : k \in 1 .. i - 1 => k + 1 \in 1 .. i + 1 - 1
      /\ \A i \in 1 .. n - 1 : \A k \in 1 .. i - 1 : k \in 1 .. n - 1
      /\ \A i \in 1 .. n : i = 1 \/ (i - 1 \in 1 .. n - 1 /\ i - 1 + 1 = i)
  BY <1>1
<1>4. \A j \in Jobs : Posted(j)' = Posted(j)
  BY PostedQuiet DEF DrainMessage
<1>5. m.job \in Jobs /\ delivered \in [Jobs -> {0, StartMsg, MiddleMsg, DoneMsg}]
  BY <1>0, <1>2, <1>3 DEF Types
<1>6. \A j \in Jobs : delivered'[j] = IF j = m.job /\ j \in Progress THEN m.progress ELSE delivered[j]
  BY <1>1, <1>5
<1>7. MessageOrder
  BY DEF MessageInv
<1>8. \A i \in 1 .. n - 1 : s'[i].job \in Jobs /\ s'[i].job = s[i + 1].job
                           /\ s'[i].progress = s[i + 1].progress
  BY <1>1, <1>2, <1>3
<1> HIDE DEF n, m
<1>9. MessageOrder'
  <2> SUFFICES ASSUME NEW i \in 1 .. n - 1
               PROVE  /\ s'[i].job \in Progress => delivered'[s'[i].job] < s'[i].progress
                      /\ \A k \in 1 .. i - 1 : s'[k].job = s'[i].job => s'[k].progress < s'[i].progress
    BY <1>1 DEF MessageOrder, n
  <2>1. /\ s[i + 1].job \in Progress => delivered[s[i + 1].job] < s[i + 1].progress
        /\ \A k \in 1 .. i + 1 - 1 : s[k].job = s[i + 1].job => s[k].progress < s[i + 1].progress
    BY <1>3, <1>7 DEF MessageOrder, n
  <2>2. s'[i].job \in Progress => delivered'[s'[i].job] < s'[i].progress
    BY <1>3, <1>6, <1>8, <2>1 DEF m
  <2>3. ASSUME NEW k \in 1 .. i - 1, s'[k].job = s'[i].job PROVE s'[k].progress < s'[i].progress
    <3>1. k \in 1 .. n - 1 /\ k + 1 \in 1 .. i + 1 - 1
      BY <1>3
    <3> QED BY <1>8, <2>1, <2>3, <3>1
  <2> QED BY <2>2, <2>3
<1>10. \A i \in 1 .. Len(s') : s'[i].progress <= Posted(s[i].job)'
  <2> SUFFICES ASSUME NEW i \in 1 .. n - 1 PROVE s'[i].progress <= Posted(s[i].job)'
    BY <1>1
  <2> QED BY <1>2, <1>3, <1>4, <1>8
<1>11. \A j \in Jobs : delivered'[j] <= Posted(j)'
  BY <1>2, <1>3, <1>4, <1>6 DEF m
<1>12. \A j \in Progress : ToReport(j)' => Reported(j)'
  <2> SUFFICES ASSUME NEW j \in Progress, ToReport(j)' PROVE Reported(j)'
    OBVIOUS
  <2>1. j \in Jobs /\ ToReport(j)
    BY JobsAssumption DEF ToReport, DrainMessage, members
  <2>2. Reported(j)
    BY <2>1 DEF MessageInv, ToReport, Reported
  <2>3. CASE delivered[j] = DoneMsg
    <3>1. j # m.job
      BY <1>2, <1>3, <1>7, <2>3, PostedNat DEF MessageOrder, m, n, DoneMsg
    <3> QED BY <1>6, <2>1, <2>3, <3>1 DEF Reported
  <2>4. CASE delivered[j] # DoneMsg
    <3>1. PICK i \in 1 .. n : s[i] = Message(j, DoneMsg)
      BY <2>2, <2>4 DEF Reported, n
    <3>2. CASE i = 1
      BY <1>6, <2>1, <3>1, <3>2 DEF Reported, m, Message
    <3>3. CASE i # 1
      <4>1. i - 1 \in 1 .. n - 1 /\ s'[i - 1] = s[i]
        BY <1>1, <1>3, <3>3
      <4> QED BY <1>1, <3>1, <4>1 DEF Reported
    <3> QED BY <3>2, <3>3
  <2> QED BY <2>3, <2>4
<1> QED BY <1>9, <1>10, <1>11, <1>12 DEF MessageInv, ToReport, Reported

\* Every step keeps the account of messages.
LEMMA MessageStep == JobInv /\ MessageInv /\ [Next]_vars => MessageInv'
<1> SUFFICES ASSUME JobInv, MessageInv, [Next]_vars PROVE MessageInv'
  OBVIOUS
<1> USE DEF Transition, queue, members, history
<1>0. /\ Types /\ LocalJobs /\ UniqueJob /\ JobProgress
      /\ Progress \subseteq Jobs /\ NoJob \notin Jobs
      /\ \A w \in Workers : thread[w] \in Holding => job[w] \in Jobs
  BY JobsAssumption DEF JobInv, TypeOK, LocalJobs, Types
<1>1. ASSUME NEW j \in Jobs, Add(j) PROVE MessageInv'
  <2>1. \A w \in Workers : thread[w] # "none" => thread'[w] = thread[w]
    BY <1>0, <1>1, WorkersNat DEF Add, ThreadsInit, LocalJobs, Types
  <2>2. \A w \in Workers : thread'[w] = thread[w] \/ thread'[w] = "get"
    BY <1>0, <1>1 DEF Add, ThreadsInit, Types
  <2>3. \A w \in Workers : thread[w] \in {"work", "done"} \/ thread'[w] \in {"work", "done"}
                              => thread'[w] = thread[w] /\ job'[w] = job[w]
    BY <1>1, <2>1, <2>2 DEF Add
  <2>4. \A k \in Jobs : Posted(k) <= Posted(k)'
    BY <1>1, <2>3, PostedQuiet, PostedNat DEF Add
  <2>5. \A k \in Progress : ToReport(k)' => ToReport(k)
    BY <1>0, <1>1, <2>2 DEF Add, ToReport, Types
  <2> QED BY <1>0, <1>1, <2>4, <2>5, MessageQuiet DEF Add
<1>2. CASE MoveIn \/ JobResult \/ DrainEnd \/ GetDone \/ FinishJob \/ UNCHANGED vars
  <2>1. /\ works' = works /\ thread' = thread /\ job' = job /\ status_done_' = status_done_
        /\ oy_job_message_list_' = oy_job_message_list_ /\ delivered' = delivered
    BY <1>2 DEF MoveIn, JobResult, DrainEnd, GetDone, FinishJob, vars
  <2>2. \A k \in Jobs : Posted(k) <= Posted(k)'
    BY <2>1, PostedQuiet, PostedNat
  <2>3. \A k \in Progress : ToReport(k)' => ToReport(k)
    BY <2>1 DEF ToReport
  <2> QED BY <1>0, <2>1, <2>2, <2>3, MessageQuiet
<1>3. CASE DrainMessage
  BY <1>3, MessageDrained
<1>4. CASE Signal
  <2>1. \A w \in Workers : thread'[w] = thread[w] \/ (thread[w] = "wait" /\ thread'[w] = "woken")
    BY <1>0, <1>4 DEF Signal, Waiting, Types
  <2>2. \A k \in Jobs : Posted(k) <= Posted(k)'
    BY <1>4, <2>1, PostedQuiet, PostedNat DEF Signal
  <2>3. \A k \in Progress : ToReport(k)' => ToReport(k)
    BY <1>4, <2>1 DEF Signal, ToReport
  <2> QED BY <1>0, <1>4, <2>2, <2>3, MessageQuiet DEF Signal
<1>5. ASSUME NEW w \in Workers, TakeJob(w) \/ Wait(w) \/ SpuriousWakeup(w) \/ Return(w)
      PROVE  MessageInv'
  <2>1. /\ \A v \in Workers :
             \/ thread'[v] = thread[v] /\ job'[v] = job[v]
             \/ thread[v] \in {"get", "wait", "woken"} /\ thread'[v] \in {"start", "wait", "woken", "get"}
        /\ works' = works /\ status_done_' = status_done_
        /\ oy_job_message_list_' = oy_job_message_list_ /\ delivered' = delivered
    <3>1. ASSUME TakeJob(w), NEW v \in Workers
          PROVE  \/ thread'[v] = thread[v] /\ job'[v] = job[v]
                 \/ thread[v] = "get" /\ thread'[v] = "start"
      BY <1>0, <3>1 DEF TakeJob, Types
    <3>2. ASSUME Wait(w) \/ SpuriousWakeup(w) \/ Return(w), NEW v \in Workers
          PROVE  \/ thread'[v] = thread[v] /\ job'[v] = job[v]
                 \/ thread[v] \in {"get", "wait", "woken"} /\ thread'[v] \in {"wait", "woken", "get"}
      BY <1>0, <3>2 DEF Wait, SpuriousWakeup, Return, Types
    <3> QED BY <1>5, <3>1, <3>2 DEF TakeJob, Wait, SpuriousWakeup, Return
  <2>2. \A k \in Jobs : Posted(k) <= Posted(k)'
    BY <2>1, PostedQuiet, PostedNat
  <2>3. \A k \in Progress : ToReport(k)' => ToReport(k)
    BY <2>1 DEF ToReport
  <2> QED BY <1>0, <2>1, <2>2, <2>3, MessageQuiet
<1>6. ASSUME NEW w \in Workers, PostStart(w) \/ Work(w) \/ PostDone(w) PROVE MessageInv'
  <2>1. PICK k \in Jobs : k = job[w]
    BY <1>0, <1>6 DEF PostStart, Work, PostDone, Holding
  <2>2. /\ PostStart(w) => Posted(k) = 0 /\ Posted(k)' = StartMsg
        /\ Work(w)      => Posted(k) = StartMsg /\ Posted(k)' = MiddleMsg
        /\ PostDone(w)  => Posted(k) = MiddleMsg /\ Posted(k)' = DoneMsg
        /\ \A i \in Jobs \ {k} : Posted(i)' = Posted(i)
    BY <1>6, <2>1, PostedRises
  <2>3. \A i \in Jobs : Posted(i) <= Posted(i)'
    BY <1>6, <2>2, PostedNat DEF StartMsg, MiddleMsg, DoneMsg
  <2>4. /\ delivered' = delivered /\ job' = job /\ status_done_' = status_done_
        /\ \A v \in Workers \ {w} : thread'[v] = thread[v]
        /\ PostStart(w) => thread'[w] = "work"
        /\ Work(w) => thread'[w] = "done"
    BY <1>0, <1>6 DEF PostStart, Work, PostDone, Types
  <2>5. \A i \in Progress : ToReport(i)' => ToReport(i) \/ (i = k /\ PostDone(w))
    BY <1>6, <2>1, <2>4 DEF ToReport
  <2>6. CASE UNCHANGED oy_job_message_list_ /\ ~(PostDone(w) /\ k \in Progress)
    BY <1>0, <2>3, <2>4, <2>5, <2>6, MessageQuiet
  <2>7. CASE PostStart(w) /\ Post(k, StartMsg)
    BY <1>0, <2>2, <2>3, <2>4, <2>5, <2>7, MessagePosted DEF StartMsg, PostStart, PostDone
  <2>8. CASE Work(w) /\ Post(k, MiddleMsg)
    BY <1>0, <2>2, <2>3, <2>4, <2>5, <2>8, MessagePosted DEF StartMsg, MiddleMsg, Work, PostDone
  <2>9. CASE PostDone(w) /\ Post(k, DoneMsg)
    BY <1>0, <2>2, <2>3, <2>4, <2>5, <2>9, MessagePosted DEF MiddleMsg, DoneMsg
  <2>10. \/ UNCHANGED oy_job_message_list_ /\ ~(PostDone(w) /\ k \in Progress)
         \/ PostStart(w) /\ Post(k, StartMsg)
         \/ Work(w) /\ Post(k, MiddleMsg)
         \/ PostDone(w) /\ Post(k, DoneMsg)
    <3>1. CASE PostStart(w)
      BY <2>1, <3>1 DEF PostStart, PostDone
    <3>2. CASE Work(w)
      BY <2>1, <3>2 DEF Work, PostDone
    <3>3. CASE PostDone(w)
      BY <2>1, <3>3 DEF PostDone
    <3> QED BY <1>6, <3>1, <3>2, <3>3
  <2> QED BY <2>6, <2>7, <2>8, <2>9, <2>10
<1>7. ASSUME NEW w \in Workers, AddDone(w) PROVE MessageInv'
  <2>1. /\ job[w] \in Jobs /\ thread[w] = "add" /\ thread'[w] \in {"exit", "get"}
        /\ \A v \in Workers \ {w} : thread'[v] = thread[v] /\ job'[v] = job[v]
    BY <1>0, <1>7 DEF AddDone, Holding, Types
  <2>2. \A k \in Jobs : Posted(k) <= Posted(k)'
    BY <1>7, <2>1, PostedQuiet, PostedNat DEF AddDone
  <2>3. \A k \in Progress : ToReport(k)' => ToReport(k)
    BY <1>0, <1>7, <2>1 DEF AddDone, ToReport, Types
  <2> QED BY <1>0, <1>7, <2>2, <2>3, MessageQuiet DEF AddDone
<1> QED BY <1>1, <1>2, <1>3, <1>4, <1>5, <1>6, <1>7 DEF Next, MainNext, Poll, WorkerNext

LEMMA MessageInit == Init => MessageInv
<1> SUFFICES ASSUME Init PROVE MessageInv
  OBVIOUS
<1>1. Len(oy_job_message_list_) = 0 /\ \A i \in 1 .. Len(oy_job_message_list_) : FALSE
  BY EmptySeq DEF Init
<1>2. /\ \A j \in Jobs : delivered[j] = 0 /\ status_done_[j] = 0
      /\ \A w \in Workers : thread[w] = "none"
  BY DEF Init
<1>3. \A j \in Jobs : delivered[j] <= Posted(j)
  BY <1>2, PostedNat
<1> QED BY <1>1, <1>2, <1>3, JobsAssumption DEF MessageInv, MessageOrder

\* The inductive invariant of the queue, which run trds_safety checks on a
\* small instance: places of the jobs, account of the workers, wakeups to come
\* and messages.
THEOREM QueueInvariant == Spec => []QueueInv
<1>1. Init => MessageInv
  BY MessageInit
<1>2. JobInv /\ MessageInv /\ [Next]_vars => MessageInv'
  BY MessageStep
<1>3. Spec => []MessageInv
  BY <1>1, <1>2, JobInvariant, PTL DEF Spec
<1> QED BY <1>3, WorkersInvariant, PTL DEF QueueInv

\* cb_progress() sees the messages of one job in the order of their progress and
\* none of them twice, whatever the messages of other jobs in between.
THEOREM MessagesInOrder == Spec => []MessageOrder
BY QueueInvariant, PTL DEF QueueInv, MessageInv

\* No final message gets lost: once a job came back it has been reported as done
\* or the message waits in oy_job_message_list_, even after finish().
THEOREM DoneIsReported == Spec => []DoneReported
<1>1. QueueInv => DoneReported
  BY DEF QueueInv, MessageInv, DoneReported
<1> QED BY <1>1, QueueInvariant, PTL
=============================================================================
