------------------------------- MODULE JobPool -------------------------------
(***************************************************************************)
(* What the asynchronous job interface of Oyranos promises, free of queues,*)
(* locks and threads (documentation in                                     *)
(* src/src/liboyranos_modules/oyranos_threads.c, lines 68-92): a job handed*)
(* to oyJob_Add() is worked on once by some worker, and oyJobResult() calls*)
(* its finish() once, in the managing thread, after work() has returned.   *)
(*                                                                         *)
(* The pool has NBase workers and one more for every persistent job that   *)
(* is waiting or running, so that persistent jobs take no worker away from *)
(* the others.                                                             *)
(***************************************************************************)
EXTENDS Naturals, FiniteSets

CONSTANTS Jobs,        \* the jobs the program may add
          Persistent,  \* those added with oyJOB_ADD_PERSISTENT_JOB
          NBase        \* workers started with the pool

VARIABLE phase         \* phase[j]: how far job j has come

Phases == {"new", "queued", "running", "worked", "finished"}

InPhase(P) == {j \in Jobs : phase[j] \in P}

Capacity == NBase + Cardinality(InPhase({"queued", "running"}) \cap Persistent)

PoolTypeOK == phase \in [Jobs -> Phases]

PoolInit == phase = [j \in Jobs |-> "new"]

Advance(j, from, to) == /\ phase[j] = from
                        /\ phase' = [phase EXCEPT ![j] = to]

\* The managing thread hands job j over: oyJob_Add(&job, 0, flags).
Submit(j) == Advance(j, "new", "queued")

\* A worker begins job j.  There is no order among the queued jobs.
Start(j) == /\ Cardinality(InPhase({"running"})) < Capacity
            /\ Advance(j, "queued", "running")

\* work(job) returns.
Complete(j) == Advance(j, "running", "worked")

\* The managing thread has called finish(job) and released the job.
Finish(j) == Advance(j, "worked", "finished")

PoolNext == \E j \in Jobs : Submit(j) \/ Start(j) \/ Complete(j) \/ Finish(j)

PoolSpec == PoolInit /\ [][PoolNext]_phase
==============================================================================
