---------------------------- MODULE MCTrdsReset ----------------------------
(***************************************************************************)
(* Instances of TrdsReset for TLC.                                         *)
(***************************************************************************)
EXTENDS TrdsReset, TLC

\* The pool between two jobs: a first job, not in Jobs, has started the workers
\* and is finished; the workers wait.  TrdsResetSafety reaches such states; to
\* start in one keeps the liveness run small.
InitIdle == /\ trds_reset = 0
            /\ oy_job_list_ = << >>
            /\ oy_job_message_list_ = TRUE
            /\ oy_threads_ = TRUE
            /\ locking = TRUE
            /\ owner = Nobody
            /\ ref = NBase
            /\ status_done_ = [j \in Jobs |-> 0]
            /\ main = "run"
            /\ mjob = NoJob
            /\ signals = 0
            /\ m = "none"
            /\ thread = [w \in Threads |-> IF w <= NBase THEN "wait" ELSE "none"]
            /\ job = [w \in Threads |-> NoJob]
            /\ resets = 0
            /\ quiet = FALSE
            /\ clean = FALSE
            /\ added = [j \in Jobs |-> 0]
            /\ works = [j \in Jobs |-> 0]

IdleSpec == InitIdle /\ [][Next]_vars /\ Fairness
==============================================================================
