------------------------------ MODULE JobQueue ------------------------------
(***************************************************************************)
(* The table internal_jobs and the four operations of                      *)
(* crates/queue/src/lib.rs.  Each operation is one autocommitted statement *)
(* and so one step; FOR UPDATE SKIP LOCKED makes claim_next an atomic      *)
(* choice of one PENDING row.                                              *)
(*                                                                         *)
(* Jobs is a pool of row slots, the bound on the rows that are alive at    *)
(* once: nothing reads a row again once it is DONE or FAILED, so its slot  *)
(* becomes free.  run_after only orders and delays the claims, and is      *)
(* left out: any PENDING job may be the next.  locked_by, locked_at and    *)
(* last_error are written and never read.                                  *)
(***************************************************************************)
EXTENDS Naturals

CONSTANTS MaxJobs,     \* the bound on the rows alive at once
          MaxAttempts, \* internal_jobs.max_attempts, 5 by default
          Payloads

VARIABLE jobs

ASSUME JobQueueAssumption == MaxJobs \in Nat /\ MaxAttempts \in Nat \ {0}

Jobs == 1..MaxJobs

FreeSlot == [status |-> "FREE"]

LiveJobs == [status : {"PENDING", "RUNNING"}, payload : Payloads, attempts : 0..MaxAttempts]

JobsType == jobs \in [Jobs -> {FreeSlot} \cup LiveJobs]

JobsInit == jobs = [j \in Jobs |-> FreeSlot]

Pending(j) == jobs[j].status = "PENDING"
Running(j) == jobs[j].status = "RUNNING"
Free(j) == jobs[j].status = "FREE"

QueueFull == \A j \in Jobs : ~ Free(j)

\* INSERT INTO internal_jobs: PENDING, no attempt yet.  The slots are all the
\* same; the first free one is taken.
Enqueue(p) ==
    \E j \in Jobs :
        /\ Free(j) /\ \A i \in 1..(j - 1) : ~ Free(i)
        /\ jobs' = [jobs EXCEPT ![j] = [status |-> "PENDING", payload |-> p, attempts |-> 0]]

ClaimNext(j) ==
    /\ Pending(j)
    /\ jobs' = [jobs EXCEPT ![j].status = "RUNNING", ![j].attempts = @ + 1]

\* DONE
Complete(j) == jobs' = [jobs EXCEPT ![j] = FreeSlot]

\* FAILED once the attempts are used up, PENDING again before.
Fail(j) ==
    jobs' = [jobs EXCEPT ![j] = IF @.attempts >= MaxAttempts
                                THEN FreeSlot
                                ELSE [@ EXCEPT !.status = "PENDING"]]
=============================================================================
