---------------------------- MODULE JobUnitQueue ----------------------------
(***************************************************************************)
(* The job queue of include/iridium/JobUnitQueue.hpp: a list guarded by a  *)
(* mutex, and a condition variable with one consumer waiting on it.        *)
(*                                                                         *)
(* Every method holds the mutex from its first to its last access, so each *)
(* is one action here, but for wait_for(), which gives the mutex up while  *)
(* it is blocked and takes it back before it returns.                      *)
(***************************************************************************)
EXTENDS Naturals, Sequences

CONSTANT EmptyJob       \* the job that Job's default constructor makes

VARIABLES jobs,         \* the list, front first
          consumer      \* where the consumer stands in wait_for()

queueVars == <<jobs, consumer>>

Init == /\ jobs = <<>>
        /\ consumer = "out"

TypeOK(Job) == /\ jobs \in Seq(Job)
               /\ consumer \in {"out", "blocked", "notified"}

-----------------------------------------------------------------------------
put(job) == /\ jobs' = Append(jobs, job)
            /\ UNCHANGED consumer

\* Faulty variant: the job is returned to the back of the list.
ungetToBack(job) == /\ jobs' = Append(jobs, job)
                    /\ UNCHANGED consumer

unget(job) == /\ jobs' = <<job>> \o jobs
              /\ UNCHANGED consumer

\* Faulty variant: only the first job is removed.
clearFront == /\ jobs' = IF jobs = <<>> THEN <<>> ELSE Tail(jobs)
              /\ UNCHANGED consumer

clear == /\ jobs' = <<>>
         /\ UNCHANGED consumer

\* get() returns front and takes it off the list.  It never waits: on an empty
\* list it returns the default-constructed job.
front == IF jobs = <<>> THEN EmptyJob ELSE Head(jobs)

get == /\ jobs' = IF jobs = <<>> THEN <<>> ELSE Tail(jobs)
       /\ UNCHANGED consumer

notify_one == /\ consumer' = IF consumer = "blocked" THEN "notified" ELSE consumer
              /\ UNCHANGED jobs

-----------------------------------------------------------------------------
(***************************************************************************)
(* wait_for(): returns false at once on a list that is not empty, blocks   *)
(* otherwise.  A blocked consumer leaves by the timeout (true), after a    *)
(* notification, or by a spurious wakeup (false); the list is not looked   *)
(* at again before returning.  The library compares the clock with the     *)
(* deadline after the wakeup, so a notified wait may also report a timeout.*)
(***************************************************************************)
\* Faulty variant: the last job goes unnoticed.
HasMoreJobs == /\ Len(jobs) > 1
               /\ UNCHANGED queueVars

HasJobs == /\ jobs # <<>>
           /\ UNCHANGED queueVars

Block == /\ jobs = <<>>
         /\ consumer' = "blocked"
         /\ UNCHANGED jobs

LeaveWait == /\ consumer \in {"blocked", "notified"}
             /\ consumer' = "out"
             /\ UNCHANGED jobs
=============================================================================
