----------------------------- MODULE WorkerPool -----------------------------
(***************************************************************************)
(* The probe workers.  Each one takes the oldest job, runs the probe under *)
(* the timeout of the check, takes the check out of the running set and    *)
(* then sends the result, waiting for room.                                *)
(***************************************************************************)
EXTENDS Rounds

CONSTANTS MaxPanics   \* bound of the model: how many workers may panic

ASSUME MaxPanicsAssumption == MaxPanics \in Nat

Idle == [state |-> "idle", job |-> NoRound]

\* recv under the mutex of the receiver.
TakeJob(w) ==
    /\ worker[w].state = "idle" /\ jobs # <<>>
    /\ worker' = [worker EXCEPT ![w] = [state |-> "probing", job |-> Head(jobs)]]
    /\ jobs' = Tail(jobs)
    /\ UNCHANGED <<running, results, jobsOpen>>

Released(c) == running \ {c}

\* execute_round has returned, whether with samples, an error or a timeout;
\* the check may be dispatched again before the result is on its way.
FinishRound(w) ==
    /\ worker[w].state = "probing"
    /\ worker' = [worker EXCEPT ![w].state = "sending"]
    /\ running' = Released(worker[w].job.check)
    /\ UNCHANGED <<jobs, results, jobsOpen>>

Executed(job) == [check |-> job.check, slot |-> job.slot, status |-> "executed"]

\* The awaited send of the result found room.
SendResult(w) ==
    /\ worker[w].state = "sending"
    /\ HasRoom(results, ResultCap)
    /\ results' = Append(results, Executed(worker[w].job))
    /\ worker' = [worker EXCEPT ![w] = Idle]
    /\ UNCHANGED <<running, jobs, jobsOpen>>

\* Mutant: a worker leaves as soon as the channel is closed, jobs or not.
DrainedAlways == TRUE

\* recv returns None only when the channel is closed and empty.
Drained == jobs = <<>>

WorkerExits(w) ==
    /\ worker[w].state = "idle" /\ ~jobsOpen /\ Drained
    /\ worker' = [worker EXCEPT ![w].state = "exited"]
    /\ UNCHANGED <<running, jobs, results, jobsOpen>>

\* A probe panics: catch_unwind in spawn_required_task ends the worker, whose
\* round stays in the running set.
WorkerPanics(w) ==
    /\ worker[w].state = "probing"
    /\ Cardinality({v \in Workers : worker[v].state = "dead"}) < MaxPanics
    /\ worker' = [worker EXCEPT ![w].state = "dead"]
    /\ UNCHANGED <<running, jobs, results, jobsOpen>>

WorkerStep(w) ==
    TakeJob(w) \/ FinishRound(w) \/ SendResult(w) \/ WorkerExits(w) \/ WorkerPanics(w)
=============================================================================
