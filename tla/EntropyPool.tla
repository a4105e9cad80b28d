----------------------------- MODULE EntropyPool -----------------------------
(***************************************************************************)
(* mlvc::ThreadPool as EntropyWorker uses it: one queue of tasks, several  *)
(* threads, and a promise for each task.  A task stands for the frame it   *)
(* encodes or decodes; it is a record with a field frame, and its user may *)
(* give it more.                                                           *)
(***************************************************************************)
EXTENDS Naturals, FiniteSets, SequencesExt, FiniteSetsExt

CONSTANT PoolThreads   \* workers_

ASSUME PoolAssumption == PoolThreads # {} /\ IsFiniteSet(PoolThreads)

VARIABLE pool   \* tasks_, the task each thread runs, kept promises, stopping_

Idle == [slot |-> 0]
Left == [slot |-> -1]

PoolInit ==
  pool = [tasks |-> <<>>, runs |-> [t \in PoolThreads |-> Idle], kept |-> {},
          stopping |-> FALSE]

\* Enqueue, when it does not throw.
PoolEnqueue(job) == ~pool.stopping /\ pool' = [pool EXCEPT !.tasks = Append(@, job)]

\* WorkerMain takes a task.
TaskBegins(t) ==
  /\ pool.runs[t] = Idle /\ pool.tasks # <<>>
  /\ pool' = [pool EXCEPT !.runs[t] = Head(pool.tasks), !.tasks = Tail(@)]

\* The task keeps its promise, with a value or with what it threw.
TaskEnds(t) ==
  /\ pool.runs[t] \notin {Idle, Left}
  /\ \E ok \in BOOLEAN :
       pool' = [pool EXCEPT !.runs[t] = Idle,
                            !.kept = @ \cup {[frame |-> pool.runs[t].frame, ok |-> ok]}]

\* Tasks that are queued when the pool stops still run.
TaskThreadLeaves(t) ==
  /\ pool.runs[t] = Idle /\ pool.stopping /\ pool.tasks = <<>>
  /\ pool' = [pool EXCEPT !.runs[t] = Left]

PoolStop == pool' = [pool EXCEPT !.stopping = TRUE]
PoolJoined == \A t \in PoolThreads : pool.runs[t] = Left

\* The future of frame f is ready, with a value or with an exception.
Kept(f, ok) == [frame |-> f, ok |-> ok] \in pool.kept
Ready(f) == \E ok \in BOOLEAN : Kept(f, ok)

\* Threads that are inside a task.
Running == {t \in PoolThreads : pool.runs[t] \notin {Idle, Left}}
==============================================================================
