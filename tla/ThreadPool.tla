------------------------------- MODULE ThreadPool -------------------------------
(***************************************************************************)
(* asio2::thread_pool: workers that share one queue of tasks and have one  *)
(* each, under one mutex and one condition variable.  A task may post      *)
(* another one; the pool is destroyed by a thread that is not a worker.    *)
(***************************************************************************)
EXTENDS Naturals, Sequences, FiniteSets, SequencesExt

CONSTANTS Worker,   \* the workers
          Task      \* the tasks ever posted, each one once

Shared == "shared"
Queue == Worker \cup {Shared}

VARIABLES tasks,    \* tasks[q]: tasks_ (Shared) and indexed_tasks_ (of a worker)
          at,       \* at[w]: "check", "wait" (in cv_), "run" or "exit"
          task,     \* task[w]: what worker w runs, a sequence of at most one task
          posted,   \* posted[t]: the queue t was posted to, or "none", a history variable
          ran,      \* the tasks run, in the order in which they were taken: history
          stop      \* stop_

vars == <<tasks, at, task, posted, ran, stop>>

Init ==
    /\ tasks = [q \in Queue |-> <<>>]
    /\ at = [w \in Worker |-> "check"] /\ task = [w \in Worker |-> <<>>]
    /\ posted = [t \in Task |-> "none"] /\ ran = <<>> /\ stop = FALSE

Waiting == {w \in Worker : at[w] = "wait"}

(* Mutant: a worker that waits is not told.                                *)
NotifyOne_Nobody == UNCHANGED at

(* cv_.notify_one() wakes one of those who wait, whichever it is.          *)
NotifyOne ==
    \/ Waiting = {} /\ UNCHANGED at
    \/ \E w \in Waiting : at' = [at EXCEPT ![w] = "check"]

(* post: to the shared queue, or to the queue of one worker.               *)
Post(t, q) ==
    /\ ~stop /\ posted[t] = "none"
    /\ tasks' = [tasks EXCEPT ![q] = Append(@, t)]
    /\ posted' = [posted EXCEPT ![t] = q]
    /\ NotifyOne
    /\ UNCHANGED <<task, ran, stop>>

(* The worker's condition for going on.                                    *)
Ready(w) == stop \/ tasks[Shared] # <<>> \/ tasks[w] # <<>>

Wait(w) ==
    /\ at[w] = "check" /\ ~Ready(w)
    /\ at' = [at EXCEPT ![w] = "wait"]
    /\ UNCHANGED <<tasks, task, posted, ran, stop>>

(* Mutant: the worker looks at its own queue only.                         *)
Finished_OwnOnly(w) == stop /\ tasks[w] = <<>>

Finished(w) == stop /\ tasks[Shared] = <<>> /\ tasks[w] = <<>>

Exit(w) ==
    /\ at[w] = "check" /\ Finished(w)
    /\ at' = [at EXCEPT ![w] = "exit"]
    /\ UNCHANGED <<tasks, task, posted, ran, stop>>

Next1(w) == IF tasks[w] = <<>> THEN Shared ELSE w

(* Mutant: the task stays in the queue while it runs.                      *)
Take_Front(w) ==
    /\ at[w] = "check" /\ Ready(w) /\ ~Finished(w)
    /\ tasks[Next1(w)] # <<>>
    /\ LET t == Head(tasks[Next1(w)]) IN
       /\ task' = [task EXCEPT ![w] = <<t>>]
       /\ ran' = Append(ran, t)
    /\ at' = [at EXCEPT ![w] = "run"]
    /\ UNCHANGED <<tasks, posted, stop>>

Take(w) ==
    /\ at[w] = "check" /\ Ready(w) /\ ~Finished(w)
    /\ tasks[Next1(w)] # <<>>
    /\ LET t == Head(tasks[Next1(w)]) IN
       /\ task' = [task EXCEPT ![w] = <<t>>]
       /\ ran' = Append(ran, t)
    /\ tasks' = [tasks EXCEPT ![Next1(w)] = Tail(@)]
    /\ at' = [at EXCEPT ![w] = "run"]
    /\ UNCHANGED <<posted, stop>>

Done(w) ==
    /\ at[w] = "run"
    /\ at' = [at EXCEPT ![w] = "check"]
    /\ task' = [task EXCEPT ![w] = <<>>]
    /\ UNCHANGED <<tasks, posted, ran, stop>>

(* Mutant: only one worker is told.                                        *)
Destroy_NotifyOne ==
    /\ ~stop /\ stop' = TRUE
    /\ NotifyOne
    /\ UNCHANGED <<tasks, task, posted, ran>>

(* ~thread_pool, which then joins the workers.                             *)
Destroy ==
    /\ ~stop /\ stop' = TRUE
    /\ at' = [w \in Worker |-> IF at[w] = "wait" THEN "check" ELSE at[w]]
    /\ UNCHANGED <<tasks, task, posted, ran>>

WorkerNext(w) == Wait(w) \/ Exit(w) \/ Take(w) \/ Done(w)

Next ==
    \/ \E w \in Worker : WorkerNext(w)
    \/ \E t \in Task, q \in Queue : Post(t, q)
    \/ Destroy

(* The workers run and every task ends.                                    *)
Fairness == \A w \in Worker : WF_vars(WorkerNext(w))

Spec == Init /\ [][Next]_vars /\ Fairness

-----------------------------------------------------------------------------
TypeOK ==
    /\ tasks \in [Queue -> Seq(Task)]
    /\ at \in [Worker -> {"check", "wait", "run", "exit"}]
    /\ task \in [Worker -> Seq(Task)]
    /\ posted \in [Task -> Queue \cup {"none"}] /\ ran \in Seq(Task) /\ stop \in BOOLEAN

(* No task is run twice, and a task for a worker runs on that worker.      *)
RunsOnce ==
    /\ \A i, j \in DOMAIN ran : ran[i] = ran[j] => i = j
    /\ \A w \in Worker : \A i \in DOMAIN task[w] : posted[task[w][i]] \in {w, Shared}

(* When the destructor has joined the workers, every task posted has been  *)
(* run: no future is left with a broken promise.                           *)
NothingLeft ==
    (\A w \in Worker : at[w] = "exit") => \A t \in Task : posted[t] # "none" => Contains(ran, t)

(* A task of the shared queue is run.                                      *)
SharedTaskRuns == \A t \in Task : posted[t] = Shared ~> Contains(ran, t)

(* "it will be executed asynchronously in the thread pool": so is a task   *)
(* posted with a thread index.                                             *)
IndexedTaskRuns == \A t \in Task : posted[t] \in Worker ~> Contains(ran, t)

(* The destructor returns.                                                 *)
DestroyReturns == stop ~> \A w \in Worker : at[w] = "exit"
=============================================================================
