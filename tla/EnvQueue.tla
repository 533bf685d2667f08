------------------------------ MODULE EnvQueue ------------------------------
(***************************************************************************)
(* The work queue of PosixEnv (kv/util/env_posix.cpp): Schedule and        *)
(* BackgroundThreadMain.  Threads, and the work itself, schedule work; one *)
(* thread, started by the first call, runs it.  A work item is its number  *)
(* in the order of the calls.                                              *)
(***************************************************************************)
EXTENDS Integers, Sequences

CONSTANT MaxScheduled

VARIABLES
    started_background_thread_,
    background_work_queue_,
    thread,                    \* "none", "entering", "waiting", "notified", "running"
    work,                      \* the item that runs, or 0
    scheduled,                 \* how many items were scheduled
    ran                        \* the items run to their end, in order

queueVars == <<started_background_thread_, background_work_queue_, thread, work, scheduled, ran>>

QueueInit ==
    /\ started_background_thread_ = FALSE /\ background_work_queue_ = <<>>
    /\ thread = "none" /\ work = 0 /\ scheduled = 0 /\ ran = <<>>

\* Variant of Schedule that looks at the queue when the work is in it.
Schedule_PushFirst ==
    /\ scheduled < MaxScheduled /\ scheduled' = scheduled + 1
    /\ started_background_thread_' = TRUE
    /\ thread' = IF ~started_background_thread_ THEN "entering" ELSE thread
    /\ background_work_queue_' = Append(background_work_queue_, scheduled')
    /\ UNCHANGED <<work, ran>>

\* One critical section; notify_one wakes the thread only if it waits.
Schedule ==
    /\ scheduled < MaxScheduled /\ scheduled' = scheduled + 1
    /\ started_background_thread_' = TRUE
    /\ thread' = IF ~started_background_thread_ THEN "entering"
                 ELSE IF background_work_queue_ = <<>> /\ thread = "waiting" THEN "notified" ELSE thread
    /\ background_work_queue_' = Append(background_work_queue_, scheduled')
    /\ UNCHANGED <<work, ran>>

\* The thread with the mutex: it waits, or takes the front and unlocks.
BackgroundThreadMain ==
    /\ thread \in {"entering", "notified"}
    /\ IF background_work_queue_ = <<>>
       THEN thread' = "waiting" /\ UNCHANGED <<background_work_queue_, work>>
       ELSE /\ thread' = "running"
            /\ work' = Head(background_work_queue_)
            /\ background_work_queue_' = Tail(background_work_queue_)
    /\ UNCHANGED <<started_background_thread_, scheduled, ran>>

\* background_work_function returns.
WorkReturns ==
    /\ thread = "running"
    /\ thread' = "entering" /\ work' = 0 /\ ran' = Append(ran, work)
    /\ UNCHANGED <<started_background_thread_, background_work_queue_, scheduled>>

\* wait may return without a notification.
SpuriousWakeup ==
    /\ thread = "waiting" /\ thread' = "notified"
    /\ UNCHANGED <<started_background_thread_, background_work_queue_, work, scheduled, ran>>

QueueNext == Schedule \/ BackgroundThreadMain \/ WorkReturns \/ SpuriousWakeup

\* The thread is scheduled, and what it runs returns; wakeups are not owed.
QueueFairness == WF_queueVars(BackgroundThreadMain) /\ WF_queueVars(WorkReturns)
QueueSpec == QueueInit /\ [][QueueNext]_queueVars /\ QueueFairness
-----------------------------------------------------------------------------
\* No item is lost, duplicated or overtaken: what ran, what runs and what is in
\* the queue are the items scheduled, in the order of the calls.
RunsInOrder ==
    ran \o (IF work = 0 THEN <<>> ELSE <<work>>) \o background_work_queue_ = [i \in 1..scheduled |-> i]

\* Every item runs exactly once, in the order of the calls and one at a time, and
\* whatever was scheduled has run once the calls cease: no wakeup is lost
\* between the empty check of Schedule and the wait.
ScheduledWorkRuns == []RunsInOrder /\ <>[](Len(ran) = scheduled)
=============================================================================
