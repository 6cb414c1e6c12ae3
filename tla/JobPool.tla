------------------------------ MODULE JobPool ------------------------------
(***************************************************************************)
(* What the thread pool of src/lib/evloop/workqueue.c promises its caller, *)
(* with no threads, locks, queues or wake-ups in sight: the life of each   *)
(* work item between threadpool_queue_work_priority and its reply_fn.      *)
(*                                                                         *)
(* WorkQueue implements this specification; CpuWorker, the code that uses  *)
(* the pool, is built on it.                                               *)
(***************************************************************************)
CONSTANT Work          \* the work items (workqueue_entry_t objects)

VARIABLE status        \* where each work item is in its life

Status == {"free",      \* no such entry: not queued yet, cancelled or freed
           "pending",   \* queued, no worker has begun it
           "running",   \* a worker has begun it
           "answered",  \* the work function returned; the reply is waiting
           "replying"}  \* reply_fn is running in the main thread

PoolInit == status = [j \in Work |-> "free"]

Move(j, from, to) == /\ status[j] = from
                     /\ status' = [status EXCEPT ![j] = to]

(* The caller hands work in, and may take back what no worker has begun.   *)
Queue(j)  == Move(j, "free", "pending")
Cancel(j) == Move(j, "pending", "free")

(* A worker begins an item, and runs its function to the end.              *)
Start(j)  == Move(j, "pending", "running")
Finish(j) == Move(j, "running", "answered")

(* The main thread runs reply_fn once, then frees the entry.               *)
Reply(j)  == Move(j, "answered", "replying")
Free(j)   == Move(j, "replying", "free")

PoolNext == \E j \in Work : \/ Queue(j) \/ Cancel(j)
                            \/ Start(j) \/ Finish(j)
                            \/ Reply(j) \/ Free(j)

PoolSpec == PoolInit /\ [][PoolNext]_status
=============================================================================
