-------------------------- MODULE JobPoolRefinement --------------------------
(***************************************************************************)
(* The thread pool of workqueue.c implements the abstract pool of JobPool, *)
(* for any number of threads, entries and updates: CpuWorker may be built  *)
(* on the abstract one.                                                    *)
(***************************************************************************)
EXTENDS WorkQueueProofs

(* The refinement mapping, and what it depends on.                         *)
status == [j \in Work |-> StatusOf(j)]

life == <<alloc, pending, cur_work, main_work>>

(* What the mapping says of an entry, in terms of its owners: they are     *)
(* exclusive, by StartedHasOneOwner.                                       *)
StatusMeans == \A j \in Work :
  /\ StatusOf(j) = "free" <=> j \notin alloc
  /\ StatusOf(j) = "pending" <=> j \in alloc /\ pending[j]
  /\ StatusOf(j) = "replying" <=> j \in alloc /\ j = main_work
  /\ StatusOf(j) = "running" <=> j \in alloc /\ \E t \in Threads : cur_work[t] = j
  /\ StatusOf(j) \in JP!Status

LEMMA StatusCases == OwnInv => StatusMeans
<1> SUFFICES ASSUME OwnInv, NEW j \in Work
             PROVE  /\ StatusOf(j) = "free" <=> j \notin alloc
                    /\ StatusOf(j) = "pending" <=> j \in alloc /\ pending[j]
                    /\ StatusOf(j) = "replying" <=> j \in alloc /\ j = main_work
                    /\ StatusOf(j) = "running" <=>
                         j \in alloc /\ \E t \in Threads : cur_work[t] = j
                    /\ StatusOf(j) \in JP!Status
  BY DEF StatusMeans
<1> USE DEF JP!Status
<1>1. j # NULL
  BY PoolAssumption
<1>2. \A t \in Threads : cur_work[t] = j => ~pending[j] /\ j # main_work
  BY <1>1 DEF OwnInv, EntryOwnership, StartedHasOneOwner, Held
<1>3. j = main_work => ~pending[j]
  BY <1>1 DEF OwnInv, EntryOwnership, StartedHasOneOwner
<1>4. CASE j \notin alloc
  BY <1>4 DEF StatusOf
<1>5. CASE j \in alloc /\ pending[j]
  BY <1>5, <1>2, <1>3 DEF StatusOf
<1>6. CASE j \in alloc /\ ~pending[j] /\ j = main_work
  BY <1>6, <1>2 DEF StatusOf
<1>7. CASE j \in alloc /\ ~pending[j] /\ j # main_work
  BY <1>7 DEF StatusOf
<1> QED
  BY <1>4, <1>5, <1>6, <1>7

(* A step that changes the place of one entry only is a Move of that entry. *)
LEMMA OneMoves ==
  ASSUME NEW j \in Work, NEW from, NEW to,
         StatusOf(j) = from, StatusOf(j)' = to,
         \A x \in Work : x # j => StatusOf(x)' = StatusOf(x)
  PROVE  JP!Move(j, from, to)
<1>1. [x \in Work |-> StatusOf(x)]'
        = [[x \in Work |-> StatusOf(x)] EXCEPT ![j] = to]
  OBVIOUS
<1> QED
  BY <1>1 DEF JP!Move

(* An entry whose owners stay the same keeps its place.                    *)
LEMMA SamePlace ==
  ASSUME NEW x \in Work, x \in alloc' <=> x \in alloc,
         x \in alloc => /\ pending'[x] = pending[x]
                        /\ x = main_work' <=> x = main_work
                        /\ (\E t \in Threads : cur_work'[t] = x)
                             <=> (\E t \in Threads : cur_work[t] = x)
  PROVE  StatusOf(x)' = StatusOf(x)
<1>1. CASE x \notin alloc
  BY <1>1 DEF StatusOf
<1>2. CASE x \in alloc
  BY <1>2 DEF StatusOf
<1> QED
  BY <1>1, <1>2

LEMMA RefineStep ==
  OwnInv /\ OwnInv' /\ [Next]_vars => [JP!PoolNext]_status
<1> SUFFICES ASSUME OwnInv, OwnInv', [Next]_vars
             PROVE  [JP!PoolNext]_status
  OBVIOUS
<1>a. StatusMeans /\ StatusMeans'
  BY StatusCases, PTL
<1>b. NULL \notin Work
  BY PoolAssumption
<1> USE DEF OwnInv, TypeInv, TypeOK
<1>1. CASE UNCHANGED life
  <2>1. \A j \in Work : StatusOf(j)' = StatusOf(j)
    BY <1>1 DEF life, StatusOf
  <2> QED
    BY <2>1 DEF status
<1>2. ASSUME NEW t \in Threads, worker_thread_extract_next_work(t)
      PROVE  \E j \in Work : JP!Start(j)
  <2>1. PICK j \in Work : /\ j \in alloc /\ pending[j]
                          /\ pending' = [pending EXCEPT ![j] = FALSE]
                          /\ cur_work' = [cur_work EXCEPT ![t] = j]
                          /\ UNCHANGED <<alloc, main_work>>
    <3>1. PICK p \in Priority :
            /\ work[p] # <<>>
            /\ pending' = [pending EXCEPT ![Head(work[p])] = FALSE]
            /\ cur_work' = [cur_work EXCEPT ![t] = Head(work[p])]
      BY <1>2 DEF worker_thread_extract_next_work, queues_to_take_from, NonEmpty,
         no_longer_pending
    <3>2. Head(work[p]) \in Work /\ 1 \in DOMAIN work[p] /\ work[p][1] = Head(work[p])
      BY <3>1, TailIndex
    <3>3. Head(work[p]) \in alloc /\ pending[Head(work[p])]
      BY <3>2 DEF EntryOwnership, PendingIsQueued
    <3> QED
      BY <1>2, <3>1, <3>2, <3>3 DEF worker_thread_extract_next_work, main
  <2>2. cur_work[t] = NULL
    BY <1>2 DEF worker_thread_extract_next_work, HoldsByPc
  <2>3. StatusOf(j) = "pending" /\ StatusOf(j)' = "running"
    BY <2>1, <1>a DEF StatusMeans
  <2>4. ASSUME NEW x \in Work, x # j PROVE StatusOf(x)' = StatusOf(x)
    <3>1. \A u \in Threads : cur_work'[u] = x <=> cur_work[u] = x
      BY <2>1, <2>2, <2>4, <1>b
    <3> QED
      BY <2>1, <2>4, <3>1, SamePlace
  <2> QED
    BY <2>3, <2>4, OneMoves DEF JP!Start
<1>3. ASSUME NEW t \in Threads, queue_reply(t)
      PROVE  \E j \in Work : JP!Finish(j)
  <2>0. PICK j \in Work : j = cur_work[t]
    BY <1>3 DEF queue_reply, HoldsByPc
  <2>1. /\ j \in alloc /\ ~pending[j] /\ j # main_work
        /\ \A u \in Threads : cur_work[u] = j => u = t
        /\ cur_work' = [cur_work EXCEPT ![t] = NULL]
        /\ UNCHANGED <<alloc, pending, main_work>>
    BY <1>3, <2>0, <1>b DEF queue_reply, EntryOwnership, StartedHasOneOwner, Held,
       entries, main
  <2>2. StatusOf(j) = "running"
    BY <2>0, <2>1, <1>a DEF StatusMeans
  <2>3. StatusOf(j)' = "answered"
    <3>1. \A u \in Threads : cur_work'[u] # j
      BY <2>1, <1>b
    <3> QED
      BY <2>1, <3>1, <1>a DEF StatusMeans, JP!Status
  <2>4. ASSUME NEW x \in Work, x # j PROVE StatusOf(x)' = StatusOf(x)
    <3>1. \A u \in Threads : cur_work'[u] = x <=> cur_work[u] = x
      BY <2>0, <2>1, <2>4, <1>b
    <3> QED
      BY <2>1, <2>4, <3>1, SamePlace
  <2> QED
    BY <2>1, <2>2, <2>3, <2>4, OneMoves DEF JP!Finish
<1>4. ASSUME NEW j \in Work, NEW p \in Priorities,
             threadpool_queue_work_priority(j, p)
      PROVE  JP!Queue(j)
  <2>1. /\ j \notin alloc /\ alloc' = alloc \cup {j}
        /\ pending' = [pending EXCEPT ![j] = TRUE]
        /\ UNCHANGED <<cur_work, main_work>>
    BY <1>4 DEF threadpool_queue_work_priority, main
  <2>2. StatusOf(j) = "free" /\ StatusOf(j)' = "pending"
    BY <2>1, <1>a DEF StatusMeans
  <2>3. ASSUME NEW x \in Work, x # j PROVE StatusOf(x)' = StatusOf(x)
    BY <2>1, <2>3, SamePlace
  <2> QED
    BY <2>2, <2>3, OneMoves DEF JP!Queue
<1>5. ASSUME NEW j \in Work, workqueue_entry_cancel(j)
      PROVE  JP!Cancel(j)
  <2>1. /\ j \in alloc /\ pending[j] /\ alloc' = alloc \ {j}
        /\ \A x \in Work : x # j => pending'[x] = pending[x]
        /\ UNCHANGED <<cur_work, main_work>>
    BY <1>5 DEF workqueue_entry_cancel, thread, main
  <2>2. StatusOf(j) = "pending" /\ StatusOf(j)' = "free"
    BY <2>1, <1>a DEF StatusMeans
  <2>3. ASSUME NEW x \in Work, x # j PROVE StatusOf(x)' = StatusOf(x)
    BY <2>1, <2>3, SamePlace
  <2> QED
    BY <2>2, <2>3, OneMoves DEF JP!Cancel
<1>6. ASSUME replyqueue_pop
      PROVE  \E j \in Work : JP!Reply(j)
  <2>0. PICK j \in Work : j = Head(answers)
    BY <1>6, TailIndex DEF replyqueue_pop
  <2>1. /\ 1 \in DOMAIN answers /\ answers[1] = j
        /\ main_work = NULL /\ main_work' = j
        /\ UNCHANGED <<alloc, pending, cur_work>>
    BY <1>6, <2>0, TailIndex DEF replyqueue_pop, HoldsByPc, entries, thread
  <2>2. j \in alloc /\ ~pending[j] /\ \A t \in Threads : cur_work[t] # j
    BY <2>1, <1>b DEF EntryOwnership, StartedHasOneOwner, Held
  <2>3. StatusOf(j) = "answered"
    BY <2>1, <2>2, <1>a, <1>b DEF StatusMeans, JP!Status
  <2>4. StatusOf(j)' = "replying"
    BY <2>1, <2>2, <1>a DEF StatusMeans
  <2>5. ASSUME NEW x \in Work, x # j PROVE StatusOf(x)' = StatusOf(x)
    BY <2>1, <2>5, <1>b, SamePlace
  <2> QED
    BY <2>1, <2>3, <2>4, <2>5, OneMoves DEF JP!Reply
<1>7. ASSUME reply_fn_returns
      PROVE  \E j \in Work : JP!Free(j)
  <2>0. PICK j \in Work : j = main_work
    BY <1>7 DEF reply_fn_returns
  <2>1. /\ j \in alloc /\ alloc' = alloc \ {j} /\ main_work' = NULL
        /\ UNCHANGED <<pending, cur_work>>
    BY <1>7, <2>0 DEF reply_fn_returns, EntryOwnership, StartedHasOneOwner, thread
  <2>2. StatusOf(j) = "replying"
    BY <2>0, <2>1, <1>a DEF StatusMeans
  <2>3. StatusOf(j)' = "free"
    BY <2>1, <1>a DEF StatusMeans
  <2>4. ASSUME NEW x \in Work, x # j PROVE StatusOf(x)' = StatusOf(x)
    BY <2>0, <2>1, <2>4, <1>b, SamePlace
  <2> QED
    BY <2>1, <2>2, <2>3, <2>4, OneMoves DEF JP!Free
<1>8. ASSUME NEW t \in Threads,
             \/ worker_begin_update(t) \/ worker_run_update(t)
             \/ worker_run_work(t) \/ alert_fn(t) \/ worker_cond_wait(t)
             \/ SpuriousWakeup(t)
      PROVE  UNCHANGED life
  BY <1>8 DEF worker_begin_update, worker_run_update, worker_run_work, alert_fn,
     worker_cond_wait, SpuriousWakeup, life, entries, main
<1>9. ASSUME \/ threadpool_queue_update \/ free_old_args
             \/ reply_event_cb \/ replyqueue_done \/ UNCHANGED vars
      PROVE  UNCHANGED life
  BY <1>9 DEF threadpool_queue_update, free_old_args, reply_event_cb,
     replyqueue_done, life, vars, entries, thread, main
<1>10. CASE JP!PoolNext
  BY <1>10
<1> QED
  BY <1>1, <1>2, <1>3, <1>4, <1>5, <1>6, <1>7, <1>8, <1>9, <1>10
     DEF Next, worker_thread_main, replyqueue_process, JP!PoolNext

LEMMA RefineInit == Init => JP!PoolInit
  BY DEF Init, JP!PoolInit, StatusOf

(* The detailed pool implements the abstract one: to its callers a work    *)
(* item is queued, begun, answered and freed in this order, or cancelled   *)
(* before it is begun, whatever workers, updates and alerts do meanwhile.  *)
THEOREM Refinement == Spec => ImplementsJobPool
<1>1. Init => OwnInv
  BY TypeInit, OwnInit DEF OwnInv
<1>2. OwnInv /\ [Next]_vars => OwnInv'
  BY TypeNext, OwnNext DEF OwnInv
<1>3. Spec => []OwnInv
  BY <1>1, <1>2, PTL DEF Spec
<1>4. OwnInv /\ OwnInv' /\ [Next]_vars => [JP!PoolNext]_([j \in Work |-> StatusOf(j)])
  BY RefineStep DEF status
<1> QED
  BY <1>3, <1>4, RefineInit, PTL DEF Spec, ImplementsJobPool, JP!PoolSpec
=============================================================================
