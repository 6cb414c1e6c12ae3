----------------------------- MODULE WorkQueue -----------------------------
(***************************************************************************)
(* The thread pool of src/lib/evloop/workqueue.c: worker threads that take *)
(* work from priority queues under the pool lock, a condition variable     *)
(* they sleep on, "updates" that every worker must run, and a reply queue  *)
(* whose alert socket wakes the main thread.                               *)
(*                                                                         *)
(* Grain of atomicity: one action per critical section of pool->lock or    *)
(* of replyqueue->lock (what they touch is touched nowhere else), and one  *)
(* per step a thread takes outside of them: running a work or an update    *)
(* function, writing the alert socket, draining it, freeing old update     *)
(* arguments, returning from reply_fn.                                     *)
(***************************************************************************)
EXTENDS Integers, Sequences, FiniteSets, SequencesExt

CONSTANTS
  Threads,        \* the workerthread_t's launched by threadpool_start_threads
  Work,           \* addresses workqueue_entry_new can return
  NULL,           \* the null pointer
  Priorities,     \* the priorities callers use, of WQ_PRI_HIGH .. WQ_PRI_LOW
  FnResults,      \* what work functions return
  UpdateResults,  \* what update functions return
  MaxGeneration   \* bound on pool->generation (an unsigned in the code)

Reply == "WQ_RPL_REPLY"
Results == {Reply, "WQ_RPL_ERROR", "WQ_RPL_SHUTDOWN"}

ASSUME PoolAssumption ==
  /\ NULL \notin Work
  /\ IsFiniteSet(Threads)
  /\ Priorities \subseteq 0..2
  /\ FnResults \subseteq Results /\ FnResults # {}
  /\ UpdateResults \subseteq Results /\ UpdateResults # {}
  /\ MaxGeneration \in Nat

VARIABLES
  \* workqueue_entry_t objects
  alloc,          \* entries that are allocated
  pending,        \* entry->pending
  priority,       \* entry->priority, not read any more once it is begun
  \* threadpool_t, under pool->lock
  work,           \* pool->work[p]: the queue of priority p
  generation,     \* pool->generation
  update_args,    \* pool->update_args[t], NULL once taken
  \* workerthread_t: what each worker is doing
  pc, cur_work, result, cur_arg,
  thread_gen,     \* thread->generation
  state,          \* thread->state: generation of the last update it ran
  \* replyqueue_t
  answers,        \* queue->answers
  alert,          \* is queue->alert readable?
  \* the main thread
  main_pc, main_work,
  old_args,       \* old_args of threadpool_queue_update, to be freed
  \* history
  args_done,      \* update arguments consumed or freed, per thread
  queued_gen      \* pool->generation when the entry was queued, until it has run

entries == <<alloc, pending, priority, queued_gen>>
pool    == <<work, generation, update_args>>
thread  == <<pc, cur_work, result, cur_arg, thread_gen, state>>
replyq  == <<answers, alert>>
main    == <<main_pc, main_work, old_args>>
vars    == <<entries, pool, thread, replyq, main, args_done>>

Priority == 0..2
Gens     == 0..MaxGeneration
(* An update argument is named by the generation it was made for; 0 is     *)
(* NULL (the state a thread starts with is that of generation 0).          *)
NoArgs   == [t \in Threads |-> 0]

TypeOK ==
  /\ alloc \in SUBSET Work
  /\ pending \in [Work -> BOOLEAN]
  /\ priority \in [Work -> Priority]
  /\ work \in [Priority -> Seq(Work)]
  /\ generation \in Gens
  /\ update_args \in [Threads -> Gens]
  /\ pc \in [Threads ->
               {"lock", "wait", "update", "run", "reply", "alert", "exit"}]
  /\ cur_work \in [Threads -> Work \cup {NULL}]
  /\ result \in [Threads -> Results]
  /\ cur_arg \in [Threads -> Gens]
  /\ thread_gen \in [Threads -> Gens]
  /\ state \in [Threads -> Gens]
  /\ answers \in Seq(Work)
  /\ alert \in BOOLEAN
  /\ main_pc \in {"user", "process", "free_args"}
  /\ main_work \in Work \cup {NULL}
  /\ old_args \in [Threads -> Gens]
  /\ args_done \in [Threads -> SUBSET Gens]
  /\ queued_gen \in [Work -> Gens]

(* threadpool_new: the workers exist and are about to take the lock, which *)
(* threadpool_start_threads holds until all of them are in pool->threads.  *)
Init ==
  /\ alloc = {}
  /\ pending = [j \in Work |-> FALSE]
  /\ priority = [j \in Work |-> 0]
  /\ work = [p \in Priority |-> <<>>]
  /\ generation = 0
  /\ update_args = NoArgs
  /\ pc = [t \in Threads |-> "lock"]
  /\ cur_work = [t \in Threads |-> NULL]
  /\ result = [t \in Threads |-> Reply]
  /\ cur_arg = NoArgs
  /\ thread_gen = [t \in Threads |-> 0]
  /\ state = [t \in Threads |-> 0]
  /\ answers = <<>>
  /\ alert = FALSE
  /\ main_pc = "user"
  /\ main_work = NULL
  /\ old_args = NoArgs
  /\ args_done = [t \in Threads |-> {}]
  /\ queued_gen = [j \in Work |-> 0]
-----------------------------------------------------------------------------
(* The condition variable (pthread_cond_t behind tor_cond_t).              *)
Waiting == {t \in Threads : pc[t] = "wait"}

(* Mutant: signal only when the queue becomes nonempty.                    *)
signal_on_first_entry ==
  IF \A p \in Priority : work[p] = <<>>
  THEN \/ Waiting = {} /\ UNCHANGED pc
       \/ \E t \in Waiting : pc' = [pc EXCEPT ![t] = "lock"]
  ELSE UNCHANGED pc

tor_cond_signal_one ==
  \/ Waiting = {} /\ UNCHANGED pc
  \/ \E t \in Waiting : pc' = [pc EXCEPT ![t] = "lock"]

tor_cond_signal_all ==
  pc' = [t \in Threads |-> IF pc[t] = "wait" THEN "lock" ELSE pc[t]]

(* POSIX lets pthread_cond_wait return with no signal.                     *)
SpuriousWakeup(t) ==
  /\ pc[t] = "wait"
  /\ pc' = [pc EXCEPT ![t] = "lock"]
  /\ UNCHANGED <<entries, pool, cur_work, result, cur_arg, thread_gen, state,
                 replyq, main, args_done>>
-----------------------------------------------------------------------------
(* Worker threads: worker_thread_main.                                     *)
NonEmpty == {p \in Priority : work[p] # <<>>}

worker_thread_has_work(t) == NonEmpty # {} \/ thread_gen[t] # generation

update_is_due(t) == thread_gen[t] # generation

(* The update argument of thread t is taken out of its slot.               *)
slot_cleared(t) == [update_args EXCEPT ![t] = 0]

worker_begin_update(t) ==
  /\ pc[t] = "lock"
  /\ update_is_due(t)
  /\ cur_arg' = [cur_arg EXCEPT ![t] = update_args[t]]
  /\ update_args' = slot_cleared(t)
  /\ thread_gen' = [thread_gen EXCEPT ![t] = generation]
  /\ pc' = [pc EXCEPT ![t] = "update"]
  /\ UNCHANGED <<entries, work, generation, cur_work, result, state, replyq,
                 main, args_done>>

(* update_fn runs without the lock; unless it returns WQ_RPL_REPLY the     *)
(* thread returns from worker_thread_main.                                 *)
worker_run_update(t) ==
  /\ pc[t] = "update"
  /\ state' = [state EXCEPT ![t] = cur_arg[t]]
  /\ args_done' = [args_done EXCEPT ![t] = @ \cup {cur_arg[t]}]
  /\ cur_arg' = [cur_arg EXCEPT ![t] = 0]
  /\ \E r \in UpdateResults :
       pc' = [pc EXCEPT ![t] = IF r = Reply THEN "lock" ELSE "exit"]
  /\ UNCHANGED <<entries, pool, cur_work, result, thread_gen, replyq, main>>

(* Mutant: the lower queues are never looked at while a higher has work.   *)
highest_nonempty_queue == {p \in NonEmpty : \A q \in NonEmpty : p <= q}

(* The loop over the priorities stops at the first nonempty queue, or with *)
(* probability 1/lower_priority_chance goes on to a lower one: any         *)
(* nonempty queue can be the one it settles on.                            *)
queues_to_take_from == NonEmpty

(* Updates come first.  Mutant: work is taken whether one is due or not.   *)
no_check_for_update(t) == TRUE

update_is_done(t) == ~update_is_due(t)

(* Mutant: work->pending is left set.                                      *)
left_pending(j) == pending

no_longer_pending(j) == [pending EXCEPT ![j] = FALSE]

worker_thread_extract_next_work(t) ==
  /\ pc[t] = "lock"
  /\ update_is_done(t)
  /\ \E p \in queues_to_take_from :
       LET j == Head(work[p]) IN
         /\ work' = [work EXCEPT ![p] = Tail(@)]
         /\ pending' = no_longer_pending(j)
         /\ priority' = [priority EXCEPT ![j] = 0]
         /\ cur_work' = [cur_work EXCEPT ![t] = j]
  /\ pc' = [pc EXCEPT ![t] = "run"]
  /\ UNCHANGED <<alloc, queued_gen, generation, update_args, result, cur_arg,
                 thread_gen, state, replyq, main, args_done>>

(* Mutant: only work that succeeds is answered.                            *)
answer_only_success(t) ==
  /\ pc[t] = "run"
  /\ \E r \in FnResults :
       /\ result' = [result EXCEPT ![t] = r]
       /\ pc' = [pc EXCEPT ![t] = IF r = Reply THEN "reply" ELSE "lock"]
       /\ cur_work' = [cur_work EXCEPT ![t] = IF r = Reply THEN @ ELSE NULL]
  /\ UNCHANGED <<entries, pool, cur_arg, thread_gen, state, replyq, main,
                 args_done>>

(* Mutant: the worker drops its pointer to the entry too early.            *)
forget_work(t) ==
  /\ pc[t] = "run"
  /\ \E r \in FnResults : result' = [result EXCEPT ![t] = r]
  /\ pc' = [pc EXCEPT ![t] = "reply"]
  /\ cur_work' = [cur_work EXCEPT ![t] = NULL]
  /\ UNCHANGED <<entries, pool, cur_arg, thread_gen, state, replyq, main,
                 args_done>>

worker_run_work(t) ==
  /\ pc[t] = "run"
  /\ \E r \in FnResults : result' = [result EXCEPT ![t] = r]
  /\ pc' = [pc EXCEPT ![t] = "reply"]
  /\ UNCHANGED <<entries, pool, cur_work, cur_arg, thread_gen, state, replyq,
                 main, args_done>>

AfterReply(t) == IF result[t] = Reply THEN "lock" ELSE "exit"

(* Mutant: emptiness is looked at after the insertion.                     *)
alert_never_needed == FALSE

alert_is_needed == answers = <<>>

queue_reply(t) ==
  /\ pc[t] = "reply"
  /\ answers' = Append(answers, cur_work[t])
  /\ cur_work' = [cur_work EXCEPT ![t] = NULL]
  /\ queued_gen' = [queued_gen EXCEPT ![cur_work[t]] = 0]
  /\ pc' = [pc EXCEPT ![t] = IF alert_is_needed THEN "alert"
                                                ELSE AfterReply(t)]
  /\ UNCHANGED <<alloc, pending, priority, pool, result, cur_arg, thread_gen,
                 state, alert, main, args_done>>

alert_fn(t) ==
  /\ pc[t] = "alert"
  /\ alert' = TRUE
  /\ pc' = [pc EXCEPT ![t] = AfterReply(t)]
  /\ UNCHANGED <<entries, pool, cur_work, result, cur_arg, thread_gen, state,
                 answers, main, args_done>>

worker_cond_wait(t) ==
  /\ pc[t] = "lock"
  /\ ~worker_thread_has_work(t)
  /\ pc' = [pc EXCEPT ![t] = "wait"]
  /\ UNCHANGED <<entries, pool, cur_work, result, cur_arg, thread_gen, state,
                 replyq, main, args_done>>
-----------------------------------------------------------------------------
(* The main thread.  The pool's functions are called from event callbacks  *)
(* and from reply functions: main_pc = "user", with main_work the entry    *)
(* whose reply_fn is running, if any.                                      *)
threadpool_queue_work_priority(j, p) ==
  /\ main_pc = "user"
  /\ j \notin alloc
  /\ alloc' = alloc \cup {j}
  /\ pending' = [pending EXCEPT ![j] = TRUE]
  /\ priority' = [priority EXCEPT ![j] = p]
  /\ queued_gen' = [queued_gen EXCEPT ![j] = generation]
  /\ work' = [work EXCEPT ![p] = Append(@, j)]
  /\ tor_cond_signal_one
  /\ UNCHANGED <<generation, update_args, cur_work, result, cur_arg,
                 thread_gen, state, replyq, main, args_done>>

(* A caller must not cancel work whose reply_fn has run (or is running:    *)
(* entry->on_pool is already NULL); any other entry may be cancelled.      *)
(* An entry that is not pending is left alone: the call changes nothing.   *)
(* Nothing is left of what was in a freed entry.                           *)
(* Mutant: pending is not looked at, begun work is freed under its worker. *)
cancel_and_free(j) ==
  /\ main_pc = "user"
  /\ j \in alloc \ {main_work}
  /\ work' = [work EXCEPT ![priority[j]] = Remove(@, j)]
  /\ alloc' = alloc \ {j}
  /\ UNCHANGED <<pending, priority, queued_gen, generation, update_args,
                 thread, replyq, main, args_done>>

workqueue_entry_cancel(j) ==
  /\ main_pc = "user"
  /\ j \in alloc \ {main_work}
  /\ pending[j]
  /\ \E i \in DOMAIN work[priority[j]] :
       /\ work[priority[j]][i] = j
       /\ work' = [work EXCEPT ![priority[j]] = RemoveAt(@, i)]
  /\ alloc' = alloc \ {j}
  /\ pending' = [pending EXCEPT ![j] = FALSE]
  /\ priority' = [priority EXCEPT ![j] = 0]
  /\ queued_gen' = [queued_gen EXCEPT ![j] = 0]
  /\ UNCHANGED <<generation, update_args, thread, replyq, main, args_done>>

threadpool_queue_update ==
  /\ main_pc = "user"
  /\ generation < MaxGeneration
  /\ generation' = generation + 1
  /\ old_args' = update_args
  /\ update_args' = [t \in Threads |-> generation + 1]
  /\ tor_cond_signal_all
  /\ main_pc' = "free_args"
  /\ UNCHANGED <<entries, work, cur_work, result, cur_arg, thread_gen, state,
                 replyq, main_work, args_done>>

(* Mutant: only the array is freed, not the arguments in it.               *)
free_old_array ==
  /\ main_pc = "free_args"
  /\ old_args' = NoArgs
  /\ main_pc' = "user"
  /\ UNCHANGED <<entries, pool, thread, replyq, main_work, args_done>>

(* After unlocking, old arguments that no thread took are freed.           *)
free_old_args ==
  /\ main_pc = "free_args"
  /\ args_done' = [t \in Threads |-> args_done[t] \cup ({old_args[t]} \ {0})]
  /\ old_args' = NoArgs
  /\ main_pc' = "user"
  /\ UNCHANGED <<entries, pool, thread, replyq, main_work>>

(* replyqueue_process: drain the socket, then answer until none is left.   *)
reply_event_cb ==
  /\ main_pc = "user" /\ main_work = NULL
  /\ alert
  /\ alert' = FALSE
  /\ main_pc' = "process"
  /\ UNCHANGED <<entries, pool, thread, answers, main_work, old_args,
                 args_done>>

replyqueue_pop ==
  /\ main_pc = "process"
  /\ answers # <<>>
  /\ main_work' = Head(answers)
  /\ answers' = Tail(answers)
  /\ main_pc' = "user"
  /\ UNCHANGED <<entries, pool, thread, alert, old_args, args_done>>

reply_fn_returns ==
  /\ main_pc = "user" /\ main_work # NULL
  /\ alloc' = alloc \ {main_work}
  /\ main_work' = NULL
  /\ main_pc' = "process"
  /\ UNCHANGED <<pending, priority, queued_gen, pool, thread, replyq,
                 old_args, args_done>>

replyqueue_done ==
  /\ main_pc = "process"
  /\ answers = <<>>
  /\ main_pc' = "user"
  /\ UNCHANGED <<entries, pool, thread, replyq, main_work, old_args,
                 args_done>>
-----------------------------------------------------------------------------
worker_thread_main(t) ==
  \/ worker_begin_update(t)
  \/ worker_run_update(t)
  \/ worker_thread_extract_next_work(t)
  \/ worker_run_work(t)
  \/ queue_reply(t)
  \/ alert_fn(t)
  \/ worker_cond_wait(t)

replyqueue_process ==
  \/ reply_event_cb
  \/ replyqueue_pop
  \/ reply_fn_returns
  \/ replyqueue_done

Next ==
  \/ \E t \in Threads : worker_thread_main(t) \/ SpuriousWakeup(t)
  \/ \E j \in Work : \/ \E p \in Priorities : threadpool_queue_work_priority(j, p)
                     \/ workqueue_entry_cancel(j)
  \/ threadpool_queue_update
  \/ free_old_args
  \/ replyqueue_process

Spec == Init /\ [][Next]_vars
-----------------------------------------------------------------------------
(* Safety.                                                                 *)

Held(t)    == cur_work[t] # NULL
Queued(j)  == \E p \in Priority : \E i \in DOMAIN work[p] : work[p][i] = j

(* An entry is on the queue of its own priority, once, exactly as long as  *)
(* it is allocated and pending: what workqueue_entry_cancel relies on when *)
(* it unlinks an entry it only knows to be pending.                        *)
PendingIsQueued ==
  /\ \A p \in Priority : \A i \in DOMAIN work[p] :
       /\ work[p][i] \in alloc
       /\ pending[work[p][i]]
       /\ priority[work[p][i]] = p
       /\ \A k \in DOMAIN work[p] : work[p][i] = work[p][k] => i = k
  /\ \A j \in alloc : pending[j] => Queued(j)

(* An entry that a worker has begun has one owner from there on: a single  *)
(* worker, then one place in the reply queue, then the main thread.        *)
StartedHasOneOwner ==
  /\ \A t \in Threads : Held(t) =>
       /\ cur_work[t] \in alloc
       /\ ~pending[cur_work[t]]
       /\ cur_work[t] # main_work
       /\ \A u \in Threads : cur_work[u] = cur_work[t] => u = t
       /\ \A i \in DOMAIN answers : answers[i] # cur_work[t]
  /\ \A i \in DOMAIN answers :
       /\ answers[i] \in alloc
       /\ ~pending[answers[i]]
       /\ answers[i] # main_work
       /\ \A k \in DOMAIN answers : answers[i] = answers[k] => i = k
  /\ main_work # NULL => main_work \in alloc /\ ~pending[main_work]

(* No entry is lost: one that is allocated and not pending is with a       *)
(* worker, waiting to be answered, or being answered.                      *)
StartedIsHeld ==
  \A j \in alloc : pending[j] \/ j = main_work
                   \/ (\E t \in Threads : cur_work[t] = j)
                   \/ (\E i \in DOMAIN answers : answers[i] = j)

(* workqueue.c frees an entry when it is cancelled or answered: together,  *)
(* no queue, worker or caller is left with a freed entry, none is freed    *)
(* twice and none is forgotten.                                            *)
EntryOwnership == PendingIsQueued /\ StartedHasOneOwner /\ StartedIsHeld

(* No lost wake-up: while a worker sleeps on pool->condition, the queued   *)
(* entries are no more than the workers that are on their way to the       *)
(* queues with no update to run first, so none is left to the sleepers;    *)
(* and no worker sleeps through an update.                                 *)
OnTheirWay == {t \in Threads : pc[t] = "lock" /\ ~update_is_due(t)}
QueuedCount == Len(work[0]) + Len(work[1]) + Len(work[2])
NoLostWakeup ==
  /\ Waiting # {} => QueuedCount <= Cardinality(OnTheirWay)
  /\ \A t \in Waiting : ~update_is_due(t)

(* queue_reply alerts only when the reply queue was empty; still, answers  *)
(* never wait without the main thread being at them, its socket readable,  *)
(* or a worker about to make it so.                                        *)
NoLostAlert ==
  answers # <<>> =>
    \/ alert
    \/ main_pc = "process" \/ main_work # NULL
    \/ \E t \in Threads : pc[t] = "alert"

(* Every update argument made by threadpool_queue_update has one owner: it *)
(* is in its thread's slot, in that thread's hands, in the array the main  *)
(* thread is freeing, or done with.  None leaks, none is freed twice, and  *)
(* an update function is never run on a NULL argument.                     *)
UpdateArgOwnership ==
  \A t \in Threads :
    /\ \A g \in 1..generation :
         g \in {update_args[t], cur_arg[t], old_args[t]} \cup args_done[t]
    /\ update_args[t] # 0 =>
         update_args[t] \notin {cur_arg[t], old_args[t]} \cup args_done[t]
    /\ cur_arg[t] # 0 => cur_arg[t] \notin {old_args[t]} \cup args_done[t]
    /\ old_args[t] # 0 => old_args[t] \notin args_done[t]
    /\ 0 \notin args_done[t]

(* Work queued after an update runs in a thread that has run that update   *)
(* or a later one: cpuworkers_rotate_keyinfo counts on it when it replaces *)
(* the onion keys of the workers.                                          *)
WorkSeesUpdates ==
  \A t \in Threads : Held(t) => state[t] >= queued_gen[cur_work[t]]

(* Cancelling or answering is final and the order of life is kept: the     *)
(* pool implements the abstract one its callers reason with.               *)
StatusOf(j) ==
  CASE j \notin alloc -> "free"
    [] j \in alloc /\ pending[j] -> "pending"
    [] j \in alloc /\ ~pending[j] /\ j = main_work -> "replying"
    [] j \in alloc /\ ~pending[j] /\ j # main_work ->
         IF \E t \in Threads : cur_work[t] = j THEN "running" ELSE "answered"

JP == INSTANCE JobPool WITH status <- [j \in Work |-> StatusOf(j)]
ImplementsJobPool == JP!PoolSpec
-----------------------------------------------------------------------------
(* Liveness.  The scheduler runs every thread that can run, and the event  *)
(* loop calls the callback of a readable socket.                           *)
takes_from(p) ==
  /\ work[p] # <<>>
  /\ \E t \in Threads : worker_thread_extract_next_work(t)
  /\ work'[p] # work[p]

Fairness ==
  /\ \A t \in Threads : WF_vars(worker_thread_main(t))
  /\ WF_vars(replyqueue_process)
  /\ WF_vars(free_old_args)

(* Each extraction settles on any nonempty queue with some probability, so *)
(* a queue is not passed over for ever.                                    *)
PriorityFairness == \A p \in Priority : SF_vars(takes_from(p))

FairSpec == Spec /\ Fairness
PriorityFairSpec == FairSpec /\ PriorityFairness

(* Every entry handed to the pool is cancelled or answered, and freed, at  *)
(* any priority and however much other work keeps arriving, unless every   *)
(* thread of the pool has been told to exit.                               *)
EveryEntryIsFreed == \A j \in Work :
  j \in alloc ~> (j \notin alloc \/ \A t \in Threads : pc[t] = "exit")

(* An entry that a worker has begun is answered and freed, whatever its    *)
(* work function returns, as threadpool_queue_work_priority documents.     *)
StartedIsAnswered == \A j \in Work :
  (\E t \in Threads : cur_work[t] = j) ~> j \notin alloc
=============================================================================
