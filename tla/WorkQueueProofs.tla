-------------------------- MODULE WorkQueueProofs --------------------------
(***************************************************************************)
(* Proofs, for any number of threads, entries and updates, of what the     *)
(* runs of MCWorkQueue check on small instances of WorkQueue.              *)
(***************************************************************************)
EXTENDS WorkQueue, SequenceLemmas, FiniteSetTheorems

(* What a thread holds follows from where it is in worker_thread_main, and *)
(* what the main thread holds from where it is in replyqueue_process.      *)
HoldsByPc ==
  /\ \A t \in Threads : pc[t] \in {"run", "reply"} <=> cur_work[t] # NULL
  /\ main_pc = "process" => main_work = NULL

TypeInv == TypeOK /\ HoldsByPc

LEMMA ZeroGen == 0 \in Gens
  BY PoolAssumption DEF Gens

LEMMA TypeInit == Init => TypeInv
<1> SUFFICES ASSUME Init PROVE TypeInv
  OBVIOUS
<1>1. 0 \in Gens /\ 0 \in Priority /\ Reply \in Results /\ NULL \notin Work
  BY PoolAssumption DEF Gens, Priority, Results
<1>2. work \in [Priority -> Seq(Work)] /\ answers \in Seq(Work)
  BY DEF Init
<1>3. pending \in [Work -> BOOLEAN] /\ alert \in BOOLEAN
  BY Zenon DEF Init
<1> QED
  BY <1>1, <1>2, <1>3 DEF Init, TypeInv, TypeOK, HoldsByPc, NoArgs

LEMMA TypeNext == TypeInv /\ [Next]_vars => TypeInv'
<1> SUFFICES ASSUME TypeInv, [Next]_vars PROVE TypeInv'
  OBVIOUS
<1> USE PoolAssumption DEF TypeInv, TypeOK, HoldsByPc
<1>1. ASSUME NEW t \in Threads, worker_begin_update(t) PROVE TypeInv'
  BY <1>1, ZeroGen DEF worker_begin_update, slot_cleared, entries, replyq, main
<1>2. ASSUME NEW t \in Threads, worker_run_update(t) PROVE TypeInv'
  BY <1>2, ZeroGen DEF worker_run_update, entries, pool, replyq, main
<1>3. ASSUME NEW t \in Threads, worker_thread_extract_next_work(t) PROVE TypeInv'
  <2>1. PICK p \in Priority :
          /\ work[p] # <<>>
          /\ work' = [work EXCEPT ![p] = Tail(@)]
          /\ pending' = [pending EXCEPT ![Head(work[p])] = FALSE]
          /\ priority' = [priority EXCEPT ![Head(work[p])] = 0]
          /\ cur_work' = [cur_work EXCEPT ![t] = Head(work[p])]
    BY <1>3 DEF worker_thread_extract_next_work, queues_to_take_from, NonEmpty,
       no_longer_pending
  <2>2. Head(work[p]) \in Work /\ Tail(work[p]) \in Seq(Work)
    BY <2>1
  <2>3. priority' \in [Work -> Priority]
    BY <2>1 DEF Priority
  <2>4. pending' \in [Work -> BOOLEAN]
    BY <2>1, Zenon
  <2>5. work' \in [Priority -> Seq(Work)]
    BY <2>1, <2>2
  <2> QED
    <3>1. /\ UNCHANGED <<alloc, queued_gen, generation, update_args, result, cur_arg,
                         thread_gen, state, answers, alert, main_pc, main_work,
                         old_args, args_done>>
          /\ pc' = [pc EXCEPT ![t] = "run"]
      BY <1>3 DEF worker_thread_extract_next_work, replyq, main
    <3>2. /\ cur_work' \in [Threads -> Work \cup {NULL}]
          /\ \A u \in Threads : pc'[u] \in {"run", "reply"} <=> cur_work'[u] # NULL
      BY <2>1, <2>2, <3>1
    <3> QED
      BY <2>3, <2>4, <2>5, <3>1, <3>2
<1>4. ASSUME NEW t \in Threads, worker_run_work(t) PROVE TypeInv'
  BY <1>4 DEF worker_run_work, entries, pool, replyq, main
<1>5. ASSUME NEW t \in Threads, queue_reply(t) PROVE TypeInv'
  <2>1. queued_gen' \in [Work -> Gens]
    BY <1>5, ZeroGen DEF queue_reply
  <2> QED
    BY <1>5, <2>1 DEF queue_reply, AfterReply, pool, main
<1>6. ASSUME NEW t \in Threads, alert_fn(t) PROVE TypeInv'
  BY <1>6 DEF alert_fn, AfterReply, entries, pool, main
<1>7. ASSUME NEW t \in Threads, worker_cond_wait(t) PROVE TypeInv'
  BY <1>7 DEF worker_cond_wait, entries, pool, replyq, main
<1>8. ASSUME NEW t \in Threads, SpuriousWakeup(t) PROVE TypeInv'
  BY <1>8 DEF SpuriousWakeup, entries, pool, replyq, main
<1>9. ASSUME NEW j \in Work, NEW p \in Priorities,
             threadpool_queue_work_priority(j, p)
      PROVE  TypeInv'
  <2>1. p \in Priority
    BY DEF Priority
  <2>2. pending' \in [Work -> BOOLEAN]
    BY <1>9, Zenon DEF threadpool_queue_work_priority
  <2>3. work' \in [Priority -> Seq(Work)]
    BY <1>9, <2>1, AppendProperties DEF threadpool_queue_work_priority
  <2>4. /\ pc' \in [Threads -> {"lock", "wait", "update", "run", "reply", "alert", "exit"}]
        /\ \A t \in Threads : pc'[t] \in {"run", "reply"} <=> cur_work[t] # NULL
    BY <1>9 DEF threadpool_queue_work_priority, tor_cond_signal_one, Waiting
  <2> QED
    BY <1>9, <2>1, <2>2, <2>3, <2>4
       DEF threadpool_queue_work_priority, replyq, main
<1>10. ASSUME NEW j \in Work, workqueue_entry_cancel(j) PROVE TypeInv'
  <2>1. PICK i \in DOMAIN work[priority[j]] :
          work' = [work EXCEPT ![priority[j]] = RemoveAt(@, i)]
    BY <1>10 DEF workqueue_entry_cancel
  <2>2. work' \in [Priority -> Seq(Work)]
    BY <2>1, RemoveAtType
  <2>3. pending' \in [Work -> BOOLEAN]
    BY <1>10, Zenon DEF workqueue_entry_cancel
  <2>4. priority' \in [Work -> Priority] /\ queued_gen' \in [Work -> Gens]
    BY <1>10, ZeroGen DEF workqueue_entry_cancel, Priority
  <2> QED
    BY <1>10, <2>2, <2>3, <2>4 DEF workqueue_entry_cancel, thread, replyq, main
<1>11. CASE threadpool_queue_update
  BY <1>11, SMTT(30) DEF threadpool_queue_update, tor_cond_signal_all, Gens, entries, replyq
<1>12. CASE free_old_args
  BY <1>12, ZeroGen DEF free_old_args, NoArgs, entries, pool, thread, replyq
<1>13. CASE reply_event_cb
  BY <1>13 DEF reply_event_cb, entries, pool, thread
<1>14. CASE replyqueue_pop
  BY <1>14 DEF replyqueue_pop, entries, pool, thread
<1>15. CASE reply_fn_returns
  BY <1>15 DEF reply_fn_returns, pool, thread, replyq
<1>16. CASE replyqueue_done
  BY <1>16 DEF replyqueue_done, entries, pool, thread, replyq
<1>17. CASE UNCHANGED vars
  BY <1>17 DEF vars, entries, pool, thread, replyq, main
<1> QED
  BY <1>1, <1>2, <1>3, <1>4, <1>5, <1>6, <1>7, <1>8, <1>9, <1>10, <1>11, <1>12,
     <1>13, <1>14, <1>15, <1>16, <1>17
     DEF Next, worker_thread_main, replyqueue_process

(* Every variable of the pool keeps its type: in particular no worker ever *)
(* puts a NULL entry on the reply queue.                                   *)
THEOREM TypeCorrect == Spec => []TypeOK
<1>1. Spec => []TypeInv
  BY TypeInit, TypeNext, PTL DEF Spec
<1> QED
  BY <1>1, PTL DEF TypeInv
-----------------------------------------------------------------------------
(* EntryOwnership.  Only six actions touch what it speaks of.              *)
OwnInv == TypeInv /\ EntryOwnership

owned == <<alloc, pending, priority, work, cur_work, answers, main_work>>

LEMMA OwnInit == Init => EntryOwnership
  BY DEF Init, EntryOwnership, PendingIsQueued, StartedHasOneOwner,
     StartedIsHeld, Held, Queued, Priority

LEMMA OwnExtract ==
  ASSUME OwnInv, NEW t \in Threads, worker_thread_extract_next_work(t)
  PROVE  EntryOwnership'
<1> USE DEF OwnInv, TypeInv, TypeOK, EntryOwnership
<1>1. PICK p \in Priority :
        /\ work[p] # <<>>
        /\ work' = [work EXCEPT ![p] = Tail(@)]
        /\ pending' = [pending EXCEPT ![Head(work[p])] = FALSE]
        /\ priority' = [priority EXCEPT ![Head(work[p])] = 0]
        /\ cur_work' = [cur_work EXCEPT ![t] = Head(work[p])]
  BY DEF worker_thread_extract_next_work, queues_to_take_from, NonEmpty,
     no_longer_pending
<1> DEFINE j == Head(work[p])
<1>2. UNCHANGED <<alloc, answers, main_work>>
  BY DEF worker_thread_extract_next_work, replyq, main
<1>3. work[p] \in Seq(Work)
  OBVIOUS
<1>4. /\ j \in Work /\ 1 \in DOMAIN work[p] /\ work[p][1] = j
      /\ \A i \in DOMAIN Tail(work[p]) :
           i + 1 \in DOMAIN work[p] /\ i + 1 # 1 /\ Tail(work[p])[i] = work[p][i + 1]
      /\ \A k \in DOMAIN work[p] : k # 1 =>
           k - 1 \in DOMAIN Tail(work[p]) /\ Tail(work[p])[k - 1] = work[p][k]
  BY <1>1, <1>3, TailIndex
<1>5. j \in alloc /\ pending[j] /\ priority[j] = p
  BY <1>4 DEF PendingIsQueued
<1>6. cur_work[t] = NULL
  BY DEF worker_thread_extract_next_work, HoldsByPc
<1> HIDE DEF j
<1>7. PendingIsQueued'
  <2>1. /\ work'[p] = Tail(work[p]) /\ \A q \in Priority : q # p => work'[q] = work[q]
        /\ \A x \in Work : x # j => pending'[x] = pending[x] /\ priority'[x] = priority[x]
        /\ ~pending'[j]
    BY <1>1, <1>4 DEF j
  <2>2. ASSUME NEW q \in Priority, NEW k \in DOMAIN work'[q]
        PROVE  /\ work'[q][k] \in alloc' /\ pending'[work'[q][k]]
               /\ priority'[work'[q][k]] = q
               /\ \A l \in DOMAIN work'[q] : work'[q][k] = work'[q][l] => k = l
    <3>1. CASE q # p
      <4>1. work'[q] = work[q]
        BY <3>1, <2>1
      <4>2. work[q][k] \in Work /\ work[q][k] # j
        BY <3>1, <4>1, <1>5 DEF PendingIsQueued
      <4> QED
        BY <4>1, <4>2, <2>1, <1>2 DEF PendingIsQueued
    <3>2. CASE q = p
      <4>1. k \in Int /\ k + 1 \in DOMAIN work[p] /\ k + 1 # 1
            /\ work'[p][k] = work[p][k + 1]
        BY <3>2, <2>1, <1>3, <1>4
      <4>2. work'[p][k] # j
        BY <4>1, <1>4 DEF PendingIsQueued
      <4>3. ASSUME NEW l \in DOMAIN work'[p], work'[p][k] = work'[p][l]
            PROVE  k = l
        <5>1. l \in Int /\ l + 1 \in DOMAIN work[p] /\ work'[p][l] = work[p][l + 1]
          BY <2>1, <1>3, <1>4
        <5>2. k + 1 = l + 1
          BY <5>1, <4>1, <4>3, ZenonT(30) DEF PendingIsQueued
        <5> QED
          BY <5>1, <5>2, <4>1
      <4> QED
        BY <3>2, <4>1, <4>2, <4>3, <2>1, <1>2 DEF PendingIsQueued
    <3> QED
      BY <3>1, <3>2
  <2>3. ASSUME NEW x \in alloc', pending'[x]
        PROVE  Queued(x)'
    <3>1. x # j /\ x \in alloc /\ pending[x]
      BY <2>1, <2>3, <1>2
    <3>2. PICK q \in Priority : \E m \in DOMAIN work[q] : work[q][m] = x
      BY <3>1 DEF PendingIsQueued, Queued
    <3>3. PICK m \in DOMAIN work[q] : work[q][m] = x
      BY <3>2
    <3>4. \E k \in DOMAIN work'[q] : work'[q][k] = x
      <4>1. CASE q # p
        BY <4>1, <3>3, <2>1
      <4>2. CASE q = p
        <5>1. m # 1
          BY <4>2, <3>1, <3>3, <1>4
        <5>2. m - 1 \in DOMAIN work'[p] /\ work'[p][m - 1] = x
          BY <5>1, <4>2, <3>3, <2>1, <1>4
        <5> QED
          BY <5>2, <4>2
      <4> QED
        BY <4>1, <4>2
    <3> QED
      BY <3>4 DEF Queued
  <2> QED
    BY <2>2, <2>3 DEF PendingIsQueued
<1>8. StartedHasOneOwner'
  BY <1>1, <1>2, <1>5, <1>6 DEF StartedHasOneOwner, Held, j
<1>9. StartedIsHeld'
  <2> SUFFICES ASSUME NEW x \in alloc'
               PROVE  \/ pending'[x] \/ x = main_work'
                      \/ (\E u \in Threads : cur_work'[u] = x)
                      \/ (\E i \in DOMAIN answers' : answers'[i] = x)
    BY DEF StartedIsHeld
  <2>1. CASE x = j
    BY <2>1, <1>1 DEF j
  <2>2. CASE x # j
    <3>1. pending'[x] = pending[x] /\ x \in Work
      BY <2>2, <1>1, <1>2 DEF j
    <3>2. \A u \in Threads : cur_work[u] = x => cur_work'[u] = x
      BY <3>1, <1>1, <1>6, PoolAssumption
    <3> QED
      BY <3>1, <3>2, <1>2 DEF StartedIsHeld
  <2> QED
    BY <2>1, <2>2
<1> QED
  BY <1>7, <1>8, <1>9

LEMMA OwnReply ==
  ASSUME OwnInv, NEW t \in Threads, queue_reply(t)
  PROVE  EntryOwnership'
<1> USE DEF OwnInv, TypeInv, TypeOK, EntryOwnership
<1>1. /\ cur_work[t] \in Work /\ cur_work[t] # NULL
      /\ answers' = Append(answers, cur_work[t])
      /\ cur_work' = [cur_work EXCEPT ![t] = NULL]
      /\ UNCHANGED <<alloc, pending, priority, work, main_work>>
  BY DEF queue_reply, HoldsByPc, entries, pool, main
<1>2. /\ Len(answers) + 1 \in DOMAIN answers'
      /\ answers'[Len(answers) + 1] = cur_work[t]
      /\ \A i \in DOMAIN answers : i \in DOMAIN answers' /\ answers'[i] = answers[i]
      /\ \A i \in DOMAIN answers' : i = Len(answers) + 1 \/ i \in DOMAIN answers
  BY <1>1, AppendIndex
<1>3. PendingIsQueued'
  BY <1>1 DEF PendingIsQueued, Queued
<1>4. StartedHasOneOwner'
  BY <1>1, <1>2 DEF StartedHasOneOwner, Held
<1>5. StartedIsHeld'
  <2> SUFFICES ASSUME NEW x \in alloc'
               PROVE  \/ pending'[x] \/ x = main_work'
                      \/ (\E u \in Threads : cur_work'[u] = x)
                      \/ (\E i \in DOMAIN answers' : answers'[i] = x)
    BY DEF StartedIsHeld
  <2>1. CASE x = cur_work[t]
    BY <2>1, <1>2
  <2>2. CASE x # cur_work[t]
    <3>1. \A u \in Threads : cur_work[u] = x => cur_work'[u] = x
      BY <2>2, <1>1
    <3>2. (\E i \in DOMAIN answers : answers[i] = x) =>
            \E i \in DOMAIN answers' : answers'[i] = x
      BY <1>2
    <3> QED
      BY <3>1, <3>2, <1>1 DEF StartedIsHeld
  <2> QED
    BY <2>1, <2>2
<1> QED
  BY <1>3, <1>4, <1>5

LEMMA OwnQueue ==
  ASSUME OwnInv, NEW j \in Work, NEW p \in Priorities,
         threadpool_queue_work_priority(j, p)
  PROVE  EntryOwnership'
<1> USE DEF OwnInv, TypeInv, TypeOK, EntryOwnership
<1>1. /\ j \notin alloc /\ alloc' = alloc \cup {j}
      /\ pending' = [pending EXCEPT ![j] = TRUE]
      /\ priority' = [priority EXCEPT ![j] = p]
      /\ work' = [work EXCEPT ![p] = Append(@, j)]
      /\ UNCHANGED <<cur_work, answers, main_work>>
  BY DEF threadpool_queue_work_priority, replyq, main
<1>2. p \in Priority
  BY PoolAssumption DEF Priority
<1> DEFINE n == Len(work[p]) + 1
<1>3. /\ n \in DOMAIN Append(work[p], j) /\ Append(work[p], j)[n] = j
      /\ \A i \in DOMAIN work[p] : /\ i \in DOMAIN Append(work[p], j)
                                   /\ Append(work[p], j)[i] = work[p][i]
      /\ \A i \in DOMAIN Append(work[p], j) : i = n \/ i \in DOMAIN work[p]
  BY <1>2, AppendIndex
<1> HIDE DEF n
<1>4. PendingIsQueued'
  BY <1>1, <1>2, <1>3 DEF PendingIsQueued, Queued
<1>5. StartedHasOneOwner'
  BY <1>1 DEF StartedHasOneOwner, Held
<1>6. StartedIsHeld'
  BY <1>1, ZenonT(30) DEF StartedIsHeld
<1> QED
  BY <1>4, <1>5, <1>6

LEMMA OwnCancel ==
  ASSUME OwnInv, NEW j \in Work, workqueue_entry_cancel(j)
  PROVE  EntryOwnership'
<1> USE DEF OwnInv, TypeInv, TypeOK, EntryOwnership
<1> DEFINE p == priority[j]
<1>1. PICK i \in DOMAIN work[p] :
        /\ work[p][i] = j
        /\ work' = [work EXCEPT ![p] = RemoveAt(@, i)]
  BY DEF workqueue_entry_cancel
<1>2. /\ j \in alloc /\ pending[j] /\ alloc' = alloc \ {j}
      /\ \A x \in Work : x # j => pending'[x] = pending[x] /\ priority'[x] = priority[x]
      /\ UNCHANGED <<cur_work, answers, main_work>>
  BY DEF workqueue_entry_cancel, thread, replyq, main
<1>3. p \in Priority /\ work[p] \in Seq(Work) /\ DOMAIN work[p] \subseteq Int
  OBVIOUS
<1> DEFINE new == RemoveAt(work[p], i)
<1>4. /\ new \in Seq(Work) /\ DOMAIN new \subseteq Int
      /\ \A k \in DOMAIN new :
           \E m \in DOMAIN work[p] : m # i /\ new[k] = work[p][m]
                                   /\ m = IF k < i THEN k ELSE k + 1
      /\ \A m \in DOMAIN work[p] : m # i => \E k \in DOMAIN new : new[k] = work[p][m]
  BY <1>3, RemoveAtIndex, RemoveAtType
<1>5. work'[p] = new /\ \A q \in Priority : q # p => work'[q] = work[q]
  BY <1>1, <1>3
<1> HIDE DEF new, p
<1>6. PendingIsQueued'
  <2>1. ASSUME NEW q \in Priority, NEW k \in DOMAIN work'[q]
        PROVE  /\ work'[q][k] \in alloc' /\ pending'[work'[q][k]]
               /\ priority'[work'[q][k]] = q
    <3>1. PICK m \in DOMAIN work[q] : work'[q][k] = work[q][m] /\ (q = p => m # i)
      <4>1. ASSUME q # p
            PROVE  \E m \in DOMAIN work[q] : work'[q][k] = work[q][m]
        BY <1>5, <4>1
      <4>2. ASSUME q = p
            PROVE  \E m \in DOMAIN work[p] : work'[p][k] = work[p][m] /\ m # i
        <5>1. k \in DOMAIN new /\ work'[p] = new
          BY <1>5, <4>2
        <5> QED
          BY <1>4, <5>1
      <4> QED
        BY <4>1, <4>2
    <3>2. work[q][m] # j
      BY <1>1, <1>3, <3>1 DEF PendingIsQueued, p
    <3>3. work[q][m] \in Work
      BY <3>1 DEF PendingIsQueued
    <3> QED
      BY <1>2, <3>1, <3>2, <3>3 DEF PendingIsQueued
  <2>2. ASSUME NEW q \in Priority, NEW k \in DOMAIN work'[q],
               NEW l \in DOMAIN work'[q], work'[q][k] = work'[q][l]
        PROVE  k = l
    <3>1. CASE q # p
      BY <3>1, <2>2, <1>5 DEF PendingIsQueued
    <3>2. CASE q = p
      <4>1. k \in Int /\ l \in Int /\ i \in Int
        BY <3>2, <1>3, <1>4, <1>5
      <4>2. PICK a \in DOMAIN work[p] : /\ work'[p][k] = work[p][a]
                                       /\ a = IF k < i THEN k ELSE k + 1
        BY <3>2, <1>4, <1>5
      <4>3. PICK b \in DOMAIN work[p] : /\ work'[p][l] = work[p][b]
                                       /\ b = IF l < i THEN l ELSE l + 1
        BY <3>2, <1>4, <1>5
      <4>4. a = b
        BY <4>2, <4>3, <3>2, <2>2, <1>3 DEF PendingIsQueued
      <4> QED
        BY <4>1, <4>2, <4>3, <4>4
    <3> QED
      BY <3>1, <3>2
  <2>3. ASSUME NEW x \in alloc', pending'[x]
        PROVE  Queued(x)'
    <3>1. PICK q \in Priority : \E m \in DOMAIN work[q] : work[q][m] = x
      BY <2>3, <1>2 DEF PendingIsQueued, Queued
    <3>2. x # j
      BY <2>3, <1>2
    <3>3. PICK m \in DOMAIN work[q] : work[q][m] = x
      BY <3>1
    <3>4. CASE q # p
      BY <3>3, <3>4, <1>5 DEF Queued
    <3>5. CASE q = p
      <4>1. m # i
        BY <3>2, <3>3, <3>5, <1>1
      <4>2. \E k \in DOMAIN work'[q] : work'[q][k] = x
        BY <4>1, <3>3, <3>5, <1>4, <1>5
      <4> QED
        BY <4>2 DEF Queued
    <3> QED
      BY <3>4, <3>5
  <2> QED
    BY <2>1, <2>2, <2>3 DEF PendingIsQueued
<1>7. StartedHasOneOwner'
  BY <1>2 DEF StartedHasOneOwner, Held
<1>8. StartedIsHeld'
  BY <1>2 DEF StartedIsHeld
<1> QED
  BY <1>6, <1>7, <1>8

LEMMA OwnPop ==
  ASSUME OwnInv, replyqueue_pop
  PROVE  EntryOwnership'
<1> USE DEF OwnInv, TypeInv, TypeOK, EntryOwnership
<1>1. /\ answers # <<>> /\ main_work = NULL /\ main_work' = Head(answers)
      /\ answers' = Tail(answers)
      /\ UNCHANGED <<alloc, pending, priority, work, cur_work>>
  BY DEF replyqueue_pop, HoldsByPc, entries, pool, thread
<1>2. /\ main_work' \in Work /\ 1 \in DOMAIN answers /\ answers[1] = main_work'
      /\ \A i \in DOMAIN answers' :
           i + 1 \in DOMAIN answers /\ i + 1 # 1 /\ answers'[i] = answers[i + 1]
      /\ \A k \in DOMAIN answers : k # 1 =>
           k - 1 \in DOMAIN answers' /\ answers'[k - 1] = answers[k]
  BY <1>1, TailIndex
<1>3. PendingIsQueued'
  BY <1>1 DEF PendingIsQueued, Queued
<1>4. StartedHasOneOwner'
  <2>1. ASSUME NEW t \in Threads, cur_work'[t] # NULL
        PROVE  /\ cur_work'[t] \in alloc' /\ ~pending'[cur_work'[t]] /\ cur_work'[t] # main_work'
               /\ \A u \in Threads : cur_work'[u] = cur_work'[t] => u = t
               /\ \A i \in DOMAIN answers' : answers'[i] # cur_work'[t]
    <3>1. /\ cur_work[t] \in alloc /\ ~pending[cur_work[t]]
          /\ \A u \in Threads : cur_work[u] = cur_work[t] => u = t
          /\ \A i \in DOMAIN answers : answers[i] # cur_work[t]
      BY <1>1, <2>1 DEF StartedHasOneOwner, Held
    <3> QED
      BY <1>1, <1>2, <3>1
  <2>2. ASSUME NEW i \in DOMAIN answers'
        PROVE  /\ answers'[i] \in alloc' /\ ~pending'[answers'[i]] /\ answers'[i] # main_work'
               /\ \A k \in DOMAIN answers' : answers'[i] = answers'[k] => i = k
    <3>1. /\ i + 1 \in DOMAIN answers /\ i + 1 # 1 /\ answers'[i] = answers[i + 1]
          /\ i \in Int /\ \A k \in DOMAIN answers' : k \in Int
      BY <1>1, <1>2
    <3>2. /\ answers[i + 1] \in alloc /\ ~pending[answers[i + 1]]
          /\ \A k \in DOMAIN answers : answers[i + 1] = answers[k] => i + 1 = k
      BY <3>1 DEF StartedHasOneOwner
    <3>3. answers'[i] # main_work'
      BY <1>2, <3>1, <3>2
    <3>4. ASSUME NEW k \in DOMAIN answers', answers'[i] = answers'[k]
          PROVE  i = k
      <4>1. i + 1 = k + 1
        BY <1>2, <3>1, <3>2, <3>4
      <4> QED
        BY <3>1, <4>1
    <3> QED
      BY <1>1, <3>1, <3>2, <3>3, <3>4
  <2>3. main_work' \in alloc' /\ ~pending'[main_work']
    BY <1>1, <1>2 DEF StartedHasOneOwner
  <2> QED
    BY <2>1, <2>2, <2>3 DEF StartedHasOneOwner, Held
<1>5. StartedIsHeld'
  <2> SUFFICES ASSUME NEW x \in alloc'
               PROVE  \/ pending'[x] \/ x = main_work'
                      \/ (\E u \in Threads : cur_work'[u] = x)
                      \/ (\E i \in DOMAIN answers' : answers'[i] = x)
    BY DEF StartedIsHeld
  <2>1. x \in alloc /\ x # main_work
    BY <1>1, PoolAssumption
  <2>2. (\E i \in DOMAIN answers : answers[i] = x) =>
          x = main_work' \/ \E i \in DOMAIN answers' : answers'[i] = x
    BY <1>2
  <2> QED
    BY <2>1, <2>2, <1>1 DEF StartedIsHeld
<1> QED
  BY <1>3, <1>4, <1>5

LEMMA OwnFree ==
  ASSUME OwnInv, reply_fn_returns
  PROVE  EntryOwnership'
<1> USE DEF OwnInv, TypeInv, TypeOK, EntryOwnership
<1>1. /\ main_work # NULL /\ alloc' = alloc \ {main_work} /\ main_work' = NULL
      /\ UNCHANGED <<pending, priority, work, cur_work, answers>>
  BY DEF reply_fn_returns, pool, thread, replyq
<1>2. PendingIsQueued'
  BY <1>1 DEF PendingIsQueued, StartedHasOneOwner, Queued
<1>3. StartedHasOneOwner'
  BY <1>1, PoolAssumption DEF StartedHasOneOwner, Held
<1>4. StartedIsHeld'
  BY <1>1 DEF StartedIsHeld
<1> QED
  BY <1>2, <1>3, <1>4

LEMMA OwnUnchanged == ASSUME EntryOwnership, UNCHANGED owned PROVE EntryOwnership'
  BY DEF owned, EntryOwnership, PendingIsQueued, StartedHasOneOwner,
     StartedIsHeld, Held, Queued

LEMMA OwnNext == OwnInv /\ [Next]_vars => EntryOwnership'
<1> SUFFICES ASSUME OwnInv, [Next]_vars PROVE EntryOwnership'
  OBVIOUS
<1>1. CASE UNCHANGED owned
  BY <1>1, OwnUnchanged DEF OwnInv
<1>2. CASE \E t \in Threads : worker_thread_extract_next_work(t)
  BY <1>2, OwnExtract
<1>3. CASE \E t \in Threads : queue_reply(t)
  BY <1>3, OwnReply
<1>4. CASE \E j \in Work, p \in Priorities : threadpool_queue_work_priority(j, p)
  BY <1>4, OwnQueue
<1>5. CASE \E j \in Work : workqueue_entry_cancel(j)
  BY <1>5, OwnCancel
<1>6. CASE replyqueue_pop
  BY <1>6, OwnPop
<1>7. CASE reply_fn_returns
  BY <1>7, OwnFree
<1>8. ASSUME NEW t \in Threads,
             \/ worker_begin_update(t) \/ worker_run_update(t)
             \/ worker_run_work(t) \/ alert_fn(t) \/ worker_cond_wait(t)
             \/ SpuriousWakeup(t)
      PROVE  UNCHANGED owned
  BY <1>8 DEF worker_begin_update, worker_run_update, worker_run_work, alert_fn,
     worker_cond_wait, SpuriousWakeup, owned, entries, pool, replyq, main
<1>9. ASSUME \/ threadpool_queue_update \/ free_old_args
             \/ reply_event_cb \/ replyqueue_done \/ UNCHANGED vars
      PROVE  UNCHANGED owned
  BY <1>9 DEF threadpool_queue_update, free_old_args, reply_event_cb,
     replyqueue_done, owned, vars, entries, pool, thread, replyq, main
<1> QED
  BY <1>1, <1>2, <1>3, <1>4, <1>5, <1>6, <1>7, <1>8, <1>9
     DEF Next, worker_thread_main, replyqueue_process

(* No queue, worker or caller is ever left with a freed workqueue_entry_t, *)
(* none is freed twice and none is forgotten, whatever the number of       *)
(* threads and entries and whenever callers cancel.                        *)
THEOREM Ownership == Spec => []EntryOwnership
<1>1. Init => OwnInv
  BY TypeInit, OwnInit DEF OwnInv
<1>2. OwnInv /\ [Next]_vars => OwnInv'
  BY TypeNext, OwnNext DEF OwnInv
<1> QED
  BY <1>1, <1>2, PTL DEF Spec, OwnInv
-----------------------------------------------------------------------------
(* NoLostAlert is inductive once HoldsByPc is known.                       *)
LEMMA AlertNext == TypeInv /\ NoLostAlert /\ [Next]_vars => NoLostAlert'
<1> SUFFICES ASSUME TypeInv, NoLostAlert, [Next]_vars PROVE NoLostAlert'
  OBVIOUS
<1> USE DEF TypeInv, TypeOK, NoLostAlert
<1>1. ASSUME NEW t \in Threads,
             \/ worker_begin_update(t) \/ worker_run_update(t)
             \/ worker_thread_extract_next_work(t) \/ worker_run_work(t)
             \/ worker_cond_wait(t) \/ SpuriousWakeup(t)
      PROVE  NoLostAlert'
  <2>1. /\ UNCHANGED <<answers, alert, main_pc, main_work>>
        /\ pc[t] # "alert" /\ \A u \in Threads : u # t => pc'[u] = pc[u]
    BY <1>1 DEF worker_begin_update, worker_run_update, worker_run_work,
       worker_thread_extract_next_work, worker_cond_wait, SpuriousWakeup,
       replyq, main
  <2> QED
    BY <2>1
<1>2. ASSUME NEW t \in Threads, queue_reply(t) PROVE NoLostAlert'
  <2>1. /\ UNCHANGED <<alert, main_pc, main_work>>
        /\ pc[t] # "alert" /\ \A u \in Threads : u # t => pc'[u] = pc[u]
        /\ answers = <<>> => pc'[t] = "alert"
    BY <1>2 DEF queue_reply, alert_is_needed, main
  <2> QED
    BY <2>1
<1>3. ASSUME NEW t \in Threads, alert_fn(t) PROVE NoLostAlert'
  BY <1>3 DEF alert_fn
<1>4. ASSUME NEW j \in Work, NEW p \in Priorities,
             threadpool_queue_work_priority(j, p)
      PROVE  NoLostAlert'
  <2>1. UNCHANGED <<answers, alert, main_pc, main_work>>
    BY <1>4 DEF threadpool_queue_work_priority, replyq, main
  <2>2. \A t \in Threads : pc[t] = "alert" => pc'[t] = "alert"
    BY <1>4 DEF threadpool_queue_work_priority, tor_cond_signal_one, Waiting
  <2> QED
    BY <2>1, <2>2
<1>5. ASSUME NEW j \in Work, workqueue_entry_cancel(j) PROVE NoLostAlert'
  BY <1>5 DEF workqueue_entry_cancel, thread, replyq, main
<1>6. CASE threadpool_queue_update
  BY <1>6 DEF threadpool_queue_update, tor_cond_signal_all, replyq
<1>7. CASE free_old_args
  BY <1>7 DEF free_old_args, thread, replyq
<1>8. CASE reply_event_cb
  BY <1>8 DEF reply_event_cb
<1>9. CASE replyqueue_pop
  BY <1>9, TailIndex, PoolAssumption DEF replyqueue_pop
<1>10. CASE reply_fn_returns
  BY <1>10 DEF reply_fn_returns
<1>11. CASE replyqueue_done
  BY <1>11 DEF replyqueue_done, replyq
<1>12. CASE UNCHANGED vars
  BY <1>12 DEF vars, thread, replyq, main
<1> QED
  BY <1>1, <1>2, <1>3, <1>4, <1>5, <1>6, <1>7, <1>8, <1>9, <1>10, <1>11, <1>12
     DEF Next, worker_thread_main, replyqueue_process

(* Answers never wait unnoticed although queue_reply writes the alert      *)
(* socket only when it finds the reply queue empty, after unlocking it.    *)
THEOREM AlertsAreNotLost == Spec => []NoLostAlert
<1>1. Init => TypeInv /\ NoLostAlert
  BY TypeInit DEF Init, NoLostAlert
<1> QED
  BY <1>1, TypeNext, AlertNext, PTL DEF Spec
-----------------------------------------------------------------------------
(* Updates.  A thread's generation, its slot, the argument in its hands    *)
(* and the state it runs with move together.                               *)
UpdateByPc ==
  \A t \in Threads :
    /\ thread_gen[t] <= generation
    /\ update_args[t] # 0 <=> thread_gen[t] # generation
    /\ update_args[t] # 0 => update_args[t] = generation
    /\ pc[t] = "update" => cur_arg[t] = thread_gen[t] /\ cur_arg[t] # 0
    /\ pc[t] # "update" => cur_arg[t] = 0
    /\ pc[t] # "update" => state[t] = thread_gen[t]
    /\ main_pc # "free_args" => old_args[t] = 0
    /\ old_args[t] <= generation
    /\ \A g \in args_done[t] : g <= generation

LEMMA UpdateTypes ==
  ASSUME TypeInv
  PROVE  /\ generation \in Nat
         /\ \A t \in Threads : /\ update_args[t] \in Nat /\ cur_arg[t] \in Nat
                               /\ thread_gen[t] \in Nat /\ state[t] \in Nat
                               /\ old_args[t] \in Nat /\ args_done[t] \subseteq Nat
         /\ \A j \in Work : queued_gen[j] \in Nat
  BY PoolAssumption DEF TypeInv, TypeOK, Gens

UpdInv == TypeInv /\ UpdateByPc /\ UpdateArgOwnership

LEMMA UpdInit == Init => UpdateByPc /\ UpdateArgOwnership
  BY DEF Init, UpdateByPc, UpdateArgOwnership, NoArgs

updates == <<generation, update_args, cur_arg, thread_gen, state, old_args,
             args_done>>

LEMMA UpdNext == UpdInv /\ [Next]_vars => (UpdateByPc /\ UpdateArgOwnership)'
<1> SUFFICES ASSUME UpdInv, [Next]_vars
             PROVE  (UpdateByPc /\ UpdateArgOwnership)'
  OBVIOUS
<1> USE UpdateTypes DEF UpdInv
<1>1. ASSUME NEW t \in Threads, worker_begin_update(t)
      PROVE  (UpdateByPc /\ UpdateArgOwnership)'
  BY <1>1, SMTT(30) DEF worker_begin_update, update_is_due, slot_cleared, main,
     UpdateByPc, UpdateArgOwnership, TypeInv, TypeOK
<1>2. ASSUME NEW t \in Threads, worker_run_update(t)
      PROVE  (UpdateByPc /\ UpdateArgOwnership)'
  BY <1>2, SMTT(30) DEF worker_run_update, pool, main,
     UpdateByPc, UpdateArgOwnership, TypeInv, TypeOK
<1>3. CASE threadpool_queue_update
  <2>1. /\ generation' = generation + 1 /\ old_args' = update_args
        /\ main_pc = "user" /\ main_pc' = "free_args"
        /\ UNCHANGED <<cur_arg, thread_gen, state, args_done>>
        /\ \A t \in Threads : /\ update_args'[t] = generation + 1
                              /\ pc'[t] = "update" <=> pc[t] = "update"
    BY <1>3 DEF threadpool_queue_update, tor_cond_signal_all
  <2>2. UpdateByPc'
    BY <2>1 DEF UpdateByPc
  <2>3. ASSUME NEW t \in Threads
        PROVE  /\ old_args[t] = 0
               /\ \A g \in {cur_arg[t], old_args[t]} \cup args_done[t] : g <= generation
               /\ update_args[t] <= generation
    BY <2>1 DEF UpdateByPc
  <2>4. UpdateArgOwnership'
    <3> SUFFICES ASSUME NEW t \in Threads
                 PROVE
          /\ \A g \in 1..generation' :
               g \in {update_args'[t], cur_arg[t], update_args[t]} \cup args_done[t]
          /\ update_args'[t] \notin {cur_arg[t], update_args[t]} \cup args_done[t]
          /\ cur_arg[t] # 0 => cur_arg[t] \notin {update_args[t]} \cup args_done[t]
          /\ update_args[t] # 0 => update_args[t] \notin args_done[t]
          /\ 0 \notin args_done[t]
      BY <2>1 DEF UpdateArgOwnership
    <3>1. ASSUME NEW g \in 1..generation'
          PROVE  g = generation + 1 \/ g \in 1..generation
      BY <2>1
    <3> QED
      BY <3>1, <2>1, <2>3 DEF UpdateArgOwnership
  <2> QED
    BY <2>2, <2>4
<1>4. CASE free_old_args
  BY <1>4 DEF free_old_args, NoArgs, pool, thread,
     UpdateByPc, UpdateArgOwnership, TypeInv, TypeOK
<1>5. ASSUME UNCHANGED updates,
             main_pc' = "free_args" <=> main_pc = "free_args",
             \A t \in Threads : pc'[t] = "update" <=> pc[t] = "update"
      PROVE  (UpdateByPc /\ UpdateArgOwnership)'
  BY <1>5 DEF updates, UpdateByPc, UpdateArgOwnership
<1>6. ASSUME NEW t \in Threads,
             \/ worker_thread_extract_next_work(t) \/ worker_run_work(t)
             \/ queue_reply(t) \/ alert_fn(t)
             \/ worker_cond_wait(t) \/ SpuriousWakeup(t)
      PROVE  (UpdateByPc /\ UpdateArgOwnership)'
  BY <1>5, <1>6 DEF worker_run_work, worker_thread_extract_next_work,
     queue_reply, alert_fn, AfterReply, worker_cond_wait, SpuriousWakeup,
     pool, main, updates, TypeInv, TypeOK
<1>7. ASSUME NEW j \in Work, NEW p \in Priorities,
             threadpool_queue_work_priority(j, p)
      PROVE  (UpdateByPc /\ UpdateArgOwnership)'
  BY <1>5, <1>7 DEF threadpool_queue_work_priority, tor_cond_signal_one,
     Waiting, main, updates, TypeInv, TypeOK
<1>8. ASSUME NEW j \in Work, workqueue_entry_cancel(j)
      PROVE  (UpdateByPc /\ UpdateArgOwnership)'
  BY <1>5, <1>8 DEF workqueue_entry_cancel, thread, main, updates
<1>9. CASE reply_event_cb \/ replyqueue_pop \/ reply_fn_returns \/ replyqueue_done
           \/ UNCHANGED vars
  BY <1>5, <1>9 DEF reply_event_cb, replyqueue_pop, reply_fn_returns,
     replyqueue_done, vars, pool, thread, main, updates
<1> QED
  BY <1>1, <1>2, <1>3, <1>4, <1>6, <1>7, <1>8, <1>9
     DEF Next, worker_thread_main, replyqueue_process

(* Each argument threadpool_queue_update duplicates is used or freed by    *)
(* exactly one thread, however updates overtake one another.               *)
THEOREM UpdateArgs == Spec => []UpdateArgOwnership
<1>1. Init => UpdInv
  BY TypeInit, UpdInit DEF UpdInv
<1>2. UpdInv /\ [Next]_vars => UpdInv'
  BY TypeNext, UpdNext DEF UpdInv
<1> QED
  BY <1>1, <1>2, PTL DEF Spec, UpdInv

(* Work and updates: a thread takes work only when it has run every update *)
(* begun before, and so every update made before the work was queued.      *)
SeesInv == /\ UpdInv /\ EntryOwnership /\ WorkSeesUpdates
           /\ \A j \in Work : queued_gen[j] <= generation

LEMMA SeesNext ==
  SeesInv /\ [Next]_vars =>
    WorkSeesUpdates' /\ \A j \in Work : queued_gen'[j] <= generation'
<1> SUFFICES ASSUME SeesInv, [Next]_vars
             PROVE  WorkSeesUpdates' /\ \A j \in Work : queued_gen'[j] <= generation'
  OBVIOUS
<1> USE DEF SeesInv, UpdInv, TypeInv, TypeOK, WorkSeesUpdates, Held
<1>1. ASSUME NEW t \in Threads, worker_begin_update(t) \/ worker_run_update(t)
      PROVE  WorkSeesUpdates' /\ \A j \in Work : queued_gen'[j] <= generation'
  <2>1. cur_work[t] = NULL /\ UNCHANGED <<cur_work, queued_gen, generation>>
    BY <1>1 DEF worker_begin_update, worker_run_update, HoldsByPc, entries, pool
  <2>2. \A u \in Threads : u # t => state'[u] = state[u]
    BY <1>1 DEF worker_begin_update, worker_run_update
  <2> QED
    BY <2>1, <2>2
<1>2. ASSUME NEW t \in Threads, worker_thread_extract_next_work(t)
      PROVE  WorkSeesUpdates' /\ \A j \in Work : queued_gen'[j] <= generation'
  <2>1. state[t] = generation /\ UNCHANGED <<state, queued_gen, generation>>
    BY <1>2 DEF worker_thread_extract_next_work, update_is_done, update_is_due,
       UpdateByPc
  <2>2. /\ cur_work'[t] \in Work
        /\ \A u \in Threads : u # t => cur_work'[u] = cur_work[u]
    BY <1>2, TailIndex DEF worker_thread_extract_next_work, queues_to_take_from,
       NonEmpty
  <2> QED
    BY <2>1, <2>2, UpdateTypes
<1>3. ASSUME NEW t \in Threads, queue_reply(t)
      PROVE  WorkSeesUpdates' /\ \A j \in Work : queued_gen'[j] <= generation'
  <2>1. /\ UNCHANGED <<state, generation>>
        /\ queued_gen' = [queued_gen EXCEPT ![cur_work[t]] = 0]
        /\ cur_work[t] \in Work
        /\ cur_work' = [cur_work EXCEPT ![t] = NULL]
    BY <1>3 DEF queue_reply, pool, HoldsByPc
  <2>2. ASSUME NEW u \in Threads, u # t, cur_work[u] # NULL
        PROVE  cur_work[u] # cur_work[t] /\ cur_work[u] \in Work
    BY <2>1, <2>2 DEF EntryOwnership, StartedHasOneOwner
  <2>3. \A j \in Work : queued_gen'[j] = queued_gen[j] \/ queued_gen'[j] = 0
    BY <2>1
  <2>4. WorkSeesUpdates'
    BY <2>1, <2>2, UpdateTypes
  <2> QED
    BY <2>1, <2>3, <2>4, UpdateTypes
<1>4. ASSUME NEW j \in Work, NEW p \in Priorities,
             threadpool_queue_work_priority(j, p)
      PROVE  WorkSeesUpdates' /\ \A x \in Work : queued_gen'[x] <= generation'
  <2>1. /\ UNCHANGED <<cur_work, state, generation>> /\ j \notin alloc
        /\ queued_gen' = [queued_gen EXCEPT ![j] = generation]
    BY <1>4 DEF threadpool_queue_work_priority
  <2>2. \A t \in Threads : cur_work[t] # NULL => cur_work[t] # j /\ cur_work[t] \in Work
    BY <2>1 DEF EntryOwnership, StartedHasOneOwner
  <2> QED
    BY <2>1, <2>2, UpdateTypes
<1>5. CASE threadpool_queue_update
  BY <1>5, UpdateTypes DEF threadpool_queue_update, entries
<1>6. ASSUME UNCHANGED <<cur_work, state, queued_gen, generation>>
      PROVE  WorkSeesUpdates' /\ \A j \in Work : queued_gen'[j] <= generation'
  BY <1>6
<1>7. ASSUME NEW t \in Threads,
             worker_run_work(t) \/ alert_fn(t) \/ worker_cond_wait(t)
               \/ SpuriousWakeup(t)
      PROVE  UNCHANGED <<cur_work, state, queued_gen, generation>>
  BY <1>7 DEF worker_run_work, alert_fn, worker_cond_wait, SpuriousWakeup,
     entries, pool
<1>8. ASSUME \/ free_old_args \/ reply_event_cb \/ replyqueue_pop
             \/ reply_fn_returns \/ replyqueue_done \/ UNCHANGED vars
      PROVE  UNCHANGED <<cur_work, state, queued_gen, generation>>
  BY <1>8 DEF free_old_args, reply_event_cb,
     replyqueue_pop, reply_fn_returns, replyqueue_done, vars, entries, pool, thread
<1>9. ASSUME NEW j \in Work, workqueue_entry_cancel(j)
      PROVE  WorkSeesUpdates' /\ \A x \in Work : queued_gen'[x] <= generation'
  <2>1. /\ UNCHANGED <<cur_work, state, generation>> /\ pending[j]
        /\ queued_gen' = [queued_gen EXCEPT ![j] = 0]
    BY <1>9 DEF workqueue_entry_cancel, thread
  <2>2. \A t \in Threads : cur_work[t] # NULL => cur_work[t] # j /\ cur_work[t] \in Work
    BY <2>1 DEF EntryOwnership, StartedHasOneOwner
  <2> QED
    BY <2>1, <2>2, UpdateTypes
<1> QED
  BY <1>1, <1>2, <1>3, <1>4, <1>5, <1>6, <1>7, <1>8, <1>9
     DEF Next, worker_thread_main, replyqueue_process

(* A work function never runs with a thread state older than the last      *)
(* update queued before it: no onionskin is answered with keys that were   *)
(* replaced before it was handed to the pool.                              *)
THEOREM NoStaleState == Spec => []WorkSeesUpdates
<1>1. Init => SeesInv
  BY TypeInit, UpdInit, OwnInit DEF SeesInv, UpdInv, Init, WorkSeesUpdates, Held
<1>2. SeesInv /\ [Next]_vars => SeesInv'
  BY TypeNext, UpdNext, OwnNext, SeesNext DEF SeesInv, UpdInv, OwnInv
<1> QED
  BY <1>1, <1>2, PTL DEF Spec, SeesInv
-----------------------------------------------------------------------------
(* NoLostWakeup.  The entries queued and the threads on their way to them  *)
(* are counted; each changes by at most one in a step while some thread    *)
(* sleeps.                                                                 *)
LEMMA CountThreads ==
  ASSUME NEW A \in SUBSET Threads, NEW B \in SUBSET Threads
  PROVE  /\ Cardinality(A) \in Nat /\ Cardinality(B) \in Nat
         /\ A \subseteq B => Cardinality(A) <= Cardinality(B)
         /\ \A t \in B \ A : A \subseteq B => Cardinality(A) + 1 <= Cardinality(B)
<1>1. IsFiniteSet(A) /\ IsFiniteSet(B)
  BY PoolAssumption, FS_Subset
<1>2. Cardinality(A) \in Nat /\ Cardinality(B) \in Nat
  BY <1>1, FS_CardinalityType
<1>3. A \subseteq B => Cardinality(A) <= Cardinality(B)
  BY <1>1, FS_Subset
<1>4. ASSUME NEW t \in B \ A, A \subseteq B
      PROVE  Cardinality(A) + 1 <= Cardinality(B)
  <2>1. Cardinality(A) # Cardinality(B)
    BY <1>1, <1>4, FS_Subset
  <2> QED
    BY <2>1, <1>2, <1>3, <1>4
<1> QED
  BY <1>2, <1>3, <1>4

LEMMA CountQueued ==
  TypeInv => work \in [{0, 1, 2} -> Seq(Work)] /\ QueuedCount \in Nat
<1> SUFFICES ASSUME TypeInv PROVE work \in [{0, 1, 2} -> Seq(Work)]
  BY DEF QueuedCount
<1>1. Priority = {0, 1, 2}
  BY DEF Priority
<1> QED
  BY <1>1 DEF TypeInv, TypeOK

(* A step that queues nothing, takes nobody off the way and puts nobody to *)
(* sleep.                                                                  *)
LEMMA WakeupMonotone ==
  ASSUME TypeInv, NoLostWakeup,
         QueuedCount' \in Nat, QueuedCount' <= QueuedCount,
         OnTheirWay \subseteq OnTheirWay', Waiting' \subseteq Waiting,
         \A t \in Waiting' : ~update_is_due(t)'
  PROVE  NoLostWakeup'
<1>1. OnTheirWay \in SUBSET Threads /\ OnTheirWay' \in SUBSET Threads
  BY DEF OnTheirWay
<1>2. /\ Cardinality(OnTheirWay) <= Cardinality(OnTheirWay')
      /\ Cardinality(OnTheirWay) \in Nat /\ Cardinality(OnTheirWay') \in Nat
  BY <1>1, CountThreads
<1>3. QueuedCount \in Nat
  BY CountQueued
<1> QED
  BY <1>2, <1>3 DEF NoLostWakeup

LEMMA WakeupNext ==
  TypeInv /\ TypeInv' /\ NoLostWakeup /\ [Next]_vars => NoLostWakeup'
<1> SUFFICES ASSUME TypeInv, TypeInv', NoLostWakeup, [Next]_vars
             PROVE  NoLostWakeup'
  OBVIOUS
<1>0. /\ QueuedCount \in Nat /\ QueuedCount' \in Nat
      /\ Cardinality(OnTheirWay) \in Nat /\ Cardinality(OnTheirWay') \in Nat
      /\ OnTheirWay \in SUBSET Threads /\ OnTheirWay' \in SUBSET Threads
      /\ work \in [{0, 1, 2} -> Seq(Work)] /\ work' \in [{0, 1, 2} -> Seq(Work)]
      /\ Priority = {0, 1, 2}
  <2>1. OnTheirWay \in SUBSET Threads /\ OnTheirWay' \in SUBSET Threads
    BY DEF OnTheirWay
  <2>2. QueuedCount' \in Nat /\ work' \in [{0, 1, 2} -> Seq(Work)]
    <3>1. TypeInv' => (work \in [{0, 1, 2} -> Seq(Work)] /\ QueuedCount \in Nat)'
      BY CountQueued, PTL
    <3> QED
      BY <3>1
  <2>3. Cardinality(OnTheirWay) \in Nat /\ Cardinality(OnTheirWay') \in Nat
    BY <2>1, CountThreads
  <2>4. Priority = {0, 1, 2}
    BY DEF Priority
  <2> QED
    BY <2>1, <2>2, <2>3, <2>4, CountQueued
<1>1. ASSUME NEW t \in Threads,
             \/ worker_begin_update(t) \/ worker_run_update(t)
             \/ worker_run_work(t) \/ queue_reply(t) \/ alert_fn(t)
             \/ SpuriousWakeup(t)
      PROVE  NoLostWakeup'
  <2>1. UNCHANGED <<work, generation>>
        /\ pc'[t] # "wait" /\ (pc[t] = "lock" => update_is_due(t))
        /\ \A u \in Threads : u # t => pc'[u] = pc[u] /\ thread_gen'[u] = thread_gen[u]
    BY <1>1 DEF worker_begin_update, worker_run_update, worker_run_work, alert_fn,
       queue_reply, AfterReply, SpuriousWakeup, pool, TypeInv, TypeOK
  <2>2. OnTheirWay \subseteq OnTheirWay' /\ Waiting' \subseteq Waiting
    BY <2>1 DEF OnTheirWay, Waiting, update_is_due
  <2>3. \A u \in Waiting' : ~update_is_due(u)'
    BY <2>1 DEF Waiting, update_is_due, NoLostWakeup
  <2>4. QueuedCount' <= QueuedCount
    BY <2>1, <1>0 DEF QueuedCount
  <2> QED
    BY <2>2, <2>3, <2>4, <1>0, WakeupMonotone
<1>2. ASSUME NEW t \in Threads, worker_thread_extract_next_work(t)
      PROVE  NoLostWakeup'
  <2>1. /\ UNCHANGED <<generation, thread_gen>> /\ ~update_is_due(t)
        /\ pc[t] = "lock" /\ pc' = [pc EXCEPT ![t] = "run"]
    BY <1>2 DEF worker_thread_extract_next_work, update_is_done
  <2>2. PICK p \in Priority : work[p] # <<>> /\ work' = [work EXCEPT ![p] = Tail(@)]
    BY <1>2 DEF worker_thread_extract_next_work, queues_to_take_from, NonEmpty
  <2>3. QueuedCount' = QueuedCount - 1
    <3>1. \A q \in Priority : Len(work'[q]) = IF q = p THEN Len(work[q]) - 1 ELSE Len(work[q])
      BY <2>2, HeadTailProperties DEF TypeInv, TypeOK
    <3>2. p \in {0, 1, 2}
      BY DEF Priority
    <3>3. /\ Len(work'[0]) = IF 0 = p THEN Len(work[0]) - 1 ELSE Len(work[0])
          /\ Len(work'[1]) = IF 1 = p THEN Len(work[1]) - 1 ELSE Len(work[1])
          /\ Len(work'[2]) = IF 2 = p THEN Len(work[2]) - 1 ELSE Len(work[2])
      BY <3>1, <1>0
    <3>4. p = 0 \/ p = 1 \/ p = 2
      BY <1>0
    <3>5. Len(work[0]) \in Nat /\ Len(work[1]) \in Nat /\ Len(work[2]) \in Nat
      BY <1>0
    <3>6. CASE p = 0
      BY <3>3, <3>5, <3>6, <1>0 DEF QueuedCount
    <3>7. CASE p = 1
      BY <3>3, <3>5, <3>7, <1>0 DEF QueuedCount
    <3>8. CASE p = 2
      BY <3>3, <3>5, <3>8, <1>0 DEF QueuedCount
    <3> QED
      BY <3>4, <3>6, <3>7, <3>8
  <2>4. OnTheirWay' = OnTheirWay \ {t} /\ t \in OnTheirWay /\ Waiting' = Waiting
    BY <2>1 DEF OnTheirWay, Waiting, update_is_due, TypeInv, TypeOK
  <2>5. Cardinality(OnTheirWay') = Cardinality(OnTheirWay) - 1
    BY <2>4, <1>0, PoolAssumption, FS_Subset, FS_RemoveElement
  <2>6. \A u \in Waiting' : ~update_is_due(u)'
    BY <2>1, <2>4 DEF NoLostWakeup, update_is_due
  <2> QED
    BY <2>3, <2>4, <2>5, <2>6, <1>0 DEF NoLostWakeup
<1>3. ASSUME NEW t \in Threads, worker_cond_wait(t)
      PROVE  NoLostWakeup'
  <2>1. /\ UNCHANGED <<work, generation, thread_gen>>
        /\ ~update_is_due(t) /\ \A p \in Priority : work[p] = <<>>
        /\ \A u \in Threads : u # t => pc'[u] = pc[u]
    BY <1>3 DEF worker_cond_wait, worker_thread_has_work, NonEmpty, update_is_due, pool
  <2>2. QueuedCount' = 0
    BY <2>1, <1>0 DEF QueuedCount
  <2>3. \A u \in Waiting' : ~update_is_due(u)'
    BY <2>1 DEF Waiting, update_is_due, NoLostWakeup
  <2> QED
    BY <2>2, <2>3, <1>0 DEF NoLostWakeup
<1>4. ASSUME NEW j \in Work, NEW p \in Priorities,
             threadpool_queue_work_priority(j, p)
      PROVE  NoLostWakeup'
  <2>1. UNCHANGED <<generation, thread_gen>>
    BY <1>4 DEF threadpool_queue_work_priority
  <2>2. QueuedCount' = QueuedCount + 1
    <3>1. p \in {0, 1, 2} /\ p \in Priority
      BY PoolAssumption DEF Priority
    <3>2. \A q \in Priority : Len(work'[q]) = IF q = p THEN Len(work[q]) + 1 ELSE Len(work[q])
      BY <1>4, <3>1, AppendProperties DEF threadpool_queue_work_priority, TypeInv, TypeOK
    <3>3. /\ Len(work'[0]) = IF 0 = p THEN Len(work[0]) + 1 ELSE Len(work[0])
          /\ Len(work'[1]) = IF 1 = p THEN Len(work[1]) + 1 ELSE Len(work[1])
          /\ Len(work'[2]) = IF 2 = p THEN Len(work[2]) + 1 ELSE Len(work[2])
      BY <3>2, <1>0
    <3>4. p = 0 \/ p = 1 \/ p = 2
      BY <1>0, <3>1
    <3>5. Len(work[0]) \in Nat /\ Len(work[1]) \in Nat /\ Len(work[2]) \in Nat
      BY <1>0
    <3>6. CASE p = 0
      BY <3>3, <3>5, <3>6, <1>0 DEF QueuedCount
    <3>7. CASE p = 1
      BY <3>3, <3>5, <3>7, <1>0 DEF QueuedCount
    <3>8. CASE p = 2
      BY <3>3, <3>5, <3>8, <1>0 DEF QueuedCount
    <3> QED
      BY <3>4, <3>6, <3>7, <3>8
  <2>3. CASE Waiting = {} /\ UNCHANGED pc
    BY <2>3 DEF NoLostWakeup, Waiting
  <2>4. CASE \E t \in Waiting : pc' = [pc EXCEPT ![t] = "lock"]
    <3>1. PICK t \in Waiting : pc' = [pc EXCEPT ![t] = "lock"]
      BY <2>4
    <3>2. t \in Threads /\ pc[t] = "wait" /\ ~update_is_due(t)
      BY DEF Waiting, NoLostWakeup
    <3>3. /\ OnTheirWay \subseteq OnTheirWay' /\ t \in OnTheirWay' \ OnTheirWay
          /\ Waiting' \subseteq Waiting
      BY <3>1, <3>2, <2>1 DEF OnTheirWay, Waiting, update_is_due, TypeInv, TypeOK
    <3>4. Cardinality(OnTheirWay) + 1 <= Cardinality(OnTheirWay')
      BY <3>3, <1>0, CountThreads
    <3>5. \A u \in Waiting' : ~update_is_due(u)'
      BY <3>3, <2>1 DEF NoLostWakeup, update_is_due
    <3> QED
      BY <3>3, <3>4, <3>5, <2>2, <1>0 DEF NoLostWakeup
  <2> QED
    BY <1>4, <2>3, <2>4 DEF threadpool_queue_work_priority, tor_cond_signal_one
<1>5. ASSUME NEW j \in Work, workqueue_entry_cancel(j)
      PROVE  NoLostWakeup'
  <2>1. PICK i \in DOMAIN work[priority[j]] :
          work' = [work EXCEPT ![priority[j]] = RemoveAt(@, i)]
    BY <1>5 DEF workqueue_entry_cancel
  <2>2. UNCHANGED <<generation, pc, thread_gen>>
    BY <1>5 DEF workqueue_entry_cancel, thread
  <2>3. QueuedCount' <= QueuedCount
    <3>1. priority[j] \in Priority /\ priority[j] \in {0, 1, 2}
      BY DEF TypeInv, TypeOK, Priority
    <3>2. \A q \in Priority : Len(work'[q]) =
            IF q = priority[j] THEN Len(work[q]) - 1 ELSE Len(work[q])
      BY <2>1, <3>1, RemoveAtType DEF TypeInv, TypeOK
    <3> QED
      BY <3>1, <3>2, <1>0 DEF QueuedCount
  <2> QED
    BY <2>2, <2>3, <1>0, WakeupMonotone
       DEF OnTheirWay, Waiting, NoLostWakeup, update_is_due
<1>6. CASE threadpool_queue_update
  BY <1>6 DEF threadpool_queue_update, tor_cond_signal_all, NoLostWakeup, Waiting
<1>7. ASSUME \/ free_old_args \/ reply_event_cb \/ replyqueue_pop
             \/ reply_fn_returns \/ replyqueue_done \/ UNCHANGED vars
      PROVE  NoLostWakeup'
  BY <1>7 DEF free_old_args, reply_event_cb, replyqueue_pop, reply_fn_returns,
     replyqueue_done, vars, pool, thread, NoLostWakeup, OnTheirWay, Waiting,
     update_is_due, QueuedCount
<1> QED
  BY <1>1, <1>2, <1>3, <1>4, <1>5, <1>6, <1>7
     DEF Next, worker_thread_main, replyqueue_process

(* One signal per queued entry is enough, although the thread it wakes may *)
(* find the entry gone, and a signal sent while nobody sleeps is lost.     *)
THEOREM WakeupsAreNotLost == Spec => []NoLostWakeup
<1>1. Init => TypeInv /\ NoLostWakeup
  BY TypeInit DEF Init, NoLostWakeup, Waiting
<1> QED
  BY <1>1, TypeNext, WakeupNext, PTL DEF Spec
=============================================================================
