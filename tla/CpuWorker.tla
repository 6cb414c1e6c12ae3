----------------------------- MODULE CpuWorker -----------------------------
(***************************************************************************)
(* How a relay answers CREATE cells: src/core/mainloop/cpuworker.c with    *)
(* src/feature/relay/onion_queue.c, the CREATE handler of command.c and    *)
(* the closing of circuits in circuitlist.c.                               *)
(*                                                                         *)
(* The main thread hands an onionskin to the thread pool, or puts it on an *)
(* onion queue while max_pending_tasks jobs are out.  A circuit may be     *)
(* closed at any time: its queue entry is removed, its job cancelled, and  *)
(* if a worker has already begun the job the circuit stays behind with     *)
(* DEAD_CIRCUIT_MAGIC for the reply to free.                               *)
(*                                                                         *)
(* The pool is JobPool, which WorkQueue implements.  Everything else runs  *)
(* in the main thread; a callback is one action, except that each round of *)
(* the loops in queue_pending_tasks and circuit_close_all_marked is one of *)
(* its own, between which the workers move.                                *)
(***************************************************************************)
EXTENDS JobPool, Integers, Sequences, FiniteSets, SequencesExt

CONSTANTS
  Circuits,            \* addresses of or_circuit_t objects
  Channels,            \* channels CREATE cells arrive on
  NULL,
  max_pending_tasks,   \* get_num_cpus() * 64 in the code
  num_ntors_per_tap,   \* the NumNTorsPerTAP consensus parameter
  AlwaysRoom,          \* entries an onion queue always has room for: 50
  Cutoff,              \* ONIONQUEUE_WAIT_CUTOFF: 5 seconds
  MaxTime              \* bound on the clock

ASSUME CpuAssumption ==
  /\ IsFiniteSet(Work)
  /\ NULL \notin Work /\ NULL \notin Circuits /\ NULL \notin Channels
  /\ NULL \notin {"tap", "ntor"}
  /\ max_pending_tasks \in 1..Cardinality(Work)
  /\ num_ntors_per_tap \in Nat \ {0}
  /\ AlwaysRoom \in Nat
  /\ Cutoff \in Nat \ {0} /\ MaxTime \in Nat

VARIABLES
  \* or_circuit_t
  magic,               \* "free", "OR_CIRCUIT_MAGIC" or "DEAD_CIRCUIT_MAGIC"
  circ_state,          \* circ->state
  marked_for_close,
  p_chan,
  workqueue_entry,     \* the pool entry of its handshake
  onionqueue_entry,    \* the onion queue its entry is on, or NULL
  \* onion_queue.c
  ol_list, ol_entries,
  recently_chosen_ntors,
  \* cpuworker.c
  job_circ,            \* job->circ, NULL once the job is freed
  total_pending_tasks,
  \* the main thread, and its clock
  main_pc, now,
  \* history: ntor onionskins taken since one of tap began to wait
  passed_over

circs  == <<magic, circ_state, marked_for_close, p_chan, workqueue_entry,
            onionqueue_entry>>
onions == <<ol_list, ol_entries, recently_chosen_ntors, passed_over>>
jobs   == <<status, job_circ, total_pending_tasks>>
cpu_vars == <<circs, onions, jobs, main_pc, now>>

(* ol_list[1] is for CREATE_FAST, which is answered at once and never      *)
(* queued.  ntor_v3 shares the queue of ntor (onionskin_type_to_queue).    *)
Types == {"tap", "ntor"}
Alloc == {c \in Circuits : magic[c] = "OR_CIRCUIT_MAGIC"}

CpuTypeOK ==
  /\ status \in [Work -> Status \ {"replying"}]
  /\ magic \in [Circuits -> {"free", "OR_CIRCUIT_MAGIC", "DEAD_CIRCUIT_MAGIC"}]
  /\ circ_state \in [Circuits -> {"onionskin_pending", "open"}]
  /\ marked_for_close \in [Circuits -> BOOLEAN]
  /\ p_chan \in [Circuits -> Channels \cup {NULL}]
  /\ workqueue_entry \in [Circuits -> Work \cup {NULL}]
  /\ onionqueue_entry \in [Circuits -> Types \cup {NULL}]
  /\ ol_list \in [Types -> Seq([circ : Circuits, when_added : 0..MaxTime])]
  /\ ol_entries \in [Types -> Int]
  /\ recently_chosen_ntors \in 0..(num_ntors_per_tap + 1)
  /\ job_circ \in [Work -> Circuits \cup {NULL}]
  /\ total_pending_tasks \in Int
  /\ main_pc \in {"loop", "queue_pending_tasks", "close_all_marked",
                  "clear_pending_onions", "exit"}
  /\ now \in 0..MaxTime
  /\ passed_over \in Nat

CpuInit ==
  /\ PoolInit
  /\ magic = [c \in Circuits |-> "free"]
  /\ circ_state = [c \in Circuits |-> "onionskin_pending"]
  /\ marked_for_close = [c \in Circuits |-> FALSE]
  /\ p_chan = [c \in Circuits |-> NULL]
  /\ workqueue_entry = [c \in Circuits |-> NULL]
  /\ onionqueue_entry = [c \in Circuits |-> NULL]
  /\ ol_list = [t \in Types |-> <<>>]
  /\ ol_entries = [t \in Types |-> 0]
  /\ recently_chosen_ntors = 0
  /\ job_circ = [j \in Work |-> NULL]
  /\ total_pending_tasks = 0
  /\ main_pc = "loop"
  /\ now = 0
  /\ passed_over = 0
-----------------------------------------------------------------------------
(* Worker threads: cpuworker_onion_handshake_threadfn touches only the     *)
(* job.  Whether it succeeds is chosen where the reply is looked at.       *)
worker_begins(j) ==
  /\ Start(j)
  /\ UNCHANGED <<circs, onions, job_circ, total_pending_tasks, main_pc, now>>

cpuworker_onion_handshake_threadfn(j) ==
  /\ Finish(j)
  /\ UNCHANGED <<circs, onions, job_circ, total_pending_tasks, main_pc, now>>
-----------------------------------------------------------------------------
(* assign_onionskin_to_cpuworker, with room in the pool.                   *)
queue_job(c) ==
  \E j \in Work :
    /\ status[j] = "free"
    /\ status' = [status EXCEPT ![j] = "pending"]
    /\ job_circ' = [job_circ EXCEPT ![j] = c]
    /\ total_pending_tasks' = total_pending_tasks + 1
    /\ workqueue_entry' = [workqueue_entry EXCEPT ![c] = j]

(* Below AlwaysRoom entries there is room; above, it depends on how long   *)
(* the queues are expected to take, which is left open.                    *)
have_room_for_onionskin(t) ==
  IF ol_entries[t] < AlwaysRoom THEN {TRUE} ELSE {TRUE, FALSE}

(* How many entries at the head of q have waited for Cutoff or longer.     *)
elderly(q) ==
  Cardinality({n \in 1..Len(q) : \A i \in 1..n : now - q[i].when_added >= Cutoff})

NewCircuit(c, chan, state, marked) ==
  /\ magic' = [magic EXCEPT ![c] = "OR_CIRCUIT_MAGIC"]
  /\ circ_state' = [circ_state EXCEPT ![c] = state]
  /\ p_chan' = [p_chan EXCEPT ![c] = chan]
  /\ marked_for_close' = [x \in Circuits |->
       IF x = c THEN marked ELSE marked_for_close[x]]

(* Mutant: the culled circuits are not closed.                             *)
nobody_to_close(q, n) == {}

circuits_to_close(q, n) == {q[i].circ : i \in 1..n}
entries_after_add(t, n) == ol_entries[t] + 1 - n

(* onion_pending_add appends, then closes the circuits whose onionskins    *)
(* have waited too long at the head of the same queue.                     *)
onion_pending_add(c, t) ==
  LET q == Append(ol_list[t], [circ |-> c, when_added |-> now])
      n == elderly(q)
      culled == {q[i].circ : i \in 1..n}
  IN /\ ol_list' = [ol_list EXCEPT ![t] = SubSeq(q, n + 1, Len(q))]
     /\ ol_entries' = [ol_entries EXCEPT ![t] = entries_after_add(t, n)]
     /\ onionqueue_entry' = [x \in Circuits |->
          IF x \in culled THEN NULL ELSE IF x = c THEN t ELSE onionqueue_entry[x]]
     /\ marked_for_close' = [x \in Circuits |->
          marked_for_close[x] \/ x \in circuits_to_close(q, n)]

(* command_process_create_cell.  Cells it drops or refuses before          *)
(* or_circuit_new change nothing here.  The circuit is marked at once when *)
(* the cell does not parse, when its onionskin can neither be assigned nor *)
(* queued, or when a CREATE_FAST handshake fails.                          *)
create_and_assign(c, chan) ==
  /\ main_pc = "loop" /\ magic[c] = "free"
  /\ total_pending_tasks < max_pending_tasks
  /\ NewCircuit(c, chan, "onionskin_pending", FALSE)
  /\ queue_job(c)
  /\ UNCHANGED <<onionqueue_entry, onions, main_pc, now>>

create_and_queue(c, chan, t) ==
  /\ main_pc = "loop" /\ magic[c] = "free"
  /\ total_pending_tasks >= max_pending_tasks
  /\ TRUE \in have_room_for_onionskin(t)
  /\ magic' = [magic EXCEPT ![c] = "OR_CIRCUIT_MAGIC"]
  /\ circ_state' = [circ_state EXCEPT ![c] = "onionskin_pending"]
  /\ p_chan' = [p_chan EXCEPT ![c] = chan]
  /\ onion_pending_add(c, t)
  /\ UNCHANGED <<workqueue_entry, recently_chosen_ntors, passed_over, jobs,
                 main_pc, now>>

create_no_room(c, chan, t) ==
  /\ main_pc = "loop" /\ magic[c] = "free"
  /\ total_pending_tasks >= max_pending_tasks
  /\ FALSE \in have_room_for_onionskin(t)
  /\ NewCircuit(c, chan, "onionskin_pending", TRUE)
  /\ UNCHANGED <<workqueue_entry, onionqueue_entry, onions, jobs, main_pc, now>>

create_bogus(c, chan) ==
  /\ main_pc = "loop" /\ magic[c] = "free"
  /\ NewCircuit(c, chan, "onionskin_pending", TRUE)
  /\ UNCHANGED <<workqueue_entry, onionqueue_entry, onions, jobs, main_pc, now>>

create_fast(c, chan) ==
  /\ main_pc = "loop" /\ magic[c] = "free"
  /\ NewCircuit(c, chan, "open", FALSE)
  /\ UNCHANGED <<workqueue_entry, onionqueue_entry, onions, jobs, main_pc, now>>

command_process_create_cell ==
  \E c \in Circuits, chan \in Channels :
    \/ create_and_assign(c, chan)
    \/ \E t \in Types : create_and_queue(c, chan, t) \/ create_no_room(c, chan, t)
    \/ create_bogus(c, chan)
    \/ create_fast(c, chan)
-----------------------------------------------------------------------------
(* Mutants: the reply to a dead circuit forgets to free it; a marked       *)
(* circuit's entry is not cleared.                                         *)
dead_circuit_kept(c) == magic
cleared_unless_marked(c) ==
  IF marked_for_close[c] THEN workqueue_entry
                         ELSE [workqueue_entry EXCEPT ![c] = NULL]

dead_circuit_freed(c) == [magic EXCEPT ![c] = "free"]
entry_cleared(c) == [workqueue_entry EXCEPT ![c] = NULL]

(* Mutants: the reply to a dead circuit is not looked at; the check of     *)
(* total_pending_tasks is off by one.                                      *)
reply_unless_dead(j) ==
  status[j] = "answered" /\ magic[job_circ[j]] # "DEAD_CIRCUIT_MAGIC"
reply_off_by_one(j) == status[j] = "answered" /\ total_pending_tasks > 1

reply_is_due(j) == status[j] = "answered" /\ total_pending_tasks > 0

(* cpuworker_onion_handshake_replyfn.  The circuit is freed here if it     *)
(* died while the job was out; otherwise it is opened, or marked when the  *)
(* handshake or onionskin_answer failed.  Then more work is queued.        *)
cpuworker_onion_handshake_replyfn(j) ==
  LET c == job_circ[j] IN
  /\ main_pc = "loop"
  /\ reply_is_due(j)
  /\ status' = [status EXCEPT ![j] = "free"]
  /\ job_circ' = [job_circ EXCEPT ![j] = NULL]
  /\ total_pending_tasks' = total_pending_tasks - 1
  /\ main_pc' = "queue_pending_tasks"
  /\ IF magic[c] = "DEAD_CIRCUIT_MAGIC"
     THEN /\ magic' = dead_circuit_freed(c)
          /\ UNCHANGED <<circ_state, marked_for_close, workqueue_entry>>
     ELSE /\ workqueue_entry' = entry_cleared(c)
          /\ UNCHANGED magic
          /\ \/ /\ marked_for_close[c]
                /\ UNCHANGED <<circ_state, marked_for_close>>
             \/ /\ ~marked_for_close[c]
                /\ circ_state' = [circ_state EXCEPT ![c] = "open"]
                /\ UNCHANGED marked_for_close
             \/ /\ ~marked_for_close[c]
                /\ marked_for_close' = [marked_for_close EXCEPT ![c] = TRUE]
                /\ UNCHANGED circ_state
  /\ UNCHANGED <<p_chan, onionqueue_entry, onions, now>>

(* Mutants: tap gets its turn only when no ntor waits; the count of ntors  *)
(* goes on without limit while no tap waits.                               *)
ntor_first ==
  IF ol_entries["ntor"] = 0 THEN <<"tap", recently_chosen_ntors>>
                            ELSE <<"ntor", recently_chosen_ntors>>
count_all_ntors ==
  IF ol_entries["ntor"] = 0 THEN <<"tap", recently_chosen_ntors>>
  ELSE IF ol_entries["tap"] = 0 THEN <<"ntor", recently_chosen_ntors + 1>>
  ELSE IF recently_chosen_ntors + 1 <= num_ntors_per_tap
  THEN <<"ntor", recently_chosen_ntors + 1>>
  ELSE <<"tap", 0>>

(* decide_next_handshake_type: the queue to take from, and the new value   *)
(* of recently_chosen_ntors.                                               *)
decide_next_handshake_type ==
  IF ol_entries["ntor"] = 0 THEN <<"tap", recently_chosen_ntors>>
  ELSE IF ol_entries["tap"] = 0
  THEN <<"ntor", IF recently_chosen_ntors <= num_ntors_per_tap
                 THEN recently_chosen_ntors + 1 ELSE recently_chosen_ntors>>
  ELSE IF recently_chosen_ntors + 1 <= num_ntors_per_tap
  THEN <<"ntor", recently_chosen_ntors + 1>>
  ELSE <<"tap", 0>>

(* A round of queue_pending_tasks: onion_next_task, then assign unless the *)
(* circuit's channel is gone.                                              *)
queue_next_task ==
  LET t == decide_next_handshake_type[1]
      c == Head(ol_list[t]).circ IN
  /\ main_pc = "queue_pending_tasks"
  /\ total_pending_tasks < max_pending_tasks
  /\ ol_list[t] # <<>>
  /\ recently_chosen_ntors' = decide_next_handshake_type[2]
  /\ passed_over' = IF t = "ntor" /\ ol_list["tap"] # <<>>
                    THEN passed_over + 1 ELSE 0
  /\ ol_list' = [ol_list EXCEPT ![t] = Tail(@)]
  /\ ol_entries' = [ol_entries EXCEPT ![t] = @ - 1]
  /\ onionqueue_entry' = [onionqueue_entry EXCEPT ![c] = NULL]
  /\ \/ p_chan[c] = NULL /\ UNCHANGED <<workqueue_entry, jobs>>
     \/ p_chan[c] # NULL /\ queue_job(c)
  /\ UNCHANGED <<magic, circ_state, marked_for_close, p_chan, main_pc, now>>

queue_pending_tasks_returns ==
  /\ main_pc = "queue_pending_tasks"
  /\ \/ total_pending_tasks >= max_pending_tasks
     \/ ol_list[decide_next_handshake_type[1]] = <<>>
  /\ main_pc' = "loop"
  /\ UNCHANGED <<circs, onions, jobs, now>>
-----------------------------------------------------------------------------
(* Circuits are marked for many reasons and closed after the event loop's  *)
(* callbacks.  A DESTROY cell from behind, or the closing of the channel,  *)
(* also unlinks the circuit from p_chan.                                   *)
circuit_mark_for_close(c) ==
  /\ main_pc = "loop" /\ c \in Alloc /\ ~marked_for_close[c]
  /\ marked_for_close' = [marked_for_close EXCEPT ![c] = TRUE]
  /\ UNCHANGED <<magic, circ_state, p_chan, workqueue_entry, onionqueue_entry,
                 onions, jobs, main_pc, now>>

command_process_destroy_cell(c) ==
  /\ main_pc = "loop" /\ c \in Alloc /\ ~marked_for_close[c] /\ p_chan[c] # NULL
  /\ p_chan' = [p_chan EXCEPT ![c] = NULL]
  /\ marked_for_close' = [marked_for_close EXCEPT ![c] = TRUE]
  /\ UNCHANGED <<magic, circ_state, workqueue_entry, onionqueue_entry,
                 onions, jobs, main_pc, now>>

circuit_unlink_all_from_channel(chan) ==
  LET detached == {c \in Alloc : p_chan[c] = chan} IN
  /\ main_pc = "loop" /\ detached # {}
  /\ p_chan' = [c \in Circuits |-> IF c \in detached THEN NULL ELSE p_chan[c]]
  /\ marked_for_close' = [c \in Circuits |-> c \in detached \/ marked_for_close[c]]
  /\ UNCHANGED <<magic, circ_state, workqueue_entry, onionqueue_entry,
                 onions, jobs, main_pc, now>>

circuits_pending_close == {c \in Alloc : marked_for_close[c]}

postloop_cleanup_cb ==
  /\ main_pc = "loop" /\ circuits_pending_close # {}
  /\ main_pc' = "close_all_marked"
  /\ UNCHANGED <<circs, onions, jobs, now>>

(* onion_queue_entry_remove of the entry circ->onionqueue_entry points to. *)
onion_queue_entry_remove(c) ==
  LET t == onionqueue_entry[c] IN
  /\ \E i \in DOMAIN ol_list[t] :
       /\ ol_list[t][i].circ = c
       /\ ol_list' = [ol_list EXCEPT ![t] = RemoveAt(@, i)]
  /\ ol_entries' = [ol_entries EXCEPT ![t] = @ - 1]

(* Mutant: the slot of a cancelled job is not given back.                  *)
slot_not_returned == total_pending_tasks

slot_returned == total_pending_tasks - 1

cancellable(c) ==
  workqueue_entry[c] # NULL /\ status[workqueue_entry[c]] = "pending"

(* circuit_free_: should_free, as it is after the cancellation.            *)
should_free(c) ==
  \/ workqueue_entry[c] = NULL
  \/ circ_state[c] = "onionskin_pending" /\ cancellable(c)

(* A round of circuit_close_all_marked: circuit_about_to_free takes the    *)
(* circuit off its onion queue and cancels its job (onion_pending_remove,  *)
(* cpuworker_cancel_circ_handshake), and circuit_free_ frees it unless a   *)
(* job that could not be cancelled still points to it.  What is left of    *)
(* the object is wiped.                                                    *)
circuit_close_marked(c) ==
  LET j == workqueue_entry[c]
      was_pending == circ_state[c] = "onionskin_pending"
      cancel == was_pending /\ cancellable(c) IN
  /\ main_pc = "close_all_marked" /\ c \in circuits_pending_close
  /\ IF was_pending /\ onionqueue_entry[c] # NULL
     THEN onion_queue_entry_remove(c)
     ELSE UNCHANGED <<ol_list, ol_entries>>
  /\ IF cancel
     THEN /\ status' = [status EXCEPT ![j] = "free"]
          /\ job_circ' = [job_circ EXCEPT ![j] = NULL]
          /\ total_pending_tasks' = slot_returned
     ELSE UNCHANGED jobs
  /\ magic' = [magic EXCEPT ![c] = IF should_free(c)
                                   THEN "free" ELSE "DEAD_CIRCUIT_MAGIC"]
  /\ p_chan' = [p_chan EXCEPT ![c] = NULL]
  /\ workqueue_entry' = [workqueue_entry EXCEPT ![c] = NULL]
  /\ onionqueue_entry' = [onionqueue_entry EXCEPT ![c] = NULL]
  /\ marked_for_close' = [marked_for_close EXCEPT ![c] = FALSE]
  /\ circ_state' = [circ_state EXCEPT ![c] = "onionskin_pending"]
  /\ UNCHANGED <<recently_chosen_ntors, passed_over, main_pc, now>>

circuit_close_all_marked_returns ==
  /\ main_pc = "close_all_marked" /\ circuits_pending_close = {}
  /\ main_pc' = "loop"
  /\ UNCHANGED <<circs, onions, jobs, now>>

TimePasses ==
  /\ main_pc = "loop" /\ now < MaxTime
  /\ now' = now + 1
  /\ UNCHANGED <<circs, onions, jobs, main_pc>>

CpuNext ==
  \/ \E j \in Work : \/ worker_begins(j)
                     \/ cpuworker_onion_handshake_threadfn(j)
                     \/ cpuworker_onion_handshake_replyfn(j)
  \/ command_process_create_cell
  \/ queue_next_task
  \/ queue_pending_tasks_returns
  \/ \E c \in Circuits : \/ circuit_mark_for_close(c)
                         \/ command_process_destroy_cell(c)
                         \/ circuit_close_marked(c)
  \/ \E chan \in Channels : circuit_unlink_all_from_channel(chan)
  \/ postloop_cleanup_cb
  \/ circuit_close_all_marked_returns
  \/ TimePasses

CpuSpec == CpuInit /\ [][CpuNext]_cpu_vars
-----------------------------------------------------------------------------
(* Shutdown.  tor_free_all calls circuit_free_all, which frees circuits    *)
(* with circuit_about_to_free_atexit in place of circuit_about_to_free,    *)
(* and later subsys_relay_shutdown, which calls clear_pending_onions.      *)
circuit_free_all ==
  /\ main_pc = "loop"
  /\ magic' = [c \in Circuits |->
       IF c \in Alloc /\ workqueue_entry[c] = NULL THEN "free"
       ELSE IF c \in Alloc THEN "DEAD_CIRCUIT_MAGIC" ELSE magic[c]]
  /\ p_chan' = [c \in Circuits |-> NULL]
  /\ main_pc' = "clear_pending_onions"
  /\ UNCHANGED <<circ_state, marked_for_close, workqueue_entry,
                 onionqueue_entry, onions, jobs, now>>

clear_pending_onions ==
  /\ main_pc = "clear_pending_onions"
  /\ ol_list' = [t \in Types |-> <<>>]
  /\ ol_entries' = [t \in Types |-> 0]
  /\ onionqueue_entry' = [c \in Circuits |-> NULL]
  /\ main_pc' = "exit"
  /\ UNCHANGED <<magic, circ_state, marked_for_close, p_chan, workqueue_entry,
                 recently_chosen_ntors, passed_over, jobs, now>>

ShutdownSpec ==
  CpuInit /\ [][CpuNext \/ circuit_free_all \/ clear_pending_onions]_cpu_vars
-----------------------------------------------------------------------------
(* Safety.                                                                 *)

Out(j) == status[j] # "free"

(* Links and back links agree.  A job that is out and an onion queue entry *)
(* never point to freed memory (cpuworker_onion_handshake_replyfn reads    *)
(* job->circ->magic, onion_next_task hands head->circ on without a check); *)
(* a circuit that lives has at most one job and at most one queue entry,   *)
(* never both, and its own links say so.                                   *)
LinksAgree ==
  /\ \A j \in Work : Out(j) => /\ job_circ[j] # NULL
                               /\ magic[job_circ[j]] # "free"
  /\ \A t \in Types : \A i \in DOMAIN ol_list[t] : ol_list[t][i].circ \in Alloc
  /\ \A c \in Alloc, j \in Work :
       workqueue_entry[c] = j <=> Out(j) /\ job_circ[j] = c
  /\ \A c \in Alloc, t \in Types :
       onionqueue_entry[c] = t <=> \E i \in DOMAIN ol_list[t] : ol_list[t][i].circ = c
  /\ \A t \in Types : \A i, k \in DOMAIN ol_list[t] :
       ol_list[t][i].circ = ol_list[t][k].circ => i = k
  /\ \A c \in Alloc : workqueue_entry[c] = NULL \/ onionqueue_entry[c] = NULL

(* No handshake is forgotten: a circuit that is neither open nor about to  *)
(* be closed has its onionskin on a queue or in a job.                     *)
NoForgottenHandshake ==
  \A c \in Alloc : circ_state[c] = "onionskin_pending" /\ ~marked_for_close[c] =>
    workqueue_entry[c] # NULL \/ onionqueue_entry[c] # NULL

(* A dead circuit is left to exactly one job, which a worker has begun and *)
(* whose reply will free it: it cannot leak.                               *)
DeadIsAwaited ==
  \A c \in Circuits : magic[c] = "DEAD_CIRCUIT_MAGIC" =>
    \E j \in Work : /\ status[j] \in {"running", "answered"} /\ job_circ[j] = c
                    /\ \A k \in Work : Out(k) /\ job_circ[k] = c => k = j

(* The counters that bound the queues are exact.  total_pending_tasks      *)
(* counts the jobs that are out, so that the assertion total_pending_tasks *)
(* > 0 holds and no slot is lost, and stays within max_pending_tasks;      *)
(* ol_entries counts the entries of each onion queue, for the choice of    *)
(* decide_next_handshake_type is made on it and acted upon on the queue.   *)
CountersAreExact ==
  /\ total_pending_tasks = Cardinality({j \in Work : Out(j)})
  /\ total_pending_tasks <= max_pending_tasks
  /\ \A t \in Types : ol_entries[t] = Len(ol_list[t])

(* While tap onionskins wait, at most num_ntors_per_tap of ntor are taken  *)
(* in a row ("so we don't starve it entirely").                            *)
TapIsNotStarved == passed_over <= num_ntors_per_tap

(* clear_pending_onions writes victim->circ->onionqueue_entry: the circuit *)
(* must not have been freed, if circuit_about_to_free_atexit is the        *)
(* "safe-at-shutdown version of circuit_about_to_free()".                  *)
ShutdownTouchesNoFreedCircuit ==
  main_pc = "clear_pending_onions" =>
    \A t \in Types : \A i \in DOMAIN ol_list[t] : magic[ol_list[t][i].circ] # "free"
-----------------------------------------------------------------------------
(* Liveness.  The pool begins and finishes every job (EveryEntryIsFreed of *)
(* WorkQueue), the event loop runs the callbacks that are due, and a       *)
(* callback's loop goes on.                                                *)
CpuFairness ==
  /\ \A j \in Work : /\ WF_cpu_vars(worker_begins(j))
                     /\ WF_cpu_vars(cpuworker_onion_handshake_threadfn(j))
                     /\ SF_cpu_vars(cpuworker_onion_handshake_replyfn(j))
  /\ WF_cpu_vars(queue_next_task \/ queue_pending_tasks_returns)
  /\ SF_cpu_vars(postloop_cleanup_cb)
  /\ WF_cpu_vars(\E c \in Circuits : circuit_close_marked(c))
  /\ WF_cpu_vars(circuit_close_all_marked_returns)
  /\ WF_cpu_vars(TimePasses)

CpuFairSpec == CpuSpec /\ CpuFairness

(* A circuit that died while its job was out is freed in the end.          *)
DeadIsFreed == \A c \in Circuits :
  magic[c] = "DEAD_CIRCUIT_MAGIC" ~> magic[c] = "free"

(* A handshake given to the pool comes to an end: the circuit opens or is  *)
(* closed.                                                                 *)
HandshakeEnds == \A c \in Circuits :
  (magic[c] = "OR_CIRCUIT_MAGIC" /\ workqueue_entry[c] # NULL)
    ~> (magic[c] # "OR_CIRCUIT_MAGIC" \/ workqueue_entry[c] = NULL)
=============================================================================
