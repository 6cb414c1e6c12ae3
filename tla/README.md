# TLA+ verification of Nuon

Nuon (a Tor relay and client in C, under `src/src/`) is a single-threaded event loop with a pool of worker
threads beside it. This directory holds TLA+ models of its stateful core, the TLC runs that check them on
small instances, and TLAPS proofs of the most important invariants for every instance.

## The system

| Part | State it keeps | Operations | What is hard about it |
| --- | --- | --- | --- |
| Thread pool, `lib/evloop/workqueue.c` | priority queues, per-thread update slots, `generation`, reply queue, alert socket | queue, cancel, update, extract, reply, process replies | real threads; condition variable; alert written after unlocking; cancel racing extraction |
| CPU workers, `core/mainloop/cpuworker.c`, and onion queue, `feature/relay/onion_queue.c` | `total_pending_tasks`, `ol_list`, `ol_entries`, `recently_chosen_ntors`, links between circuits, queue entries and jobs | assign, queue, cull, reply, cancel, clear | a circuit closes while a worker runs its handshake; bounded queues; shutdown order |
| Circuits, `core/or/circuitlist.c` | global list, `circuits_pending_close`, magic, `marked_for_close` | new, mark, close all marked, unlink from channel, free | two-phase closing; objects outliving their owners |
| Flow control, `core/or/sendme.c`, `congestion_control_*.c` | package and deliver windows, FIFO of expected SENDME digests, XON/XOFF state | send DATA, deliver DATA, send and process SENDME | two endpoints; authenticated SENDMEs must match the sender's FIFO cell for cell |
| Cell relaying, `core/or/relay.c`, `command.c`, `core/crypto/relay_crypto.c` | cell queues, half-open streams | relay, package, queue, append to circuit | memory limits; cells for streams already closed |
| Channels and cell scheduling, `channel*.c`, `circuitmux*.c`, `scheduler*.c` | channel state, scheduler state, active circuit lists | open, write, flush, schedule, close | state machines driven by callbacks |
| Circuit building and use, `circuitbuild.c`, `circuituse.c`, `feature/client/` | paths, guards, streams waiting for circuits | extend, attach, expire | many retries and timeouts |
| Padding, `circuitpadding*.c`, `channelpadding.c` | padding machines, histograms | transition, schedule, negotiate | negotiation races with machine shutdown |
| Hibernation, `feature/hibernate/` | accounting interval, hibernate state, persistent byte counts | wake up, soft limit, hard limit, save, restore | restart in the middle of an interval |
| Directory authority, `feature/dirauth/` | votes, consensus in progress, shared randomness commits and reveals, state file | vote, fetch, compute, publish, commit, reveal | several authorities; phases by the clock; restart |
| Directory cache and client, `feature/dircache`, `dirclient`, `nodelist` | consensus, descriptors, download schedules, diffs | download, retry, diff, serve | failures and retries |
| Hidden services, `feature/hs` | descriptors, intro points, replay caches | publish, introduce, rendezvous | rotation, replay |
| Event library, `lib/evloop`, `lib/dispatch`, `lib/pubsub` | token buckets, timers, message queues | refill, post, flush | wrap-around of clocks, reentrancy |
| Configuration, control port, statistics, utilities, crypto, TLS, OS glue | | | parsing and I/O |

The parts interact in the main thread by direct calls: a CREATE cell on a channel makes a circuit
(`command.c`), whose onionskin goes to the CPU workers (`cpuworker.c`), who use the thread pool
(`workqueue.c`); the reply opens the circuit, and from then on cells are relayed (`relay.c`) under flow
control (`sendme.c`), queued on circuit multiplexers and flushed by the scheduler. Whatever goes wrong
marks the circuit; it is closed when the callbacks of the event loop have returned. Only the thread pool
has threads: everything else interleaves at the grain of an event callback, and with the other end of a
circuit, which runs the same code on another machine.

What makes each part correct:

* *Thread pool*: an entry and an update argument have one owner at any time; no wake-up and no alert is
  lost; work runs with the updates that were made before it; everything queued is answered.
* *CPU workers*: no pointer to a circuit dangles although circuits die at any time; every pending
  handshake is somewhere; the two counters that bound the queues are exact; dead circuits are freed.
* *Flow control*: credit is conserved end to end; two honest edges never close the circuit on each other;
  no stream is left stopped, and no byte left unsent, when there is nothing to wait for.
* *Channels and scheduling*: the scheduler's heap, its event and the states of the channels agree; a
  channel with cells to send that may write is known to the scheduler and keeps sending; the counters of
  the circuit multiplexer are exact; nothing names a closed channel.
* *Shared randomness*: an authority commits once per protocol run whatever crashes; nobody learns of a
  commitment after the first reveal; lost votes are made up for; a published value is random.
* *Guards*: the flags and lists of guards agree with each other and with the circuits under way; a client
  one of whose guards answers gets a circuit.
* *Hibernation, padding* (planned): state read back from disk continues the interval it was saved in; a
  padding machine is shut down at both ends.

## Modules

| Module | What it is |
| --- | --- |
| `JobPool` | abstract specification of the thread pool: the life of one work item |
| `WorkQueue` | the thread pool of `workqueue.c`, action by critical section |
| `SequenceLemmas` | TLAPS lemmas on sequences that the library does not state: what `Tail`, `Append` and removing an element do to positions and lengths |
| `WorkQueueProofs` | TLAPS proofs of six invariants of `WorkQueue` |
| `JobPoolRefinement` | TLAPS proof that `WorkQueue` implements `JobPool` |
| `CpuWorker` | `cpuworker.c`, `onion_queue.c`, and the creation and closing of circuits, on top of `JobPool` |
| `CpuWorkerProofs` | TLAPS proofs of the six invariants of `CpuWorker` |
| `Sendme` | `sendme.c`, packaging and water marks of `relay.c`, at both edges of a circuit |
| `SendmeProofs` | TLAPS proofs of six of the seven invariants of `Sendme` |
| `Scheduler` | circuit multiplexers, the scheduler with KIST and Vanilla, the life of channels and their connections |
| `SchedulerProofs` | TLAPS proofs of the four invariants of `Scheduler` |
| `SharedRandom` | the shared randomness protocol between authorities, with the state file and the voting rounds it is driven by |
| `SharedRandomProofs` | TLAPS proofs of the five invariants and the action property of `SharedRandom` |
| `EntryGuards` | guard selection of a client: sampled, filtered, confirmed and primary guards, and circuits that wait for a better one |
| `EntryGuardsProofs` | TLAPS proofs of the two invariants of `EntryGuards` |
| `MCWorkQueue`, `MCCpuWorker`, `MCSendme`, `MCScheduler`, `MCSharedRandom` | instances for TLC: value sets and symmetry; each `.cfg` is one run |

Definitions keep the names of the C functions and fields they model; `PROJECT.json` maps each to its
lines. Definitions introduced by "Mutant" or "The mutant" are deliberate bugs that nothing uses: each is
put in place of one definition to see that a property notices.

### WorkQueue and JobPool

State: the `workqueue_entry_t`s (`alloc`, `pending`, `priority`), the pool under `pool->lock` (`work`,
`generation`, `update_args`), what each worker is doing (`pc`, `cur_work`, `result`, `cur_arg`,
`thread_gen`, `state`), the reply queue (`answers`, `alert`) and the main thread (`main_pc`, `main_work`,
`old_args`). `args_done` and `queued_gen` are history.

A critical section of `pool->lock` or of `replyqueue->lock` is one action, for what it touches is touched
only under that lock; every step between two of them (a work or update function, the write to the alert
socket after unlocking, draining that socket, freeing old arguments, `reply_fn`) is an action of its own.
The condition variable wakes any one waiter, or all, or one for no reason (`SpuriousWakeup`). A woken
worker is at "lock" and competes with the others. The random choice among priorities is a free choice
among the nonempty queues. `threadpool_new` and `threadpool_start_threads` hold the lock until all
threads exist and are the initial state. Calls of the pool from inside a `reply_fn` are included
(`main_pc = "user"` with `main_work` set).

`workqueue_entry_cancel` may be called on any entry whose reply has not begun, which is what the code's
documentation asks of callers; on an entry that is not pending it changes nothing and is left out as a step.

`JobPool` is what a caller may rely on: an item is queued, begun, answered and freed in this order, or
cancelled before it is begun. `StatusOf` is the refinement mapping.

### CpuWorker

State: the `or_circuit_t`s (`magic`, `circ_state`, `marked_for_close`, `p_chan`, `workqueue_entry`,
`onionqueue_entry`), the onion queues (`ol_list`, `ol_entries`, `recently_chosen_ntors`), the jobs
(`job_circ`, `total_pending_tasks`) and the main thread. The pool is `JobPool`, so a worker may begin or
finish a job between any two steps of the main thread. A callback of the main thread is one action; the
loops of `queue_pending_tasks` and of `circuit_close_all_marked` take one step a round, because each round
cancels or queues work, and workers move in between. `command_process_create_cell` has five outcomes
(assigned, queued, no room, does not parse, CREATE_FAST), each an action. Closing a circuit removes its
queue entry (`circuit_about_to_free` calls `onion_pending_remove`), cancels its job, and frees it, or
leaves it behind with `DEAD_CIRCUIT_MAGIC` when a worker has begun. The estimate of how long the onion
queue takes is a free choice once a queue has `AlwaysRoom` entries (50 in the code). `ShutdownSpec` adds
what `tor_free_all` does to circuits and onion queues.

### Sendme

Each edge (client, exit) is a record with the circuit windows, `inflight` and `cwnd`, the stream windows,
the FIFO of expected digests, the one SENDME digest buffer, its cell queue with the `blocked` flag, and
for every stream the inbuf, the outbuf and whether it is being read. A handler is an operator from record
to record, in the order the code calls its parts: `relay_send_command_from_edge` moves the running
digest, records it when a SENDME is expected, queues the cell, blocks the streams at the high water mark,
and remembers the digest for DATA; only then are the windows decremented. Only the loops that
send cells (`connection_edge_package_raw_inbuf`, `circuit_resume_edge_reading_helper` and the SENDMEs of
`sendme_connection_edge_consider_sending`) take several steps, one per cell; meanwhile none of that edge's other handlers runs, and the peer waits too: the loop touches only its
own edge's record, so it commutes with whatever the peer could do.

Bytes are counted in cells. A digest is the number of cells absorbed and their sender, so that two digests
are equal exactly when they are of the same cell. The hops in between are a FIFO wire that delivers
everything; a lost cell breaks the circuit in the real system. `OTHER` stands for the relay commands that
no window counts. Whether congestion control was negotiated is the variable `ccontrol`, fixed at the start
from `Negotiated`. With it the algorithms may set any `cwnd` of `Cwnds` at each SENDME, and there are no
stream windows; XON/XOFF is left to a later module.

### Scheduler

State: each channel is a record `chan[c]` with its own state (`OPENING` to `freed`), the scheduler's state
for it (`sched`), its connection and the length of its outbuf, KIST's socket limit, and its circuitmux
(`count` per circuit, `n_cells`, `n_active_circuits`, the queue of destroy cells, `last_cell_was_destroy`);
each circuit `circ[k]` has a cell queue per channel it is attached to. The scheduler is its heap
(`channels_pending`), its event (`run_sched_ev`) and the implementation in use. `loop` is the callback the
event loop is in.

A handler is an operator on the whole state (`World`), composed of the functions it calls in their order.
A run of KIST or Vanilla and the postloop cleanup take a step per channel, circuit or cell (`RunStep`,
`CleanupStep`) and no other callback runs meanwhile; what does come in between is the failure of a write in
the middle of a KIST run, which closes a channel that the run still knows. Reading, relaying, CREATE,
DESTROY, timeouts and the options are the free choices of the handlers of `Next`. The OOM handler, reached
from `append_cell_to_circuit_queue`, may kill any set of circuits: it empties their queues and marks them,
but leaves their circuitmux counters for later. Padding cells go to the outbuf past the scheduler.

Buffers are counted in cells; the order of the heap, the priorities of EWMA and the kernel's counters behind
KIST's limits are left open, so nothing depends on them. `MuxAgrees` counts the cells of a circuitmux as a
set of pairs of a circuit and a number (`CountedCells`), which states the sum of its entries without
recursion. `CHANNEL_STATE_MAINT` has no caller that reaches it and is left out.

### SharedRandom

Time is counted in voting intervals (`slot`), and within one the clock comes to "publish", "vote" and
"build"; `todo` holds the authorities whose `dirvote_act` still has to run for the stage. For each authority
there is its `sr_state_t` in memory (`mem`), the state file (`disk`), the votes it holds (`pending`) and has
posted (`post`), the consensus it has built (`docs`) and the newest one it has (`latest`). `voted`,
`revealed` and `torn` are history; `torn` holds the authorities that died between two writes of a handler,
whose file is then a state they never were in. `OneCommitmentPerRun` is about authorities that resume from
their file (`ResumesFromItsFile`): however often they crash between handlers, or once inside one.

The code writes the state file after every single change, so a handler is modelled as the *sequence* of
states it writes (`new_protocol_run`, `sr_act_post_consensus`, `sr_state_update`), and `Runs` lets it finish
or lets the process die between two of the writes. A restart reads the last one back; neither the fresh flag
nor the phase is in the file. An authority that restarts, or fetches a consensus late, votes again; the
second vote replaces the first without its commits being looked at. The voting schedule moves on only with a
new consensus, so an authority without it prepares for the round that has just ended. The initial state is
the one after the last consensus of a run, the next run's commits drawn; `Horizon` is the end of the time
the instance covers.

Assumed: authorities are honest and their clocks agree, hashes and signatures are perfect (a shared random
value *is* the set of reveals and the previous value it was computed from), disk writes succeed. A consensus
is downloaded only before voting ends.

### EntryGuards

A guard is named by its `sampled_idx`; what the code keeps in sampled order is a set of numbers. The
order in which guards were confirmed is their `confirmed_idx` (-1: not confirmed). `gs` is the `guard_selection_t` with the flags of its guards, `circ` the
circuits with their `circuit_guard_state_t`, `measuring` the circuits kept for measurement only, `passes` the guards that pass the filter, `alive` those that
answer. The clock is nondeterminism: a handler is given the guards whose retry time has come (`due`), the
circuits past the connect timeout (`late`) and whether the client was offline for long.

The handlers are the whole call: picking updates the primary guards if they are out of date, considers
retries, expands the sample when it is too small, and marks all guards for retry when nothing is found;
success confirms the guard, rebuilds the primary list and decides whether the circuit is complete or has to
wait. Marking a circuit for close and freeing it are one step, for nothing looks at its guard in between.
The guard is blamed for a circuit whose first hop never answered.

A circuit may be closed at any time and any number of times, by a DESTROY, with its channel or by a timeout.
`circuit_expire_building` spares only open circuits: one that waits for a better guard is closed at the build
timeout, long before `NONPRIMARY_GUARD_IDLE_TIMEOUT`, or kept for measurement, and then nobody may use it even
if it is upgraded. A circuit that becomes one for measurement before it is built is closed when it is; for
the guards that is a `Succeed` followed by a `Close`, and it has no step of its own.

Whatever a client cannot count on or that happens seldom (a guard stops or starts to answer, a consensus or
configuration arrives, a retry time comes, a circuit must avoid its exit as guard) is an *event*, and `MaxEvents` bounds their number; the rest goes on for ever.

## Runs

| Run | Instance | What it shows |
| --- | --- | --- |
| `pool` | 2 threads that work may end, 2 entries at two priorities, 2 updates | ownership of entries and arguments, no lost wake-up or alert, no stale state; `JobPool` is implemented; every entry is answered or cancelled, also at low priority, unless all threads are gone; begun work is answered although its thread ends with it |
| `cpu_safety` | 4 circuits, 2 channels, 2 slots | links, counters, dead circuits, turn of tap |
| `cpu_liveness` | 2 circuits, 1 slot | handshakes end, dead circuits are freed |
| `sendme_streams` | 2 streams, one direction, windows 4/2 and 2/1, queue marks 2/1 | windows, credit, no sleeping stream, no stranded byte; waiting bytes are packaged in the end |
| `sendme_both` | 1 stream, both directions, another relay cell, mixed SENDME versions; fixed windows, or `cwnd` in 2..4 with increment 2 | digests match although one buffer serves both directions, SENDMEs are predicted and credit is conserved, also when `cwnd` falls below what is in flight |
| `sched_safety` | 2 channels, 2 circuits, KIST and Vanilla and switches between them | heap and states agree, no wake-up is lost, circuitmux counters are exact, also when writes fail in the middle of a run |
| `sched_liveness` | 1 padded channel, 2 circuits, both schedulers | a channel with cells keeps sending |
| `shared_random` | 3 authorities, 2 rounds per phase, 1 lost vote, 1 crash, a whole run and the first round of the next | one commitment per run, none after a reveal, lost votes are made up for, published values are random, the state lags only without a consensus |
| `guards` | 2 circuits, 3 guards of which 1 primary, 3 events | flags and lists agree; a working guard is used in the end, unless waiting circuits time out early again and again |
| `cpu_shutdown`, `sendme_stall`, `sched_destroys` | | expected violations, see Findings |

*Bounds.* Two threads and two entries let one entry run while the other waits, is cancelled or answered, with
a second thread to steal the wake-up; with two updates the second overtakes the first, so that arguments no
thread took are freed by the caller. What nothing reads any more (the priority of begun work, the fields of a
freed entry) is reset in `WorkQueue`, which keeps the instance small. Four circuits over two slots fill the pool and both onion queues at once, with
`AlwaysRoom` and the cutoff at 1 so that refusing and culling happen. The windows of `Sendme` keep what
matters of 1000/100 and 500/50: a circuit window of two increments, a stream window of two increments and
smaller than the circuit window, applications that write four and three cells, more than
a stream window each and more than the circuit window together, and a cell queue that fills before the window
is used up. In `Scheduler` an outbuf holds two cells between its marks, a circuit's queue
two, KIST's limit is at most two: limits are reached with cells left, cells run out at the limit, and padding
takes the outbuf past the high mark (`sched_liveness`; `MaxOutbuf` only stops new relay cells). Both circuits may be attached to both
channels. `SharedRandom` has two rounds per phase, so that one lost vote can be made up for and a second
one need not be, and `NumSRVAgreements` is above a majority, so that the fresh flag makes a difference; the one
crash falls between any two writes and the authority may come back in any later stage. `PublishedSrvIsRandom`
promises nothing once a majority has crashed (see Findings). `MaxMisses` is 0 in the run: every
running authority has fetched the newest consensus when voting starts. `EntryGuards` has one more guard than
the minimal sample, so that the sample is expanded; two of three guards answer at first, one of them the
last, and with three events the primary guard fails, comes back, is dropped or excluded and is retried in all
orders. The same model with two primary guards, four guards and two events also passes. `WireSize`,
`AppCells`, `OtherCells`, `MaxGeneration`, `MaxTime`, `MaxOutbuf`, `INT_MAX`, `MaxLosses`, `MaxMisses`,
`MaxCrashes`, `LastSlot`, `LastGuard` and `MaxEvents` are bounds of the models only. Deadlock is checked
where the system runs for ever (the pool, the CPU workers, the authorities up to the horizon, the guards); a
`Sendme` instance stops when everything has been sent, one of `Scheduler` when all channels and circuits have
been used, and a process that shuts down stops.

*Fairness.* Pool: weak fairness of each worker, of the reply callback and of freeing arguments: the
operating system runs every runnable thread and libevent calls the callback of a readable socket; and strong
fairness of taking from each priority, for the code goes on to a lower queue with a fixed probability at each
extraction. CPU workers: the pool serves every job (which is what `pool` shows), callbacks that are due run.
Strong fairness is used for callbacks that other callbacks can delay but not cancel. Flow control: the event
loop serves ready sockets, the channel takes cells, the hops deliver, applications read. Scheduler: a
callback that has begun ends (weak fairness of `RunStep` and `CleanupStep`), the scheduler's event and the
cleanup are not starved, the peer of a channel reads what it is sent without breaking the connection again
and again (`Drains`), and the kernel has room for a pending channel at some of the runs (`RunWithRoom`).
Guards: the client keeps asking for circuits, a circuit through a guard that answers is built in time if it
is tried again and again, the second-by-second upgrade runs, and circuits time out in the end that got no
answer, that are only measured, or that wait when no other is under way. Nothing is assumed of which timeout
comes first. So `WorkingGuardIsUsed` has an exception: waiting circuits are given up again and again while
others are under way, or in the second before they would have been upgraded. Strong fairness is
spelled out there as `[]<>P => []<><<A>>_vars`, with the condition under which the action can happen as `P`.
No fairness is assumed of what callers, peers or users choose to do: to queue work, create, mark or destroy
circuits, send other cells, close channels, change options.

## Proofs

Each theorem holds for every value of the constants that the module's one assumption allows
(`PoolAssumption`, `CpuAssumption`, `SchedulerAssumption`, `SharedRandomAssumption`,
`SendmeAssumption`, `EntryGuardsAssumption`): any number of threads, circuits, streams, channels, authorities
or guards, any limits and bounds. Three theorems of `Sendme` have further hypotheses, given below. The assumptions say that sets are finite, that
`NULL` and `None` are not members, and that limits are numbers in their ranges, and TLC evaluates them on
every run.

*Thread pool* (`WorkQueueProofs`, `JobPoolRefinement`)

* `TypeCorrect`: the types, strengthened by `HoldsByPc` (a worker holds an entry exactly between taking it
  and queueing the reply; the main thread holds none between two replies). Without it the reply queue could
  receive NULL.
* `Ownership`: `EntryOwnership` is inductive together with the types; six actions touch it, each has a lemma.
* `AlertsAreNotLost`: inductive given `HoldsByPc`. The argument is that whoever makes the queue nonempty is
  about to alert, and the main thread drains the socket *before* it looks at the queue.
* `UpdateArgs`: needs `UpdateByPc`, which ties a thread's generation, its slot, the argument in its hands and
  the state it runs with to where it is.
* `NoStaleState`: from `UpdInv`, ownership, and that no entry carries a generation from the future.
* `WakeupsAreNotLost`: a counting argument: each queued entry beyond those that workers already on their way
  will take was signalled to a worker that is on its way too; an update wakes everybody.
* `Refinement` (`JobPoolRefinement`): `WorkQueue` implements `JobPool`; ownership makes the cases of the
  mapping exclusive (`StatusCases`), six actions move one entry (`OneMoves`), all others leave every entry
  where it is (`SamePlace`).

*CPU workers and onion queue* (`CpuWorkerProofs`). One inductive invariant, `CpuInv`, gives all six
theorems: the links of `LinksAgree` only follow with what lies between them, namely which circuits have a
job at all, that an onionskin is on the queue of its own type once, and where the main thread is in its two
loops. `DeadIsAwaited` needs that a job whose circuit is dead has begun, `CountersAreExact` that a slot is
given back at exactly one of reply and cancellation. `TapIsNotStarved` needs that `recently_chosen_ntors`
never falls below the ntors really taken in a row.

* `CpuTypeCorrect`, `LinksAlwaysAgree`, `HandshakeIsKept`, `DeadIsAlwaysAwaited`, `CountersStayExact`,
  `TapIsServed`.

*Channels and scheduling* (`SchedulerProofs`). `Inv` says of every channel four things: how the states of
the channel, of its connection and of the scheduler go together (`Life`), what its circuitmux counts
(`Mux`), whether the heap, the lists of a run and the socket table may name it (`Heap`), and why a channel
with cells is not asleep (`Wake`). Since handlers are compositions of operators on the whole state, the
lemmas follow them: each operator preserves `Good(w, l)`, or a version of it with the one part that the
caller is about to repair left out, and an action is the composition of the lemmas of its parts.

* `SchedulerTypeCorrect`, `HeapAlwaysAgrees`, `NoWakeupIsLost`, `MuxStaysExact`. In particular no counter
  of a circuitmux is decremented below zero, and a write that fails in the middle of a KIST run leaves no
  trace of the channel, for any number of channels in the run.

*Flow control* (`SendmeProofs`). Every step of `Next` is first reduced to what it means for the other edge
(`EveryStep`): an edge does something of its own, queues one cell, or takes one cell off the wire, in each case
leaving its own record `Sound` (windows in range, streams being read when they may be, no increment owed when
a handler returns). From then on a proof looks at one direction at a time: the pipe, which is an edge's cell
queue and the wire behind it, and the records at its two ends. Counting the cells of a pipe (`CountNext` and
what follows from it) replaces any induction.

* `WindowsStayInRange`, `StreamsAreAwake`, `CreditConserved`: the invariant is that both edges are `Sound` and
  both directions `Balanced`. They need each other: a SENDME can be accepted without taking a window past its
  start only because the books balance, and they balance only because an edge never packages past zero.
* `SendmesArePredicted`, `DigestsMatch`: a DATA cell in the pipe that fills an increment has its digest at its
  place in the sender's FIFO (`Recorded`), and the SENDMEs on their way back carry the oldest of the FIFO
  (`Matched`). Hypothesis `InStep`: the increment in use is above 1 and `circwindow` a multiple of it. The code
  does not ensure it (see Findings), and the invariant fails without it.
* `HonestCircuitsStayOpen`: no check of `sendme.c` or of `append_cell_to_circuit_queue` closes the circuit.
  Besides `InStep` it needs `VersionsAgree` (an edge accepts the SENDME version its peer emits) and
  `QueueSuffices` (the maximum of the cell queue is above one window, the SENDMEs of the other direction and
  the uncounted cells), from a bound on what one window lets an edge queue (`Fits`). Every instance TLC runs
  satisfies the three hypotheses: `MCSendme` states them as `Honest`.

*Shared randomness* (`SharedRandomProofs`). `Inv` relates memory, file, votes and consensuses of every
authority to the clock. An authority's own commit is `Lasting`: once voted it is in memory and in every
image of the file up to the end of the run; images that a crash in the middle of a handler may leave behind
are `Dated`, so that a restart either finds the commit or is past the run. Handlers are described once, by
the images they write (`Image`) and their last one (`Final`), for a finished handler and for one that dies.
The arithmetic of rounds and runs (`DivMod`, `Quotients`, `Lexicographic`) is proved separately, for the
solvers do not find facts about division by a constant that is not a number.

* `SrTypeCorrect`, `NoDoubleVoting`, `LagIsForWantOfConsensus`, and `CommitmentsAreBinding`, an action
  property: it needs that a reveal is voted only in the second half of its run, and that an authority in
  step takes commits only in the first.
* `PublishedIsRandom`: `Backed` says that a value in a consensus has a majority of `Backers`, authorities that
  are in it with a reveal or have crashed, and that what an authority holds or votes for either has this support
  already or is backed by that authority itself: it computed the value, and its own reveal was among its
  commits. A majority that votes for one value is therefore a majority of backers. Support is never lost, for
  the set of authorities that have crashed only grows.
* `LossesAreTolerated`: while the hypotheses of `LossIsTolerated` hold (`Calm`) the authorities are `Tolerant`.
  A commit or a reveal that an authority has not got has cost a lost vote in every round of the phase that has
  ended (`LearnedInTime`), so after a phase of more rounds than losses nothing is missing. That needs the
  authorities to go through a run together, or a round late when a consensus failed, which takes a loss too
  (`Together`): without one all of them take the same votes (`Cast`) and build the same consensus
  (`Agreement`). `CommitsAgree` (one commitment of each authority per run) and `Values` then say that the
  values are equal, up to the moment within a round when some have computed theirs and others not yet. Crashes
  are counted for each authority in the property, where the model's bound uses their sum.

*Guards* (`EntryGuardsProofs`). `Inv` says that the selection is `Settled` (lists within the sample, usable
exactly if filtered and not down, primary guards ranked and up to date), that the confirmed guards are
`Numbered`, and that the circuits agree with it (`CircuitsAgree`). Two things had to be added to what the run
checks. A circuit may outlive its guard, which a consensus removes; if the guard could come back into the
sample unconfirmed, a waiting circuit through it would break `WaitingIsConfirmed`. So `Inv` says that the
guards of circuits are below `next`, and `Grows` that the sample only takes guards from `next` on. And within
a handler the cache of the primary guards may be stale (`Cached`), but never when the handler ends. Ranking
rests on a counting lemma: a member that `FirstN(S, n)` leaves out has n members of S before it
(`FirstNBefore`), and numbering members by how many come before them leaves no gap (`RankIsBijective`), which
is also what the renumbering of `entry_guards_update_confirmed` needs. That circuits are given up at any time
needs nothing more: closing takes a circuit away with the pending flag of its guard (`MarkForCloseInv`), and
becoming one for measurement changes neither.

* `GuardsTypeCorrect`, `GuardListsAlwaysAgree`.

Only model-checked: every liveness property (fairness and ENABLED are out of the prover's reach); and
`NoStrandedBytes`, which is false for some constants (`sendme_stall`) and, where it holds, rests on how far
one read can go beyond a low water mark.

## Findings

Shown by a run that expects the violation:

* `cpu_shutdown`: `circuit_about_to_free_atexit` is called "a safe-at-shutdown version" but leaves the onion
  queue entry of the circuit in place; `clear_pending_onions` then writes to the freed circuit.
* `sendme_stall`: SENDMEs that arrive while the cell queue is above its low water mark do not lead to
  packaging, and neither does the unblocking, which only restarts reads. Bytes already on an inbuf then wait
  for a further SENDME or for more input. When the low mark is at least the increment minus one a further
  SENDME is always due (`sendme_streams`); the defaults (low mark 10, increments 100 and 31) are below it.
* `sched_destroys`: `circuitmux_append_destroy_cell` puts a destroy on an empty outbuf "so that we can notice
  when it gets flushed", but the scheduler does not know that the channel has cells; the flush then only
  makes it `WAITING_FOR_CELLS`, and a second destroy, queued meanwhile, waits until a relay cell comes for
  the same channel.

Met while modelling (no run is devoted to these; the hazards of `PROJECT.json` name the lines):

* `onion_queue.c:51` promises "5 seconds on the onion queue til we just send back a destroy", but age is
  looked at only when another onionskin is added to the same queue, and a cancelled job gives its slot back
  without calling `queue_pending_tasks`: with all jobs cancelled before a worker begins them an onionskin
  waits, with idle workers, for as long as no CREATE comes.
* The prediction of SENDMEs assumes that the initial window is a multiple of the increment; the consensus may
  ask for any value from 100 to 1000. It also fails under congestion control with a negotiated increment of 1,
  which the consensus minimum allows (`SendmeBoth.cfg` with `cc_sendme_inc = 1`): no digest is remembered for
  a cell sent with nothing in flight.
* `channel_tls_num_cells_writeable` subtracts in `size_t`: an outbuf longer than the high mark by a cell
  leaves room for `INT_MAX` cells. The model has the wrap; the properties hold in spite of it.
* Shared randomness: an authority for which the round has no consensus does not get its state "ready for the
  next voting period" and votes with the phase of the round before; the state file expires one round before
  the run ends, so a restart in the last rounds forgets the commits and, if a majority does so, the value is
  computed from no reveal; a crash between the writes of `new_protocol_run` loses the previous value of that
  authority or its part in the run; the fresh flag does not survive a restart; failed disk writes go
  unnoticed, and with one an authority could commit twice.
* Met while proving `NoDoubleVoting`: `shared_random.c:51` says that "to avoid double voting, each dirauth
  saves the current state of the protocol on disk so that it can resume normally in case of reboot". This
  does not hold of every sequence of crashes. If an authority whose file has expired restarts in the last
  interval before a run, dies after `state_new` has written its file and before `new_protocol_run` has, and
  restarts, it reads a state of the commit phase back and adds a commitment to it, with `valid_after` equal to
  `valid_until`; it votes; and when it crashes once more, `disk_state_validate` refuses the file and a second
  commitment is drawn in the same run (TLC: one authority, one round per phase, `MaxCrashes = 3`,
  `LastSlot = 4`). Two crashes suffice when two consensuses in a row fail. So `OneCommitmentPerRun` exempts an
  authority that died between two writes and then again. A second, harmless case: an authority restored in the
  last interval of a run may take a commit left over from that run, whose reveals are out already;
  `NoCommitAfterReveal` therefore asks only about reveals of the run being voted on.
* Guards: a request with a restriction that finds no guard marks *all* guards for retry; a circuit that has to
  avoid a working primary guard waits until it expires; freeing a circuit that had succeeded clears the
  pending flag of a newer one through the same guard; a guard that becomes reachable again does not fill a
  primary list that is short. And a client can be kept from a guard that works: a circuit through it waits
  because a primary guard is retried, the build timeout closes it (circuituse.c:655) while the circuit that
  tries the silent primary guard still waits for its channel, which is spared (circuituse.c:545), and then the
  next circuit fares the same. The exception of `WorkingGuardIsUsed` is for that; without it TLC finds such
  cycles.

## Not modelled, and the plan

`PROJECT.json` lists every part of the program with the reason where it is not modelled: cryptography,
parsing, formats, files and operating-system glue are data without interaction; the large client and
directory features are future work. Within the modelled parts these are left out: failure of the write to
the alert socket and wrap-around of `pool->generation` (2^32 updates within one work item), `threadpool_start_threads`
failing half-way, half-closed streams, optimistic data, rendezvous splicing, the choice of victims by the OOM
handler (any set in `Scheduler`), lookup of channels by identity, bridges and directory guards, the state
file of the guards, and authorities that cheat.

Next, in this order:

1. `FlowControl`: XON/XOFF at both edges and the window update of the congestion-control algorithms, with the
   claim that the window "can never fall below 1 increment". Composed with `Sendme`.
2. `TokenBucket` (32-bit clock wrap) and `Hibernate` (restart inside an interval).
3. `Dispatch`, `ConsDiff` (on `JobPool`), `CircuitPadding`.
