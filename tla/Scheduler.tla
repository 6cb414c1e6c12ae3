------------------------------ MODULE Scheduler ------------------------------
(***************************************************************************)
(* How relay cells get from the queues of circuits onto the connections:   *)
(* the circuit multiplexer of each channel (core/or/circuitmux.c), the     *)
(* scheduler and its heap of pending channels (core/or/scheduler.c) with   *)
(* its two implementations KIST and Vanilla, the life of a channel and of  *)
(* its connection (core/or/channel.c, channeltls.c, connection_or.c), and  *)
(* the cleanup of what was marked for close (postloop_cleanup_cb).         *)
(*                                                                         *)
(* The event loop is one thread, so a handler runs to its end: it is an    *)
(* operator from the state (World) to the state.  A run of the scheduler   *)
(* and the postloop cleanup take one step per channel or circuit; while    *)
(* one of them is under way (loop.at # "idle") nothing else happens.       *)
(*                                                                         *)
(* Abstractions: buffers are counted in cells; the order of the heap and   *)
(* the priorities of the EWMA policy are left open; the write limit KIST   *)
(* computes from the kernel's counters is any number of cells up to        *)
(* KernelSpace less the outbuf; a circuit has one cell queue for each of   *)
(* the at most two channels it is attached to.  CHANNEL_STATE_MAINT is     *)
(* left out: an open OR connection never leaves its state but to close.    *)
(***************************************************************************)
EXTENDS Integers, FiniteSets, FiniteSetsExt

CONSTANTS
  Channels, Circuits,
  None,                          \* no channel
  or_conn_highwater,             \* water marks of an outbuf, in cells
  or_conn_lowwater,
  max_circuit_cell_queue_size,
  KernelBatch,                   \* KIST writes an outbuf longer than this
  KernelSpace,                   \* most cells KIST lets wait for the kernel
  Schedulers,                    \* implementations the options may ask for
  PaddedChannels,                \* channels that negotiated link padding
  MaxOutbuf,                     \* bound of the model: no relay cell arrives
                                 \* for a channel with a longer outbuf
  INT_MAX                        \* more cells than there ever are

ASSUME SchedulerAssumption ==
  /\ IsFiniteSet(Channels) /\ IsFiniteSet(Circuits) /\ None \notin Channels
  /\ {or_conn_highwater, or_conn_lowwater, max_circuit_cell_queue_size,
      KernelSpace, MaxOutbuf, INT_MAX} \subseteq Nat \ {0}
  /\ or_conn_lowwater <= or_conn_highwater
  /\ KernelBatch \in Nat /\ PaddedChannels \subseteq Channels
  /\ Schedulers \subseteq {"KIST", "Vanilla"} /\ Schedulers # {}

VARIABLES
  chan,              \* each channel, with its connection and circuitmux
  circ,              \* each circuit, with its cell queues
  channels_pending,  \* the heap of the scheduler
  run_sched_ev,      \* is the scheduler's event pending or active?
  the_scheduler,     \* the implementation in use
  loop               \* the callback the event loop is in

vars == <<chan, circ, channels_pending, run_sched_ev, the_scheduler, loop>>

World == [chan |-> chan, circ |-> circ, pending |-> channels_pending,
          ev |-> run_sched_ev]

Becomes(w) == /\ chan' = w.chan /\ circ' = w.circ
              /\ channels_pending' = w.pending /\ run_sched_ev' = w.ev

-----------------------------------------------------------------------------
(* States of channels and circuits. *)

\* The callback (at), the channel it works on, and for that channel how many
\* cells are left to flush and whether there were too few of them; KIST's
\* previous channel, its table of outbufs and the channels to re-add.
Idle == [at |-> "idle", chan |-> None, left |-> 0, short |-> FALSE,
         prev |-> None, outbufs |-> {}, readd |-> {}, todo |-> {}]

NoEntry  == -1      \* no entry in KIST's socket table
Detached == -1      \* no entry in the circuitmux

\* A channel on a connection whose handshake is under way; the last cell of
\* the handshake is on the outbuf.
NewChannel(c) ==
  [state |-> "OPENING", sched |-> "IDLE", conn |-> "ok", outbuf |-> 1,
   padding_enabled |-> c \in PaddedChannels, limit |-> NoEntry,
   count |-> [k \in Circuits |-> Detached], n_cells |-> 0,
   n_active_circuits |-> 0, destroys |-> 0, last_cell_was_destroy |-> FALSE]

NewCircuit == [state |-> "unused", on |-> {}, queue |-> [c \in Channels |-> 0]]

CHANNEL_CONDEMNED(x) == x.state \in {"CLOSING", "CLOSED", "freed"}
CHANNEL_FINISHED(x)  == x.state \in {"CLOSED", "freed"}

Init ==
  /\ chan = [c \in Channels |-> NewChannel(c)]
  /\ circ = [k \in Circuits |-> NewCircuit]
  /\ channels_pending = {}
  /\ run_sched_ev = FALSE
  /\ the_scheduler \in Schedulers
  /\ loop = Idle

-----------------------------------------------------------------------------
(* scheduler.c *)

SetSched(w, c, s) == [w EXCEPT !.chan[c].sched = s]
AddPending(w, c)  == [SetSched(w, c, "PENDING") EXCEPT !.pending = @ \cup {c}]

\* kist_scheduler_schedule and vanilla_scheduler_schedule; when the event
\* fires is left to the event loop.
schedule(w) == IF w.pending # {} THEN [w EXCEPT !.ev = TRUE] ELSE w

scheduler_channel_has_waiting_cells(w, c) ==
  CASE w.chan[c].sched = "WAITING_FOR_CELLS" -> schedule(AddPending(w, c))
    [] w.chan[c].sched = "IDLE" -> SetSched(w, c, "WAITING_TO_WRITE")
    [] OTHER -> w

\* The mutant leaves a channel that waits to write where it is.
wants_writes_when_idle(w, c) ==
  IF w.chan[c].sched = "IDLE" THEN SetSched(w, c, "WAITING_FOR_CELLS") ELSE w

scheduler_channel_wants_writes(w, c) ==
  CASE w.chan[c].sched = "WAITING_TO_WRITE" -> schedule(AddPending(w, c))
    [] w.chan[c].sched = "IDLE" -> SetSched(w, c, "WAITING_FOR_CELLS")
    [] OTHER -> w

\* The mutant leaves the state for whoever made the channel PENDING.
release_without_reset(w, c) ==
  [w EXCEPT !.pending = @ \ {c}, !.chan[c].limit = NoEntry]

\* Whatever its state, the channel leaves the heap and the socket table.
scheduler_release_channel(w, c) ==
  [w EXCEPT !.pending = @ \ {c},
            !.chan[c] = [@ EXCEPT !.sched = "IDLE", !.limit = NoEntry]]

-----------------------------------------------------------------------------
(* circuitmux.c, on the record x of a channel *)

circuitmux_num_cells(x) == x.n_cells + x.destroys

\* A circuit has no cells yet when it is attached.
circuitmux_attach_circuit(x, k) == [x EXCEPT !.count[k] = 0]

circuitmux_detach_circuit(x, k) ==
  [x EXCEPT !.count[k] = Detached,
            !.n_cells = @ - x.count[k],
            !.n_active_circuits = IF x.count[k] > 0 THEN @ - 1 ELSE @]

circuitmux_detach_all_circuits(x) ==
  [x EXCEPT !.count = [k \in Circuits |-> Detached],
            !.n_cells = 0, !.n_active_circuits = 0]

circuitmux_set_num_cells(x, k, n) ==
  [x EXCEPT !.count[k] = n,
            !.n_cells = @ - x.count[k] + n,
            !.n_active_circuits = IF x.count[k] > 0 /\ n = 0 THEN @ - 1
                                  ELSE IF x.count[k] = 0 /\ n > 0 THEN @ + 1
                                  ELSE @]

circuitmux_notify_xmit_cells(x, k) == circuitmux_set_num_cells(x, k, x.count[k] - 1)

\* A destroy goes first, unless the last cell was one and a circuit is active.
destroy_is_next(x) ==
  x.destroys > 0 /\ (~x.last_cell_was_destroy \/ x.n_active_circuits = 0)

\* The circuits the EWMA policy picks one of, by priorities left open here.
active_circuits(x) == {k \in Circuits : x.count[k] > 0}

-----------------------------------------------------------------------------
(* Circuits, and the flushing of one cell (relay.c). *)

circuit_mark_for_close(w, k) == [w EXCEPT !.circ[k].state = "marked"]

send_destroy_cell(x) ==
  [x EXCEPT !.destroys = @ - 1, !.last_cell_was_destroy = TRUE, !.outbuf = @ + 1]

\* The mutant tells the circuitmux twice of the cell that left.
xmit_twice(x, k, n) ==
  [circuitmux_notify_xmit_cells(circuitmux_set_num_cells(x, k, n), k) EXCEPT
     !.last_cell_was_destroy = FALSE, !.outbuf = @ + 1]

\* One cell of circuit k leaves; n cells of it are left.
send_relay_cell(x, k, n) ==
  [circuitmux_set_num_cells(circuitmux_notify_xmit_cells(x, k), k, n) EXCEPT
     !.last_cell_was_destroy = FALSE, !.outbuf = @ + 1]

channel_more_to_flush(x) == circuitmux_num_cells(x) > 0

update_circuit_on_cmux(w, k, c) ==
  [w EXCEPT !.chan[c] = circuitmux_set_num_cells(@, k, w.circ[k].queue[c])]

\* The OOM handler kills circuits: their cells are gone, the circuitmux
\* learns of it when they are freed.
circuits_handle_oom(w, killed) ==
  [w EXCEPT !.circ = [k \in Circuits |->
     IF k \in killed THEN [@[k] EXCEPT !.state = "marked",
                                       !.queue = [c \in Channels |-> 0]]
     ELSE @[k]]]

append_cell_to_circuit_queue(w, k, c, killed) ==
  LET v == circuits_handle_oom([w EXCEPT !.circ[k].queue[c] = @ + 1], killed)
  IN  IF w.circ[k].queue[c] >= max_circuit_cell_queue_size
      THEN circuit_mark_for_close(w, k)
      ELSE IF k \in killed THEN v
      ELSE scheduler_channel_has_waiting_cells(update_circuit_on_cmux(v, k, c), c)

-----------------------------------------------------------------------------
(* The life of a channel. *)

channel_change_state(w, c, s) ==
  scheduler_release_channel([w EXCEPT !.chan[c].state = s], c)

\* The connection failed (connection_or_notify_error and
\* connection_close_immediate).
channel_close_for_error(w, c) ==
  channel_change_state(
    [w EXCEPT !.chan[c] = [@ EXCEPT !.conn = "dead", !.outbuf = 0]], c, "CLOSING")

\* The connection is marked, and held open until its outbuf is flushed.
channel_mark_for_close(w, c) ==
  channel_change_state([w EXCEPT !.chan[c].conn = "held"], c, "CLOSING")

\* The channel loses its circuits, which are to be closed, and is closed; its
\* connection is about to be freed.
circuit_unlink_all_from_channel(w, c) ==
  [w EXCEPT
     !.chan[c] = circuitmux_detach_all_circuits(@),
     !.circ = [k \in Circuits |->
        IF c \in w.circ[k].on
        THEN [w.circ[k] EXCEPT !.state = "marked", !.on = w.circ[k].on \ {c},
                               !.queue[c] = 0]
        ELSE w.circ[k]]]

channel_closed(w, c) ==
  channel_change_state(circuit_unlink_all_from_channel(w, c), c, "CLOSED")

connection_or_about_to_close(w, c) ==
  [channel_closed(w, c) EXCEPT !.chan[c].conn = "null"]

\* What a write to the kernel may come to: an error; some cells leave, and
\* TLS is done or wants to write; or TLS wants to read first, and the cells
\* that left go unnoticed.
WriteOutcomes(n) ==
  {[result |-> "error", sent |-> 0]}
  \cup {[result |-> "done", sent |-> j] : j \in 0..n}
  \cup {[result |-> "wantread", sent |-> j] : j \in 0..(n - 1)}

connection_or_flushed_some(w, c) ==
  IF w.chan[c].outbuf < or_conn_lowwater
  THEN scheduler_channel_wants_writes(w, c) ELSE w

connection_handle_write(w, c, o) ==
  LET v == [w EXCEPT !.chan[c].outbuf = @ - o.sent]
  IN  IF w.chan[c].conn # "ok" THEN w
      ELSE IF o.result = "error" THEN channel_close_for_error(w, c)
      ELSE IF o.result = "done" /\ o.sent > 0
      THEN connection_or_flushed_some(v, c) ELSE v

\* In size_t: an outbuf longer than the mark by a cell wraps around, and the
\* answer is INT_MAX.
channel_tls_num_cells_writeable(x) ==
  IF x.outbuf <= or_conn_highwater THEN or_conn_highwater - x.outbuf
  ELSE INT_MAX

-----------------------------------------------------------------------------
(* Handlers of the event loop, outside of a run of the scheduler. *)

Handler(w) == loop = Idle /\ Becomes(w) /\ UNCHANGED <<the_scheduler, loop>>

channel_tls_handle_state_change_on_orconn(c) ==
  LET w == [World EXCEPT !.chan[c].state = "OPEN"]
  IN  /\ chan[c].state = "OPENING"
      /\ Handler(IF chan[c].outbuf < or_conn_highwater
                 THEN scheduler_channel_wants_writes(w, c) ELSE w)

\* A CREATE arrives, or a circuit is extended over an open channel.
attach_circuit(k, c) ==
  /\ circ[k].state \in {"unused", "open"}
  /\ Cardinality(circ[k].on) < 2 /\ c \notin circ[k].on
  /\ chan[c].state = "OPEN"
  /\ Handler([World EXCEPT
                !.circ[k] = [circ[k] EXCEPT !.state = "open", !.on = @ \cup {c}],
                !.chan[c] = circuitmux_attach_circuit(chan[c], k)])

\* A relay cell for circuit k and its channel c.
relay_cell(k, c) ==
  /\ circ[k].state = "open" /\ c \in circ[k].on /\ chan[c].outbuf <= MaxOutbuf
  /\ \E killed \in SUBSET {j \in Circuits : circ[j].state \in {"open", "marked"}} :
       Handler(append_cell_to_circuit_queue(World, k, c, killed))

\* A DESTROY arrives, a timeout expires, the circuit is no longer needed...
close_circuit(k) ==
  /\ circ[k].state = "open"
  /\ Handler(circuit_mark_for_close(World, k))

close_channel(c) ==
  /\ ~CHANNEL_CONDEMNED(chan[c])
  /\ \/ Handler(channel_mark_for_close(World, c))
     \/ Handler(channel_close_for_error(World, c))

\* Link padding bypasses the scheduler; a padding cell is sent on an idle
\* channel only, the cell that negotiates padding off at any time.
channelpadding_send_padding_cell_for_callback(c) ==
  /\ chan[c].state = "OPEN" /\ chan[c].padding_enabled
  /\ chan[c].outbuf = 0 /\ circuitmux_num_cells(chan[c]) = 0
  /\ Handler([World EXCEPT !.chan[c].outbuf = @ + 1])

channelpadding_disable_padding_on_channel(c) ==
  /\ chan[c].state = "OPEN" /\ chan[c].padding_enabled
  /\ Handler([World EXCEPT !.chan[c] = [chan[c] EXCEPT !.outbuf = @ + 1,
                                                       !.padding_enabled = FALSE]])

conn_write_callback(c) ==
  /\ chan[c].conn = "ok" /\ chan[c].outbuf > 0
  /\ \E o \in WriteOutcomes(chan[c].outbuf) :
       Handler(connection_handle_write(World, c, o))

\* The options ask for the other implementation: KIST forgets its sockets.
scheduler_conf_changed ==
  /\ loop = Idle
  /\ \E s \in Schedulers \ {the_scheduler} : the_scheduler' = s
  /\ chan' = [c \in Channels |-> [chan[c] EXCEPT !.limit = NoEntry]]
  /\ UNCHANGED <<circ, channels_pending, run_sched_ev, loop>>

-----------------------------------------------------------------------------
(* The loop of channel_flush_from_first_active_circuit, for the channel a     *)
(* callback works on: one cell or one empty circuit per step.  The write of   *)
(* a cell cannot fail: an open channel has a working connection.              *)

InRun(w, r) == Becomes(w) /\ loop' = r /\ UNCHANGED the_scheduler

\* KIST counts the cell against the limit of its socket.
update_socket_written(x) ==
  IF loop.at = "kist" THEN [x EXCEPT !.limit = @ - 1] ELSE x

channel_flush_from_first_active_circuit ==
  LET c == loop.chan
      x == chan[c]
  IN
  /\ loop.left > 0
  /\ \/ /\ destroy_is_next(x)
        /\ InRun([World EXCEPT !.chan[c] = update_socket_written(send_destroy_cell(x))],
                 [loop EXCEPT !.left = @ - 1])
     \/ /\ ~destroy_is_next(x)
        /\ \E k \in active_circuits(x) :
             LET n == circ[k].queue[c] IN
             \/ /\ n > 0
                /\ InRun([World EXCEPT
                            !.chan[c] = update_socket_written(
                                          send_relay_cell(x, k, n - 1)),
                            !.circ[k].queue[c] = n - 1],
                         [loop EXCEPT !.left = @ - 1])
             \/ /\ n = 0     \* the OOM handler took its cells
                /\ InRun(circuit_mark_for_close(
                           [World EXCEPT !.chan[c] =
                              [circuitmux_set_num_cells(x, k, 0) EXCEPT
                                 !.last_cell_was_destroy = FALSE]], k), loop)
     \/ /\ circuitmux_num_cells(x) = 0
        /\ InRun(World, [loop EXCEPT !.left = 0, !.short = TRUE])

\* What a scheduler asks of the channel c it has popped: n cells, if it is
\* open and has any.
channel_flush_some_cells(r, c, n) ==
  IF chan[c].state = "OPEN" /\ circuitmux_num_cells(chan[c]) > 0
  THEN [r EXCEPT !.left = n] ELSE [r EXCEPT !.short = TRUE]

-----------------------------------------------------------------------------
(* A run of KIST. *)

\* The event fires: the write limits of the pending channels are computed.
kist_run_begins(limits) ==
  /\ loop = Idle /\ run_sched_ev /\ the_scheduler = "KIST"
  /\ \A c \in channels_pending :
       limits[c] \in 0..Max({0, KernelSpace - chan[c].outbuf})
  /\ Becomes([World EXCEPT !.ev = FALSE, !.chan = [c \in Channels |->
       IF c \in channels_pending THEN [@[c] EXCEPT !.limit = limits[c]] ELSE @[c]]])
  /\ loop' = [Idle EXCEPT !.at = "kist"]
  /\ UNCHANGED the_scheduler

KistRunBegins == \E limits \in [channels_pending -> 0..KernelSpace] :
                   kist_run_begins(limits)

socket_can_write(x) == x.limit # 0

\* Take the best channel; on a switch, write the previous one's long outbuf.
\* If its limit allows, the channel is to flush one cell.
kist_pop ==
  /\ loop.at = "kist" /\ loop.chan = None
  /\ \E c \in channels_pending :
       LET w == [World EXCEPT !.pending = @ \ {c}]
           p == loop.prev
           q == [loop EXCEPT !.chan = c, !.prev = c, !.outbufs = @ \cup {c}]
           r == IF socket_can_write(chan[c])
                THEN channel_flush_some_cells(q, c, 1) ELSE q
       IN  IF p # None /\ p # c /\ chan[p].outbuf > KernelBatch
           THEN \E o \in WriteOutcomes(chan[p].outbuf) :
                  InRun(connection_handle_write(w, p, o),
                        [r EXCEPT !.outbufs = @ \ {p}])
           ELSE InRun(w, r)

\* The mutant takes a channel whose limit is reached for one without cells.
kist_limit_is_idle(w, c) ==
  IF channel_more_to_flush(w.chan[c]) /\ socket_can_write(w.chan[c])
  THEN AddPending(w, c) ELSE SetSched(w, c, "WAITING_FOR_CELLS")

\* Cases 1 to 4 of the loop; the channels of case 3 are re-added at the end.
kist_decide(w, c) ==
  IF ~channel_more_to_flush(w.chan[c]) THEN SetSched(w, c, "WAITING_FOR_CELLS")
  ELSE IF socket_can_write(w.chan[c]) THEN AddPending(w, c) ELSE w

\* What becomes of the channel when its cell is flushed, or it had none.
kist_serve ==
  LET c == loop.chan
      r == [loop EXCEPT !.chan = None, !.short = FALSE]
      full == channel_more_to_flush(chan[c]) /\ ~socket_can_write(chan[c])
  IN
  /\ loop.at = "kist" /\ c # None /\ loop.left = 0
  /\ CASE loop.short /\ chan[c].state # "OPEN" -> InRun(SetSched(World, c, "IDLE"), r)
       [] loop.short /\ chan[c].state = "OPEN" ->
            InRun(SetSched(World, c, "WAITING_FOR_CELLS"), r)
       [] ~loop.short ->
            InRun(kist_decide(World, c), [r EXCEPT !.readd = IF full THEN @ \cup {c} ELSE @])

\* After the loop: write the outbufs that were filled...
kist_write_outbuf ==
  /\ loop.at = "kist" /\ loop.chan = None /\ channels_pending = {}
  /\ \E c \in loop.outbufs :
       \E o \in IF chan[c].outbuf = 0 THEN {[result |-> "done", sent |-> 0]}
                ELSE WriteOutcomes(chan[c].outbuf) :
         InRun(connection_handle_write(World, c, o),
               [loop EXCEPT !.outbufs = @ \ {c}])

\* ...re-add the channels that had to stop, and ask for the next run.
readd_all(w) ==
  schedule([w EXCEPT
    !.pending = @ \cup loop.readd,
    !.chan = [c \in Channels |->
                IF c \in loop.readd THEN [@[c] EXCEPT !.sched = "PENDING"] ELSE @[c]]])

kist_run_ends ==
  /\ loop.at = "kist" /\ loop.chan = None
  /\ channels_pending = {} /\ loop.outbufs = {}
  /\ InRun(readd_all(World), Idle)

-----------------------------------------------------------------------------
(* A run of Vanilla. *)

vanilla_run_begins ==
  /\ loop = Idle /\ run_sched_ev /\ the_scheduler = "Vanilla"
  /\ Becomes([World EXCEPT !.ev = FALSE])
  /\ loop' = [Idle EXCEPT !.at = "vanilla"]
  /\ UNCHANGED the_scheduler

vanilla_pop ==
  /\ loop.at = "vanilla" /\ loop.chan = None
  /\ \E c \in channels_pending :
       LET w == [World EXCEPT !.pending = @ \ {c}]
           n == channel_tls_num_cells_writeable(chan[c])
       IN  IF n > 0
           THEN InRun(w, channel_flush_some_cells([loop EXCEPT !.chan = c], c, n))
           ELSE InRun(SetSched(w, c, "WAITING_TO_WRITE"), loop)

\* The cells ran out, or as many were flushed as the outbuf could take.
vanilla_decide ==
  LET c == loop.chan
      r == [loop EXCEPT !.chan = None, !.short = FALSE]
      more == channel_more_to_flush(chan[c])
      writeable == channel_tls_num_cells_writeable(chan[c]) > 0
  IN
  /\ loop.at = "vanilla" /\ c # None /\ loop.left = 0
  /\ IF ~loop.short /\ more /\ writeable
     THEN InRun(World, [r EXCEPT !.readd = @ \cup {c}])
     ELSE InRun(SetSched(World, c,
                  IF loop.short THEN "WAITING_FOR_CELLS"
                  ELSE IF more THEN "WAITING_TO_WRITE"
                  ELSE IF writeable THEN "WAITING_FOR_CELLS" ELSE "IDLE"), r)

vanilla_run_ends ==
  /\ loop.at = "vanilla" /\ loop.chan = None /\ channels_pending = {}
  /\ InRun(readd_all(World), Idle)

-----------------------------------------------------------------------------
(* postloop_cleanup_cb: circuits, then connections, then channels. *)

Marked    == {k \in Circuits : circ[k].state = "marked"}
Closeable == {c \in Channels : chan[c].conn \in {"dead", "held"}}

postloop_begins ==
  /\ loop = Idle /\ (Marked # {} \/ Closeable # {})
  /\ loop' = [Idle EXCEPT !.at = "circuits"]
  /\ UNCHANGED <<chan, circ, channels_pending, run_sched_ev, the_scheduler>>

\* One channel of a marked circuit: its cells go, the circuit is detached and,
\* unless the channel closes too, a destroy is queued.  If nothing waits on the
\* outbuf one cell is put there, so that its departure is noticed; the
\* scheduler is not told (channel_send_destroy, circuitmux_append_destroy_cell).
circuit_about_to_free(k, c) ==
  LET w == update_circuit_on_cmux([World EXCEPT !.circ[k].queue[c] = 0], k, c)
      x == circuitmux_detach_circuit(w.chan[c], k)
      v == [w EXCEPT !.circ[k].on = @ \ {c}, !.chan[c] = x]
  IN
  /\ loop.at = "circuits" /\ loop.left = 0
  /\ k \in Marked /\ c \in circ[k].on
  /\ IF CHANNEL_CONDEMNED(chan[c]) THEN InRun(v, loop)
     ELSE InRun([v EXCEPT !.chan[c].destroys = @ + 1],
                IF x.outbuf = 0
                THEN [loop EXCEPT !.chan = c, !.left = 1] ELSE loop)

circuit_free(k) ==
  /\ loop.at = "circuits" /\ loop.left = 0
  /\ k \in Marked /\ circ[k].on = {}
  /\ InRun([World EXCEPT !.circ[k].state = "freed"], loop)

circuits_are_closed ==
  /\ loop.at = "circuits" /\ loop.left = 0 /\ Marked = {}
  /\ InRun(World, [Idle EXCEPT !.at = "connections", !.todo = Closeable])

\* A connection that is held open stays while cells are left to flush.
conn_close_if_marked(c) ==
  LET r == [loop EXCEPT !.todo = @ \ {c}] IN
  /\ c \in loop.todo
  /\ \/ InRun(connection_or_about_to_close(World, c), r)
     \/ /\ chan[c].conn = "held"
        /\ \E n \in 1..chan[c].outbuf : InRun([World EXCEPT !.chan[c].outbuf = n], r)

channel_run_cleanup ==
  LET finished == {c \in Channels : chan[c].state = "CLOSED"} IN
  /\ loop.at = "connections" /\ loop.todo = {}
  /\ InRun([World EXCEPT
              !.pending = @ \ finished,
              !.chan = [c \in Channels |->
                 IF c \in finished
                 THEN [@[c] EXCEPT !.state = "freed", !.sched = "IDLE"] ELSE @[c]]],
           Idle)

-----------------------------------------------------------------------------

RunStep ==
  \/ kist_pop \/ kist_serve \/ kist_write_outbuf \/ kist_run_ends
  \/ vanilla_pop \/ vanilla_decide \/ vanilla_run_ends
  \/ channel_flush_from_first_active_circuit

CleanupStep ==
  \/ \E k \in Circuits : circuit_free(k) \/ \E c \in Channels : circuit_about_to_free(k, c)
  \/ circuits_are_closed
  \/ \E c \in Channels : conn_close_if_marked(c)
  \/ channel_run_cleanup

Next ==
  \/ \E c \in Channels :
       \/ channel_tls_handle_state_change_on_orconn(c)
       \/ close_channel(c) \/ conn_write_callback(c)
       \/ channelpadding_send_padding_cell_for_callback(c)
       \/ channelpadding_disable_padding_on_channel(c)
       \/ \E k \in Circuits : attach_circuit(k, c) \/ relay_cell(k, c)
  \/ \E k \in Circuits : close_circuit(k)
  \/ scheduler_conf_changed
  \/ KistRunBegins \/ vanilla_run_begins \/ RunStep
  \/ postloop_begins \/ CleanupStep

Spec == Init /\ [][Next]_vars

\* A cell of channel c reaches its outbuf.
Flushes(c) == chan'[c].outbuf > chan[c].outbuf /\ loop.at # "idle"

\* The connection takes cells, and is not broken.
Drains(c) == conn_write_callback(c) /\ chan'[c].outbuf < chan[c].outbuf
                                    /\ chan'[c].state = chan[c].state

\* A run in which the kernel has room for channel c.
RunWithRoom(c) == /\ KistRunBegins
                  /\ c \in channels_pending /\ chan'[c].limit > 0

\* A callback runs to its end.  The event loop starves no callback that is due
\* again and again (strongly fair, since others come in between); peers read
\* what they are sent, and the kernel's queue is not full at every run.
FairSpec ==
  /\ Spec
  /\ WF_vars(RunStep) /\ WF_vars(CleanupStep) /\ SF_vars(postloop_begins)
  /\ SF_vars(KistRunBegins \/ vanilla_run_begins)
  /\ \A c \in Channels : SF_vars(Drains(c)) /\ SF_vars(RunWithRoom(c))

-----------------------------------------------------------------------------
(* Properties. *)

SchedulerTypeOK ==
  /\ DOMAIN chan = Channels /\ DOMAIN circ = Circuits
  /\ \A c \in Channels :
       LET x == chan[c] IN
       /\ x.state \in {"OPENING", "OPEN", "CLOSING", "CLOSED", "freed"}
       /\ x.sched \in {"IDLE", "WAITING_FOR_CELLS", "WAITING_TO_WRITE", "PENDING"}
       /\ x.conn \in {"ok", "held", "dead", "null"}
       /\ {x.outbuf, x.n_cells, x.n_active_circuits, x.destroys} \subseteq Nat
       /\ x.limit \in {NoEntry} \cup Nat
       /\ x.count \in [Circuits -> {Detached} \cup Nat]
  /\ \A k \in Circuits :
       /\ circ[k].state \in {"unused", "open", "marked", "freed"}
       /\ circ[k].on \subseteq Channels
       /\ circ[k].queue \in [Channels -> Nat]
  /\ channels_pending \subseteq Channels /\ run_sched_ev \in BOOLEAN
  /\ the_scheduler \in Schedulers

\* The heap and the states of the channels tell the same story: a channel is
\* PENDING if and only if it is in the heap, or the run under way has taken it
\* out and will decide on it.  Nothing the scheduler holds (the heap, the
\* socket table, the lists of a run) names a channel that has lost its
\* connection, although a write may fail and close any channel in the middle
\* of a run (scheduler_release_channel: "we can release a channel in many
\* places").
HeapAgrees ==
  LET held == channels_pending \cup loop.readd \cup loop.outbufs
              \cup ({loop.chan, loop.prev} \ {None})
  IN
  /\ \A c \in channels_pending : chan[c].sched = "PENDING"
  /\ \A c \in Channels : chan[c].sched = "PENDING" =>
       c \in channels_pending \cup loop.readd \cup {loop.chan}
  /\ \A c \in Channels : chan[c].conn = "null" => c \notin held /\ chan[c].limit = NoEntry
  /\ loop.at = "kist" /\ loop.chan # None => chan[loop.chan].limit # NoEntry

\* No wakeup is lost: a channel that is open and has relay cells is pending
\* and a run is due or under way, or its outbuf has cells whose departure will
\* make it pending (connection_or_flushed_some).
CellsAreScheduled ==
  /\ \A c \in Channels :
       (chan[c].state = "OPEN" /\ \E k \in Circuits : circ[k].queue[c] > 0) =>
         \/ chan[c].sched = "PENDING"
         \/ chan[c].sched = "WAITING_TO_WRITE" /\ chan[c].outbuf > 0
  /\ channels_pending # {} => run_sched_ev \/ loop.at \in {"kist", "vanilla"}

\* The cells that the entries of a circuitmux count.
CountedCells(x) == UNION {{k} \X (1..x.count[k]) : k \in Circuits}

\* The counters of the circuitmux are exact (the assertions of
\* circuitmux_get_first_active_circuit): its totals are those of its entries,
\* and an entry counts the cells of its circuit, unless the OOM handler has
\* just taken the cells of a circuit that is marked for close.
MuxAgrees ==
  \A c \in Channels :
    LET x == chan[c]
        attached == {k \in Circuits : x.count[k] # Detached}
    IN
    /\ attached = {k \in Circuits : c \in circ[k].on}
    /\ x.n_cells = Cardinality(CountedCells(x))
    /\ x.n_active_circuits = Cardinality({k \in attached : x.count[k] > 0})
    /\ \A k \in attached :
         \/ x.count[k] = circ[k].queue[c]
         \/ circ[k].state = "marked" /\ x.count[k] > circ[k].queue[c]

\* A channel that stays open and never runs out of relay cells keeps sending:
\* whichever state the scheduler, KIST's limit and the water marks put it in,
\* it comes up for service again.
CellsKeepFlowing ==
  \A c \in Channels :
    <>[](chan[c].state = "OPEN" /\ \E k \in Circuits : circ[k].queue[c] > 0)
      => []<><<Flushes(c)>>_vars

\* "There is no data at all waiting to be sent on the outbuf.  Add a cell, so
\* that we can notice when it gets flushed, flushed_some can get called, and
\* we can start putting more data onto the buffer then"
\* (circuitmux_append_destroy_cell): queued destroy cells are sent.
DestroysAreSent ==
  \A c \in Channels :
    chan[c].destroys > 0 ~> (chan[c].destroys = 0 \/ chan[c].state # "OPEN")
=============================================================================
