------------------------------- MODULE Sendme -------------------------------
(***************************************************************************)
(* End-to-end flow control of one circuit between its two edges, the       *)
(* client and the exit: the circuit and stream windows, the SENDME cells   *)
(* that refill them and the cell digests that authenticate those cells     *)
(* (core/or/sendme.c), the packaging of stream bytes into DATA cells, the  *)
(* stopping and restarting of reads, and the high and low water marks of   *)
(* the edge's own cell queue (core/or/relay.c,                             *)
(* core/or/congestion_control_common.c).                                   *)
(*                                                                         *)
(* Each edge is one record, because its event loop is one thread: a        *)
(* handler is an operator from the record to the record.  Only loops that  *)
(* send cells take several steps, one per cell, and while an edge is in    *)
(* one (its task is not Idle) none of its other handlers runs.             *)
(*                                                                         *)
(* Abstractions: bytes are counted in cells; a running digest is the       *)
(* number of relay cells it has absorbed, tagged with their sender; the    *)
(* hops between the edges are a FIFO wire; a congestion-control algorithm  *)
(* may pick any window of Cwnds; the XON/XOFF cells that replace stream    *)
(* SENDMEs under congestion control are not modelled.                      *)
(***************************************************************************)
EXTENDS Integers, Sequences, FiniteSets

CONSTANTS
  Streams,                \* streams attached to the circuit
  CIRCWINDOW_START, CIRCWINDOW_INCREMENT,
  STREAMWINDOW_START, STREAMWINDOW_INCREMENT,
  circwindow,             \* consensus parameter: initial package window
  Negotiated,             \* may the edges have negotiated congestion control?
  cc_sendme_inc,          \* if so, the negotiated increment
  Cwnds,                  \* and the values of cc->cwnd
  emit_min_version,       \* SENDME version each edge emits
  accept_min_version,     \* least SENDME version each edge accepts
  cell_queue_high,        \* water marks of the edge's cell queue
  cell_queue_low,
  max_circuit_cell_queue_size,
  OutbufLimit,            \* cells an outbuf holds before it is "too full"
  ReadSize,               \* most cells one read event brings in
  AppCells,               \* bound: cells each application writes per stream
  OtherCells,             \* bound: other relay cells each edge sends
  WireSize                \* bound: cells in transit; a full channel takes none

Ends == {"client", "exit"}
Peer(e) == IF e = "client" THEN "exit" ELSE "client"

ASSUME SendmeAssumption ==
  /\ IsFiniteSet(Streams) /\ "circuit" \notin Streams
  /\ {CIRCWINDOW_START, CIRCWINDOW_INCREMENT, STREAMWINDOW_START,
      STREAMWINDOW_INCREMENT, cc_sendme_inc, cell_queue_high, ReadSize,
      WireSize, max_circuit_cell_queue_size} \subseteq Nat \ {0}
  /\ circwindow \in CIRCWINDOW_INCREMENT..CIRCWINDOW_START
  /\ CIRCWINDOW_INCREMENT <= CIRCWINDOW_START
  /\ STREAMWINDOW_INCREMENT <= STREAMWINDOW_START
  /\ cc_sendme_inc <= CIRCWINDOW_START
  /\ Negotiated \subseteq BOOLEAN /\ Cwnds \subseteq Nat /\ Cwnds # {}
  /\ {cell_queue_low, OutbufLimit} \subseteq Nat
  /\ emit_min_version \in [Ends -> Nat] /\ accept_min_version \in [Ends -> Nat]
  /\ AppCells \in [Ends -> [Streams -> Nat]] /\ OtherCells \in [Ends -> Nat]

VARIABLES edge,    \* the state of each edge
          wire,    \* cells each edge's channel has sent, not yet delivered
          socket,  \* cells' worth of bytes each application has yet to write
          others,  \* other relay cells each edge has yet to send
          ccontrol \* did this circuit's edges negotiate congestion control?

vars == <<edge, wire, socket, others, ccontrol>>

MinOf(a, b) == IF a < b THEN a ELSE b
CEIL_DIV(a, b) == (a + b - 1) \div b

-----------------------------------------------------------------------------
(* Cells, and the handler an edge may be in the middle of. *)

Data(s)         == [command |-> "DATA", stream |-> s, digest |-> << >>]
StreamSendme(s) == [command |-> "SENDME", stream |-> s, digest |-> << >>]
Other           == [command |-> "OTHER", stream |-> "circuit", digest |-> << >>]
\* A version 0 SENDME has no payload: its digest is empty.
CircSendme(d)   == [command |-> "SENDME", stream |-> "circuit", digest |-> d]

Idle == [op |-> "idle"]
\* connection_edge_package_raw_inbuf without a limit: more than it can send.
PackageTask(x, s) == [op |-> "package", s |-> s, n |-> x.inbuf[s] + 1]
SendmeTask(s) == [op |-> "sendme", s |-> s]

SENDME_MAX_SUPPORTED_VERSION == 1

sendme_get_inc_count ==
  IF ccontrol THEN cc_sendme_inc ELSE CIRCWINDOW_INCREMENT

congestion_control_get_package_window(x) ==
  IF ~ccontrol THEN x.package_window
  ELSE IF x.inflight > x.cwnd THEN 0 ELSE x.cwnd - x.inflight

\* An edge never marks a circuit that is already closing; the first close
\* ends the story (the DESTROY that follows is not modelled here).
Close(x) == [x EXCEPT !.closed = TRUE]

NewEdge(e, w) ==
  [package_window |-> circwindow, deliver_window |-> CIRCWINDOW_START,
   inflight |-> 0, cwnd |-> w,
   stream_package |-> [s \in Streams |-> STREAMWINDOW_START],
   stream_deliver |-> [s \in Streams |-> STREAMWINDOW_START],
   last_digests |-> << >>,          \* circ->sendme_last_digests
   sendme_digest |-> <<e, 0>>,      \* crypto->sendme_digest, one per edge
   sent |-> 0, received |-> 0,      \* what the two running digests absorbed
   queue |-> << >>, blocked |-> FALSE,
   inbuf |-> [s \in Streams |-> 0], reading |-> [s \in Streams |-> TRUE],
   outbuf |-> [s \in Streams |-> 0],
   task |-> Idle, closed |-> FALSE]

Init ==
  /\ \E w \in Cwnds : edge = [e \in Ends |-> NewEdge(e, w)]
  /\ wire = [e \in Ends |-> << >>]
  /\ socket = AppCells
  /\ others = OtherCells
  /\ ccontrol \in Negotiated

-----------------------------------------------------------------------------
(* Sending a relay cell. *)

stop_reading_all(x)  == [x EXCEPT !.reading = [s \in Streams |-> FALSE]]
start_reading_all(x) == [x EXCEPT !.reading = [s \in Streams |-> TRUE]]

\* Block every stream once the queue reaches the high water mark; while it
\* is blocked, a stream that still sends is stopped again.
block_streams(x, fromstream) ==
  IF ~x.blocked
  THEN IF Len(x.queue) >= cell_queue_high
       THEN stop_reading_all([x EXCEPT !.blocked = TRUE]) ELSE x
  ELSE IF fromstream \in Streams
       THEN [x EXCEPT !.reading[fromstream] = FALSE] ELSE x

append_cell_to_circuit_queue(x, cell) ==
  IF Len(x.queue) >= max_circuit_cell_queue_size THEN Close(x)
  ELSE block_streams([x EXCEPT !.queue = Append(@, cell)], cell.stream)

\* The mutant predicts the SENDME from the window after this cell.
sent_cell_off_by_one(x) ==
  IF ccontrol
  THEN x.inflight # 0 /\ x.inflight % cc_sendme_inc = 0
  ELSE /\ x.package_window # CIRCWINDOW_START
       /\ x.package_window % CIRCWINDOW_INCREMENT = 0

circuit_sent_cell_for_sendme(x) ==
  IF ccontrol
  THEN x.inflight # 0 /\ (x.inflight + 1) % cc_sendme_inc = 0
  ELSE /\ x.package_window # CIRCWINDOW_START
       /\ (x.package_window - 1) % CIRCWINDOW_INCREMENT = 0

sendme_record_sending_cell_digest(e, x) ==
  IF circuit_sent_cell_for_sendme(x)
  THEN [x EXCEPT !.sendme_digest = <<e, x.sent>>] ELSE x

sendme_record_cell_digest_on_circ(x) ==
  IF circuit_sent_cell_for_sendme(x)
  THEN [x EXCEPT !.last_digests = Append(@, x.sendme_digest)] ELSE x

\* The mutant remembers a digest for every kind of cell.
record_for_every_cell(e, x, cell) ==
  sendme_record_cell_digest_on_circ(
    append_cell_to_circuit_queue(
      sendme_record_sending_cell_digest(e, [x EXCEPT !.sent = @ + 1]), cell))

\* Encrypting the cell moves the running digest; only DATA is acknowledged.
relay_send_command_from_edge(e, x, cell) ==
  LET y == append_cell_to_circuit_queue(
             sendme_record_sending_cell_digest(e, [x EXCEPT !.sent = @ + 1]),
             cell)
  IN  IF cell.command = "DATA" THEN sendme_record_cell_digest_on_circ(y) ELSE y

-----------------------------------------------------------------------------
(* Packaging stream bytes into DATA cells. *)

sendme_note_circuit_data_packaged(x) ==
  IF ccontrol THEN [x EXCEPT !.inflight = @ + 1]
              ELSE [x EXCEPT !.package_window = @ - 1]

sendme_note_stream_data_packaged(x, s) ==
  IF ccontrol THEN x ELSE [x EXCEPT !.stream_package[s] = @ - 1]

\* One turn of the loop in connection_edge_package_raw_inbuf.
package_one_cell(e, x, s) ==
  sendme_note_stream_data_packaged(
    sendme_note_circuit_data_packaged(
      relay_send_command_from_edge(e, [x EXCEPT !.inbuf[s] = @ - 1], Data(s))), s)

circuit_is_full(x) == congestion_control_get_package_window(x) <= 0

circuit_consider_stop_edge_reading(x) ==
  IF circuit_is_full(x) THEN stop_reading_all(x) ELSE x

\* The early returns of the loop: its limit is used up, the circuit window is
\* shut, the stream window is shut, or the inbuf is empty.
package_loop_ends(x, s) ==
  IF x.task.n <= 0 THEN x
  ELSE IF circuit_is_full(x) THEN stop_reading_all(x)
  ELSE IF x.stream_package[s] <= 0 THEN [x EXCEPT !.reading[s] = FALSE]
  ELSE x

\* The mutant looks at the circuit window only.
package_past_zero(x, s) ==
  x.task.n > 0 /\ ~circuit_is_full(x) /\ x.inbuf[s] > 0

can_package(x, s) ==
  /\ x.task.n > 0
  /\ ~circuit_is_full(x)
  /\ x.stream_package[s] > 0
  /\ x.inbuf[s] > 0

-----------------------------------------------------------------------------
(* Receiving DATA: the deliver windows, and the SENDMEs that refill them. *)

\* The mutant forgets that the window has not been decremented yet.
is_next_off_by_one(x) ==
  (CIRCWINDOW_START - x.deliver_window) % sendme_get_inc_count = 0

circuit_sendme_cell_is_next(x) ==
  (CIRCWINDOW_START - (x.deliver_window - 1)) % sendme_get_inc_count = 0

sendme_record_received_cell_digest(e, x) ==
  IF circuit_sendme_cell_is_next(x)
  THEN [x EXCEPT !.sendme_digest = <<Peer(e), x.received>>] ELSE x

send_circuit_level_sendme(e, x) ==
  relay_send_command_from_edge(e, x,
    CircSendme(IF emit_min_version[e] = 1 THEN x.sendme_digest ELSE << >>))

\* The loop of the code sends at most one ("Current implementation is not
\* suppose to send multiple SENDME at once"): see the last part of CreditIsConserved.
sendme_circuit_consider_sending(e, x) ==
  IF x.deliver_window <= CIRCWINDOW_START - sendme_get_inc_count
  THEN send_circuit_level_sendme(e,
         [x EXCEPT !.deliver_window = @ + sendme_get_inc_count])
  ELSE x

\* The mutant takes an outbuf that is just at its limit for too full.
outbuf_full_at_limit(x, s) == x.outbuf[s] >= OutbufLimit

connection_outbuf_too_full(x, s) == x.outbuf[s] > OutbufLimit

stream_sendme_is_due(x, s) ==
  /\ ~ccontrol
  /\ ~connection_outbuf_too_full(x, s)
  /\ x.stream_deliver[s] <= STREAMWINDOW_START - STREAMWINDOW_INCREMENT

\* The loop is the last thing its callers do: see stream_sendme_loop.
sendme_connection_edge_consider_sending(x, s) ==
  IF stream_sendme_is_due(x, s) THEN [x EXCEPT !.task = SendmeTask(s)] ELSE x

\* The mutant refills the whole window but sends a single SENDME.
refill_at_once(e, x, s) ==
  relay_send_command_from_edge(e,
    [x EXCEPT !.stream_deliver[s] = STREAMWINDOW_START], StreamSendme(s))

send_stream_sendme(e, x, s) ==
  relay_send_command_from_edge(e,
    [x EXCEPT !.stream_deliver[s] = @ + STREAMWINDOW_INCREMENT], StreamSendme(s))

sendme_circuit_data_received(x) == [x EXCEPT !.deliver_window = @ - 1]

sendme_stream_data_received(x, s) ==
  IF ccontrol THEN x ELSE [x EXCEPT !.stream_deliver[s] = @ - 1]

\* connection_buf_add, then a stream SENDME if one is due.
deliver_to_stream(x, s) ==
  LET y == sendme_stream_data_received(x, s)
  IN  IF y.stream_deliver[s] < 0 THEN Close(y)
      ELSE sendme_connection_edge_consider_sending([y EXCEPT !.outbuf[s] = @ + 1], s)

\* The mutant drops a cell for a slow stream before it is counted.
count_only_delivered(e, x, s) ==
  LET y == sendme_circuit_data_received(x)
  IN  IF connection_outbuf_too_full(x, s) THEN x
      ELSE deliver_to_stream(sendme_circuit_consider_sending(e, y), s)

process_data_cell(e, x, s) ==
  LET y == sendme_circuit_data_received(x)
  IN  IF y.deliver_window < 0 THEN Close(y)
      ELSE deliver_to_stream(sendme_circuit_consider_sending(e, y), s)

-----------------------------------------------------------------------------
(* Receiving SENDMEs: validation, and restarting the streams. *)

cell_version_can_be_handled(e, version) ==
  /\ accept_min_version[e] <= SENDME_MAX_SUPPORTED_VERSION
  /\ version >= accept_min_version[e]
  /\ version <= SENDME_MAX_SUPPORTED_VERSION

\* The oldest remembered digest is popped whatever the version.
sendme_is_valid(e, x, cell) ==
  LET version == IF cell.digest = << >> THEN 0 ELSE 1
  IN  /\ cell_version_can_be_handled(e, version)
      /\ x.last_digests # << >>
      /\ version = 1 => cell.digest = Head(x.last_digests)

\* The streams that may package when the circuit window reopens.
resumable(x) == {s \in Streams : x.stream_package[s] > 0}

\* One round of circuit_resume_edge_reading_helper: the streams share max.
ResumeTask(max, n_packaging) ==
  [op |-> "resume", s |-> "circuit", n |-> 0, todo |-> Streams,
   max |-> max, quota |-> CEIL_DIV(max, n_packaging),
   packaged |-> 0, left |-> 0]

\* The mutant leaves stopped streams stopped.
resume_without_start(x) ==
  LET ready == {s \in resumable(x) : x.inbuf[s] > 0}
      room  == MinOf(congestion_control_get_package_window(x),
                     cell_queue_high - Len(x.queue))
  IN  IF x.blocked \/ ready = {} THEN x
      ELSE [x EXCEPT !.task = ResumeTask(room, Cardinality(ready))]

circuit_resume_edge_reading(x) ==
  LET ready == {s \in resumable(x) : x.inbuf[s] > 0}
      room  == MinOf(congestion_control_get_package_window(x),
                     cell_queue_high - Len(x.queue))
      y     == [x EXCEPT !.reading = [s \in Streams |->
                                        @[s] \/ s \in resumable(x)]]
  IN  IF x.blocked THEN x
      ELSE IF ready = {} THEN y
      ELSE [y EXCEPT !.task = ResumeTask(room, Cardinality(ready))]

\* With congestion control the algorithm sets cwnd to w and acknowledges.
sendme_process_circuit_level(e, x, cell, w) ==
  LET y == [x EXCEPT !.last_digests = Tail(@)]
  IN  IF ~sendme_is_valid(e, x, cell) THEN Close(x)
      ELSE IF ccontrol
      THEN circuit_resume_edge_reading(
             [y EXCEPT !.inflight = @ - cc_sendme_inc, !.cwnd = w])
      ELSE IF x.package_window + CIRCWINDOW_INCREMENT > CIRCWINDOW_START
      THEN Close(y)
      ELSE circuit_resume_edge_reading(
             [y EXCEPT !.package_window = @ + CIRCWINDOW_INCREMENT])

sendme_process_stream_level(x, s) ==
  IF ccontrol \/ x.stream_package[s] + STREAMWINDOW_INCREMENT > STREAMWINDOW_START
  THEN Close(x)
  ELSE [x EXCEPT !.stream_package[s] = @ + STREAMWINDOW_INCREMENT]

\* The mutant updates the window and waits for the next read event.
no_packaging_on_sendme(x, s) ==
  LET y == sendme_process_stream_level(x, s)
  IN  IF y.closed \/ y.blocked THEN y ELSE [y EXCEPT !.reading[s] = TRUE]

\* What process_sendme_cell does for a stream; unless the cell queue is
\* blocked, whatever is on the inbuf is packaged at once.
process_stream_sendme(x, s) ==
  LET y == sendme_process_stream_level(x, s)
  IN  IF y.closed \/ y.blocked THEN y
      ELSE [y EXCEPT !.reading[s] = TRUE, !.task = PackageTask(y, s)]

\* circuit_receive_relay_cell for a recognized cell, by its command.
handle_relay_cell_command(e, x, cell, w) ==
  LET y == sendme_record_received_cell_digest(e, [x EXCEPT !.received = @ + 1])
  IN  CASE cell.command = "DATA" -> process_data_cell(e, y, cell.stream)
        [] cell.command = "SENDME" /\ cell.stream = "circuit" ->
             sendme_process_circuit_level(e, y, cell, w)
        [] cell.command = "SENDME" /\ cell.stream # "circuit" ->
             process_stream_sendme(y, cell.stream)
        [] cell.command = "OTHER" -> y

-----------------------------------------------------------------------------
(* The event loop of edge e. *)

Open == \A e \in Ends : ~edge[e].closed

\* A handler starts when its edge is idle.  It also waits for a loop of
\* the peer to end: the steps of such a loop touch nothing but the peer's
\* own record, so every interleaving with them has the same effect.
Ready == Open /\ \A f \in Ends : edge[f].task = Idle
Packaging(e) == /\ Open /\ edge[e].task.op \in {"package", "resume"}
                /\ edge[e].task.s \in Streams

Becomes(e, x) == edge' = [edge EXCEPT ![e] = x]

\* A read event: bytes from the application, then the packaging loop.
connection_edge_process_inbuf(e, s) ==
  /\ Ready /\ edge[e].reading[s]
  /\ \E k \in 1..MinOf(ReadSize, socket[e][s]) :
       LET x == [edge[e] EXCEPT !.inbuf[s] = @ + k]
       IN  /\ Becomes(e, [x EXCEPT !.task = PackageTask(x, s)])
           /\ socket' = [socket EXCEPT ![e][s] = @ - k]
  /\ UNCHANGED <<wire, others, ccontrol>>

connection_edge_package_raw_inbuf(e) ==
  LET x == edge[e] IN
  /\ Packaging(e) /\ can_package(x, x.task.s)
  /\ Becomes(e, package_one_cell(e, [x EXCEPT !.task.n = @ - 1], x.task.s))
  /\ UNCHANGED <<wire, socket, others, ccontrol>>

package_loop_returns(e) ==
  LET x == edge[e]
      y == package_loop_ends(x, x.task.s)
  IN
  /\ Packaging(e) /\ ~can_package(x, x.task.s) /\ x.task.op = "package"
  /\ Becomes(e, [y EXCEPT !.task = Idle])
  /\ UNCHANGED <<wire, socket, others, ccontrol>>

\* The next stream of circuit_resume_edge_reading_helper, in list order; the
\* order of the list is left open.
resume_next_stream(e) ==
  LET x == edge[e] IN
  /\ Open /\ x.task # Idle /\ x.task.s = "circuit"
  /\ \E s \in x.task.todo :
       Becomes(e,
         IF x.stream_package[s] <= 0
         THEN [x EXCEPT !.task.todo = @ \ {s}]
         ELSE [x EXCEPT !.task.todo = @ \ {s}, !.task.s = s,
                        !.task.n = x.task.quota])
  /\ UNCHANGED <<wire, socket, others, ccontrol>>

resume_stream_returns(e) ==
  LET x == edge[e]
      s == x.task.s
      y == circuit_consider_stop_edge_reading(package_loop_ends(x, s))
      packaged == x.task.packaged + (x.task.quota - x.task.n)
      left == IF x.inbuf[s] > 0 THEN x.task.left + 1 ELSE x.task.left
  IN
  /\ Packaging(e) /\ ~can_package(x, s) /\ x.task.op = "resume"
  /\ Becomes(e,
       IF circuit_is_full(x) THEN [y EXCEPT !.task = Idle]
       ELSE [y EXCEPT !.task.s = "circuit", !.task.packaged = packaged,
                      !.task.left = left])
  /\ UNCHANGED <<wire, socket, others, ccontrol>>

\* Another round while there was progress, room and a stream left, or the end.
resume_round_ends(e) ==
  LET x == edge[e]
      t == x.task
  IN
  /\ Open /\ t # Idle /\ t.s = "circuit" /\ t.todo = {}
  /\ Becomes(e, [x EXCEPT !.task =
       IF t.packaged > 0 /\ t.packaged < t.max /\ t.left > 0
       THEN ResumeTask(t.max - t.packaged, t.left) ELSE Idle])
  /\ UNCHANGED <<wire, socket, others, ccontrol>>

\* One turn of the loop of sendme_connection_edge_consider_sending.
stream_sendme_loop(e) ==
  LET x == edge[e] IN
  /\ Open /\ x.task.op = "sendme"
  /\ Becomes(e, sendme_connection_edge_consider_sending(
                  send_stream_sendme(e, [x EXCEPT !.task = Idle], x.task.s), x.task.s))
  /\ UNCHANGED <<wire, socket, others, ccontrol>>

\* A BEGIN, CONNECTED, END or DROP cell: no window counts it.
send_other_cell(e) ==
  /\ Ready /\ others[e] > 0
  /\ others' = [others EXCEPT ![e] = @ - 1]
  /\ Becomes(e, relay_send_command_from_edge(e, edge[e], Other))
  /\ UNCHANGED <<wire, socket, ccontrol>>

\* The channel takes a cell; at the low water mark the streams read again.
flushed(x) ==
  LET y == [x EXCEPT !.queue = Tail(@)]
  IN  IF y.blocked /\ Len(y.queue) <= cell_queue_low
      THEN start_reading_all([y EXCEPT !.blocked = FALSE]) ELSE y

channel_flush_from_first_active_circuit(e) ==
  /\ Ready /\ edge[e].queue # << >> /\ Len(wire[e]) < WireSize
  /\ wire' = [wire EXCEPT ![e] = Append(@, Head(edge[e].queue))]
  /\ Becomes(e, flushed(edge[e]))
  /\ UNCHANGED <<socket, others, ccontrol>>

circuit_receive_relay_cell(e) ==
  /\ Ready /\ wire[Peer(e)] # << >>
  /\ wire' = [wire EXCEPT ![Peer(e)] = Tail(@)]
  /\ \E w \in Cwnds :
       Becomes(e, handle_relay_cell_command(e, edge[e], Head(wire[Peer(e)]), w))
  /\ UNCHANGED <<socket, others, ccontrol>>

\* The application takes bytes off the outbuf.
connection_edge_flushed_some(e, s) ==
  /\ Ready /\ edge[e].outbuf[s] > 0
  /\ \E k \in 1..edge[e].outbuf[s] :
       Becomes(e, sendme_connection_edge_consider_sending(
                    [edge[e] EXCEPT !.outbuf[s] = @ - k], s))
  /\ UNCHANGED <<wire, socket, others, ccontrol>>

EdgeStep(e) ==
  \/ connection_edge_package_raw_inbuf(e)
  \/ package_loop_returns(e)
  \/ resume_next_stream(e)
  \/ resume_stream_returns(e)
  \/ resume_round_ends(e)
  \/ stream_sendme_loop(e)
  \/ send_other_cell(e)
  \/ channel_flush_from_first_active_circuit(e)
  \/ circuit_receive_relay_cell(e)
  \/ \E s \in Streams : \/ connection_edge_process_inbuf(e, s)
                        \/ connection_edge_flushed_some(e, s)

Next == \E e \in Ends : EdgeStep(e)

Spec == Init /\ [][Next]_vars

\* The event loop serves every ready socket, the scheduler drains the queue,
\* the hops deliver, and the applications keep reading what reaches them.
EventLoop(e) ==
  \/ connection_edge_package_raw_inbuf(e)
  \/ package_loop_returns(e)
  \/ resume_next_stream(e)
  \/ resume_stream_returns(e)
  \/ resume_round_ends(e)
  \/ stream_sendme_loop(e)

FairSpec ==
  /\ Spec
  /\ \A e \in Ends :
       /\ WF_vars(EventLoop(e))
       /\ WF_vars(channel_flush_from_first_active_circuit(e))
       /\ WF_vars(circuit_receive_relay_cell(e))
       /\ \A s \in Streams : /\ WF_vars(connection_edge_process_inbuf(e, s))
                              /\ WF_vars(connection_edge_flushed_some(e, s))

-----------------------------------------------------------------------------
(* Properties. *)

\* What edge e has sent and its peer has not yet received, in order.
Pipe(e) == wire[e] \o edge[e].queue

\* Cells among the first n of a pipe.
CellsUpTo(q, n, command, s) ==
  Cardinality({i \in 1..n : q[i].command = command /\ q[i].stream = s})
SendmesUpTo(q, n) == CellsUpTo(q, n, "SENDME", "circuit")

CellsIn(q, command, s) == CellsUpTo(q, Len(q), command, s)
SendmesIn(q) == SendmesUpTo(q, Len(q))
DataIn(q) == Cardinality({i \in DOMAIN q : q[i].command = "DATA"})

EdgeTypeOK(e, x) ==
  /\ x.package_window \in 0..CIRCWINDOW_START
  /\ x.deliver_window \in 0..CIRCWINDOW_START
  /\ x.inflight \in Nat /\ x.cwnd \in Cwnds
  /\ x.stream_package \in [Streams -> 0..STREAMWINDOW_START]
  /\ x.stream_deliver \in [Streams -> 0..STREAMWINDOW_START]
  /\ x.blocked \in BOOLEAN /\ x.closed \in BOOLEAN
  /\ x.inbuf \in [Streams -> Nat] /\ x.outbuf \in [Streams -> Nat]
  /\ x.reading \in [Streams -> BOOLEAN]

\* Every window stays between zero and its start, whatever the two edges do:
\* no handler of sendme.c leaves one negative or overfull, and the unsigned
\* cc->inflight is never taken below zero.
WindowsInRange == \A e \in Ends : EdgeTypeOK(e, edge[e])

\* Two edges that run this code never close the circuit on each other: no
\* SENDME is refused (sendme_is_valid), no window check of sendme.c or of
\* handle_relay_cell_command fails, no cell queue reaches its maximum.
HonestCircuitStaysOpen == Open

\* Windows that circuit_sent_cell_for_sendme can predict from: an increment
\* of more than one cell, and an initial package window that is a multiple of
\* it, which the consensus parameter circwindow need not be.
InStep ==
  /\ CIRCWINDOW_INCREMENT > 1 /\ cc_sendme_inc > 1
  /\ circwindow % CIRCWINDOW_INCREMENT = 0

\* Every edge accepts the SENDMEs its peer emits.
VersionsAgree ==
  \A e \in Ends :
    /\ accept_min_version[e] <= SENDME_MAX_SUPPORTED_VERSION
    /\ emit_min_version[Peer(e)] = 1 \/ accept_min_version[e] = 0

\* The cell queue has room for all that the windows let an edge queue: the
\* DATA cells of one window, the SENDMEs for the peer's window and for the
\* windows of the streams, and the other cells.
QueueSuffices ==
  \E d \in Cwnds \cup {circwindow} :
    /\ \A w \in Cwnds \cup {circwindow} : w <= d
    /\ \A e \in Ends, n \in {CIRCWINDOW_INCREMENT, cc_sendme_inc} :
         d + d \div n
           + Cardinality(Streams) * (STREAMWINDOW_START \div STREAMWINDOW_INCREMENT)
           + OtherCells[e] < max_circuit_cell_queue_size

\* "Return true iff the next cell we send will result in the other endpoint
\* sending a SENDME" (circuit_sent_cell_for_sendme): the digests an edge
\* remembers are as many as the SENDMEs on their way to it plus the SENDMEs
\* its peer will send for the DATA cells still on their way out.
PredictsSendme ==
  \A e \in Ends :
    LET unacked == CIRCWINDOW_START - edge[Peer(e)].deliver_window
    IN  Open => Len(edge[e].last_digests)
                  = SendmesIn(Pipe(Peer(e)))
                    + (unacked + DataIn(Pipe(e))) \div sendme_get_inc_count

\* The version 1 SENDMEs on their way to an edge carry, in order, the oldest
\* digests it remembers, although both directions of an edge share the one
\* buffer crypto->sendme_digest and other cells move the running digests.
SendmesMatchDigests ==
  \A e \in Ends :
    LET q == Pipe(Peer(e))
        d == edge[e].last_digests
    IN  Open => \A i \in DOMAIN q :
          (q[i].command = "SENDME" /\ q[i].stream = "circuit" /\ q[i].digest # << >>) =>
            /\ SendmesUpTo(q, i) \in DOMAIN d
            /\ q[i].digest = d[SendmesUpTo(q, i)]

\* No cell is lost or counted twice by the windows: the credit an edge holds,
\* the DATA on its way, what the peer has not acknowledged and the SENDMEs on
\* their way back always add up to the initial window, for the circuit
\* (sendme_note_circuit_data_packaged and its counterparts) and for every stream;
\* and no edge ever owes a whole increment when its handler returns.
CreditIsConserved ==
  Open => \A e \in Ends :
    LET x    == edge[e]
        y    == edge[Peer(e)]
        back == Pipe(Peer(e))
        used == DataIn(Pipe(e)) + CIRCWINDOW_START - y.deliver_window
                + SendmesIn(back) * sendme_get_inc_count
    IN  /\ IF ccontrol THEN x.inflight = used
                       ELSE x.package_window = circwindow - used
        /\ \A s \in Streams :
             x.stream_package[s] =
               y.stream_deliver[s] - (IF ccontrol THEN 0 ELSE CellsIn(Pipe(e), "DATA", s))
               - CellsIn(back, "SENDME", s) * STREAMWINDOW_INCREMENT
        /\ x.deliver_window > CIRCWINDOW_START - sendme_get_inc_count

\* A stream whose windows are open and whose queue is not blocked is being
\* read from: whatever order SENDMEs and water marks come in, no stop of
\* reading outlives its reason.
NoStreamSleeps ==
  \A e \in Ends, s \in Streams :
    LET x == edge[e]
    IN  (x.task = Idle /\ ~x.blocked /\ ~circuit_is_full(x)
           /\ x.stream_package[s] > 0) => x.reading[s]

\* Every byte that was read is packaged: once the applications have written
\* all they will, the queues, the wires and the outbufs have drained and the
\* event loops are idle, no byte is left behind on an inbuf ("Is the cell
\* queue low enough to unblock all the streams that are waiting to write to
\* this circuit?", relay.c).
Quiescent ==
  \A e \in Ends :
    /\ edge[e].task = Idle /\ edge[e].queue = << >> /\ wire[e] = << >>
    /\ \A s \in Streams : socket[e][s] = 0 /\ edge[e].outbuf[s] = 0

NoStrandedBytes ==
  Quiescent => \A e \in Ends, s \in Streams : edge[e].inbuf[s] = 0

\* Bytes that were read from an application and had to wait for a window are
\* packaged in the end, by connection_edge_package_raw_inbuf.
WaitingBytesAreSent ==
  \A e \in Ends, s \in Streams :
    edge[e].inbuf[s] > 0 ~> edge[e].inbuf[s] = 0
=============================================================================
