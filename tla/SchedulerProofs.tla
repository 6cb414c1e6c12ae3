-------------------------- MODULE SchedulerProofs --------------------------
(***************************************************************************)
(* Proofs about Scheduler: no wakeup is lost, the heap and the states of   *)
(* the channels agree, and the counters of the circuitmuxes are exact, for *)
(* any numbers of channels and circuits and any water marks.               *)
(*                                                                         *)
(* The handlers are operators from the world (the channels, the circuits,  *)
(* the heap and the event) to the world, so the inductive invariant is     *)
(* stated of a world and of the callback under way, and the lemmas say     *)
(* what the operators do to it.                                            *)
(***************************************************************************)
EXTENDS Scheduler, FunctionTheorems, FiniteSetTheorems, TLAPS

Counts == [Circuits -> {Detached} \cup Nat]

ChannelRecords ==
  [state : {"OPENING", "OPEN", "CLOSING", "CLOSED", "freed"},
   sched : {"IDLE", "WAITING_FOR_CELLS", "WAITING_TO_WRITE", "PENDING"},
   conn : {"ok", "held", "dead", "null"}, outbuf : Nat,
   padding_enabled : BOOLEAN, limit : {NoEntry} \cup Nat,
   count : Counts, n_cells : Nat,
   n_active_circuits : Nat, destroys : Nat, last_cell_was_destroy : BOOLEAN]

CircuitRecords ==
  [state : {"unused", "open", "marked", "freed"}, on : SUBSET Channels,
   queue : [Channels -> Nat]]

Worlds ==
  [chan : [Channels -> ChannelRecords], circ : [Circuits -> CircuitRecords],
   pending : SUBSET Channels, ev : BOOLEAN]

Loops ==
  [at : {"idle", "kist", "vanilla", "circuits", "connections"},
   chan : Channels \cup {None}, left : Nat, short : BOOLEAN,
   prev : Channels \cup {None}, outbufs : SUBSET Channels,
   readd : SUBSET Channels, todo : SUBSET Channels]

Running(l) == l.at \in {"kist", "vanilla"}

(* The state of a channel and that of its connection go together, and only *)
(* a channel that has been open and is not closed yet has circuits.        *)
Life(w, c) ==
  LET x == w.chan[c] IN
  /\ x.conn = "ok" <=> x.state \in {"OPENING", "OPEN"}
  /\ x.conn = "null" <=> x.state \in {"CLOSED", "freed"}
  /\ x.state \in {"OPENING", "CLOSED", "freed"} =>
       \A k \in Circuits : c \notin w.circ[k].on

(* The totals of a circuitmux.                                             *)
Totals(x) == /\ x.n_cells = Cardinality(CountedCells(x))
             /\ x.n_active_circuits = Cardinality(active_circuits(x))

(* The entry of circuit k in the circuitmux of channel c.                  *)
Entry(w, c, k) ==
  LET n == w.chan[c].count[k] IN
  IF c \in w.circ[k].on
  THEN /\ n # Detached
       /\ \/ n = w.circ[k].queue[c]
          \/ w.circ[k].state = "marked" /\ n > w.circ[k].queue[c]
  ELSE n = Detached /\ w.circ[k].queue[c] = 0

Mux(w, c) == Totals(w.chan[c]) /\ \A k \in Circuits : Entry(w, c, k)

(* The heap and what else the scheduler holds.                             *)
Heap(w, l, c) ==
  LET x == w.chan[c] IN
  /\ c \in w.pending => x.sched = "PENDING"
  /\ x.sched = "PENDING" =>
       \/ c \in w.pending \cup l.readd
       \/ Running(l) /\ c = l.chan
  /\ x.conn = "null" =>
       /\ c \notin w.pending \cup l.readd \cup l.outbufs
       /\ c # l.chan /\ c # l.prev /\ x.limit = NoEntry
  /\ l.at = "kist" =>
       /\ c \in w.pending \/ c = l.chan => x.limit # NoEntry
       /\ (c \in l.outbufs \/ c = l.prev) /\ x.conn = "ok" => x.limit # NoEntry
  /\ Running(l) /\ c = l.chan => c \notin w.pending
  /\ c \in l.todo => x.conn \in {"dead", "held"}

(* An open channel that waits to write has an outbuf to wait for, and one  *)
(* that is not known to have cells has none.                               *)
Wake(w, c) ==
  LET x == w.chan[c] IN
  x.state = "OPEN" =>
    /\ x.sched \in {"IDLE", "WAITING_TO_WRITE"} => x.outbuf > 0
    /\ x.sched \in {"IDLE", "WAITING_FOR_CELLS"} =>
         \A k \in Circuits : w.circ[k].queue[c] = 0

ChannelGood(w, l, c) == Life(w, c) /\ Mux(w, c) /\ Heap(w, l, c) /\ Wake(w, c)

(* The callback under way; the event is pending while the heap is not      *)
(* empty, unless a run is on.                                              *)
Shape(w, l) ==
  /\ l.at = "idle" => l = Idle
  /\ l.at = "connections" => l = [Idle EXCEPT !.at = "connections", !.todo = l.todo]
  /\ l.at = "circuits" => l.readd = {}
  /\ l.todo # {} => l.at = "connections"
  /\ l.left > 0 => l.chan # None
  /\ l.at = "kist" /\ l.left > 0 => l.left = 1 /\ w.chan[l.chan].limit > 0
  /\ Running(l) /\ l.short =>
       /\ l.chan # None /\ l.left = 0
       /\ w.chan[l.chan].state # "OPEN" \/ circuitmux_num_cells(w.chan[l.chan]) = 0
  /\ w.pending # {} => w.ev \/ Running(l)

Good(w, l) == /\ w \in Worlds /\ l \in Loops
              /\ \A c \in Channels : ChannelGood(w, l, c)
              /\ Shape(w, l)

Inv == Good(World, loop) /\ the_scheduler \in Schedulers
-----------------------------------------------------------------------------
(* Counting.  A circuitmux counts its cells circuit by circuit.            *)
Positive(n) == IF n > 0 THEN n ELSE 0

LEMMA CountedFinite ==
  ASSUME NEW x, x.count \in Counts
  PROVE  /\ IsFiniteSet(CountedCells(x)) /\ IsFiniteSet(active_circuits(x))
         /\ Cardinality(CountedCells(x)) \in Nat
         /\ Cardinality(active_circuits(x)) \in Nat
<1> DEFINE f == [k \in Circuits |-> {k} \X (1..x.count[k])]
           T == {f[k] : k \in Circuits}
<1>1. IsFiniteSet(Circuits)
  BY SchedulerAssumption DEF SchedulerAssumption
<1>2. f \in Surjection(Circuits, T)
  BY DEF Surjection
<1>3. IsFiniteSet(T)
  BY <1>1, <1>2, FS_Surjection
<1>4. \A k \in Circuits : IsFiniteSet(f[k])
  <2> SUFFICES ASSUME NEW k \in Circuits
               PROVE  IsFiniteSet({k} \X (1..x.count[k]))
    OBVIOUS
  <2>1. x.count[k] \in Int
    BY DEF Counts, Detached
  <2>2. IsFiniteSet({k})
    BY FS_Singleton
  <2>3. IsFiniteSet(1..x.count[k])
    BY <2>1, FS_Interval
  <2> QED
    BY <2>2, <2>3, FS_Product
<1>5. IsFiniteSet(UNION T)
  BY <1>3, <1>4, FS_UNION
<1>6. CountedCells(x) = UNION T
  BY DEF CountedCells
<1>7. IsFiniteSet(active_circuits(x))
  BY <1>1, FS_Subset DEF active_circuits
<1> QED
  BY <1>5, <1>6, <1>7, FS_CardinalityType

(* One entry changes from x to y.                                          *)
LEMMA CountOneEntry ==
  ASSUME NEW x, x.count \in Counts, NEW y, y.count \in Counts, NEW k \in Circuits,
         \A j \in Circuits : j # k => y.count[j] = x.count[j]
  PROVE  /\ Cardinality(CountedCells(y)) =
              Cardinality(CountedCells(x)) - Positive(x.count[k]) + Positive(y.count[k])
         /\ Cardinality(active_circuits(y)) =
              Cardinality(active_circuits(x))
                - (IF x.count[k] > 0 THEN 1 ELSE 0) + (IF y.count[k] > 0 THEN 1 ELSE 0)
<1> DEFINE Own(z) == {k} \X (1..z.count[k])
           Rest == UNION {{j} \X (1..x.count[j]) : j \in Circuits \ {k}}
<1>1. x.count[k] \in Int /\ y.count[k] \in Int
  BY DEF Counts, Detached
<1>2. /\ IsFiniteSet(Own(x)) /\ Cardinality(Own(x)) = Positive(x.count[k])
      /\ IsFiniteSet(Own(y)) /\ Cardinality(Own(y)) = Positive(y.count[k])
  <2> SUFFICES ASSUME NEW n \in Int
               PROVE  /\ IsFiniteSet({k} \X (1..n))
                      /\ Cardinality({k} \X (1..n)) = Positive(n)
    BY <1>1
  <2>1. IsFiniteSet({k}) /\ Cardinality({k}) = 1
    BY FS_Singleton
  <2>2. IsFiniteSet(1..n) /\ Cardinality(1..n) = IF 1 > n THEN 0 ELSE n - 1 + 1
    BY FS_Interval
  <2>3. Cardinality(1..n) = Positive(n) /\ Positive(n) \in Nat
    BY <2>2 DEF Positive
  <2>4. /\ IsFiniteSet({k} \X (1..n))
        /\ Cardinality({k} \X (1..n)) = Cardinality({k}) * Cardinality(1..n)
    BY <2>1, <2>2, FS_Product
  <2> QED
    BY <2>1, <2>3, <2>4
<1>3. CountedCells(x) = Rest \cup Own(x)
  BY DEF CountedCells
<1>4. CountedCells(y) = Rest \cup Own(y)
  BY DEF CountedCells
<1>5. Rest \cap Own(x) = {} /\ Rest \cap Own(y) = {}
  OBVIOUS
<1>6. IsFiniteSet(Rest)
  BY <1>3, CountedFinite, FS_Subset
<1> HIDE DEF Rest, Own
<1>7. /\ Cardinality(CountedCells(x)) = Cardinality(Rest) + Positive(x.count[k])
      /\ Cardinality(CountedCells(y)) = Cardinality(Rest) + Positive(y.count[k])
  <2>1. Cardinality({}) = 0 /\ Cardinality(Rest) \in Nat
    BY <1>6, FS_EmptySet, FS_CardinalityType
  <2>2. /\ Cardinality(Rest \cup Own(x)) =
             Cardinality(Rest) + Cardinality(Own(x)) - Cardinality(Rest \cap Own(x))
        /\ Cardinality(Rest \cup Own(y)) =
             Cardinality(Rest) + Cardinality(Own(y)) - Cardinality(Rest \cap Own(y))
    BY <1>2, <1>6, FS_Union
  <2>3. Positive(x.count[k]) \in Nat /\ Positive(y.count[k]) \in Nat
    BY <1>1 DEF Positive
  <2>4. /\ Cardinality(CountedCells(x)) =
             Cardinality(Rest) + Positive(x.count[k]) - 0
        /\ Cardinality(CountedCells(y)) =
             Cardinality(Rest) + Positive(y.count[k]) - 0
    BY <2>1, <2>2, <1>2, <1>3, <1>4, <1>5
  <2> QED
    BY <2>1, <2>3, <2>4
<1>8. Cardinality(CountedCells(y)) =
        Cardinality(CountedCells(x)) - Positive(x.count[k]) + Positive(y.count[k])
  <2>1. /\ Positive(x.count[k]) \in Nat /\ Positive(y.count[k]) \in Nat
        /\ Cardinality(Rest) \in Nat
    BY <1>1, <1>6, FS_CardinalityType DEF Positive
  <2> QED
    BY <2>1, <1>7
<1>9. Cardinality(active_circuits(y)) =
        Cardinality(active_circuits(x))
          - (IF x.count[k] > 0 THEN 1 ELSE 0) + (IF y.count[k] > 0 THEN 1 ELSE 0)
  <2> DEFINE ax == active_circuits(x)
             ay == active_circuits(y)
  <2>1. IsFiniteSet(ax) /\ Cardinality(ax) \in Nat
    BY CountedFinite
  <2>2. k \in ax <=> x.count[k] > 0
    BY DEF active_circuits
  <2>3. ay = IF y.count[k] > 0 THEN ax \cup {k} ELSE ax \ {k}
    BY DEF active_circuits
  <2> HIDE DEF ax, ay
  <2>4. CASE y.count[k] > 0
    <3>1. Cardinality(ay) = IF k \in ax THEN Cardinality(ax) ELSE Cardinality(ax) + 1
      BY <2>1, <2>3, <2>4, FS_AddElement
    <3> QED
      BY <3>1, <2>1, <2>2, <2>4 DEF ax, ay
  <2>5. CASE ~(y.count[k] > 0)
    <3>1. Cardinality(ay) = IF k \in ax THEN Cardinality(ax) - 1 ELSE Cardinality(ax)
      BY <2>1, <2>3, <2>5, FS_RemoveElement
    <3> QED
      BY <3>1, <2>1, <2>2, <2>5 DEF ax, ay
  <2> QED
    BY <2>4, <2>5
<1> QED
  BY <1>8, <1>9

(* Nothing counted means no cell on any circuit.                           *)
LEMMA NoneCounted ==
  ASSUME NEW x \in ChannelRecords, x.n_cells = Cardinality(CountedCells(x)),
         circuitmux_num_cells(x) = 0
  PROVE  \A k \in Circuits : x.count[k] <= 0
<1>1. x.n_cells = 0
  BY DEF circuitmux_num_cells, ChannelRecords
<1>2. CountedCells(x) = {}
  BY <1>1, CountedFinite, FS_EmptySet DEF ChannelRecords
<1> SUFFICES ASSUME NEW k \in Circuits, ~(x.count[k] <= 0)
             PROVE  FALSE
  OBVIOUS
<1>3. x.count[k] \in Int
  BY DEF ChannelRecords, Counts, Detached
<1>4. 1 \in 1..x.count[k]
  BY <1>3
<1>5. <<k, 1>> \in CountedCells(x)
  BY <1>4 DEF CountedCells
<1> QED
  BY <1>2, <1>5
-----------------------------------------------------------------------------
(* The operations of circuitmux.c keep its totals, and nothing but its     *)
(* entry and the totals changes.                                           *)
SameBut(y, x) ==
  /\ y.state = x.state /\ y.sched = x.sched /\ y.conn = x.conn
  /\ y.outbuf = x.outbuf /\ y.padding_enabled = x.padding_enabled
  /\ y.limit = x.limit /\ y.destroys = x.destroys
  /\ y.last_cell_was_destroy = x.last_cell_was_destroy

LEMMA TotalsDepend ==
  ASSUME NEW x, NEW y, Totals(x), y.count = x.count, y.n_cells = x.n_cells,
         y.n_active_circuits = x.n_active_circuits
  PROVE  Totals(y)
BY DEF Totals, CountedCells, active_circuits

LEMMA SetNumCells ==
  ASSUME NEW x \in ChannelRecords, Totals(x), NEW k \in Circuits, NEW n \in Nat,
         x.count[k] # Detached
  PROVE  LET y == circuitmux_set_num_cells(x, k, n) IN
         /\ y \in ChannelRecords /\ Totals(y) /\ SameBut(y, x)
         /\ y.count = [x.count EXCEPT ![k] = n]
<1> DEFINE y == circuitmux_set_num_cells(x, k, n)
<1>1. /\ x.count \in Counts /\ x.count[k] \in Nat
      /\ x.n_cells \in Nat /\ x.n_active_circuits \in Nat
  BY DEF ChannelRecords, Counts
<1>2. /\ y.count = [x.count EXCEPT ![k] = n]
      /\ y.n_cells = x.n_cells - x.count[k] + n
      /\ y.n_active_circuits = IF x.count[k] > 0 /\ n = 0 THEN x.n_active_circuits - 1
                               ELSE IF x.count[k] = 0 /\ n > 0
                               THEN x.n_active_circuits + 1
                               ELSE x.n_active_circuits
      /\ SameBut(y, x)
  BY DEF circuitmux_set_num_cells, ChannelRecords, SameBut
<1>3. /\ y.count \in Counts /\ y.count[k] = n
      /\ \A j \in Circuits : j # k => y.count[j] = x.count[j]
  BY <1>1, <1>2 DEF Counts
<1>4. y = [x EXCEPT !.count = y.count, !.n_cells = y.n_cells,
                    !.n_active_circuits = y.n_active_circuits]
  BY DEF circuitmux_set_num_cells, ChannelRecords
<1> HIDE DEF y
<1>5. /\ Cardinality(CountedCells(y)) =
           Cardinality(CountedCells(x)) - Positive(x.count[k]) + Positive(n)
      /\ Cardinality(active_circuits(y)) =
           Cardinality(active_circuits(x))
             - (IF x.count[k] > 0 THEN 1 ELSE 0) + (IF n > 0 THEN 1 ELSE 0)
  BY <1>1, <1>3, CountOneEntry
<1>6. Positive(x.count[k]) = x.count[k] /\ Positive(n) = n
  BY <1>1 DEF Positive
<1>7. y.n_cells = Cardinality(CountedCells(y))
  BY <1>2, <1>5, <1>6 DEF Totals
<1>8. y.n_active_circuits = Cardinality(active_circuits(y))
  BY <1>1, <1>2, <1>5 DEF Totals
<1>9. y.n_cells \in Nat /\ y.n_active_circuits \in Nat
  BY <1>3, <1>7, <1>8, CountedFinite
<1>10. y \in ChannelRecords
  BY <1>3, <1>4, <1>9 DEF ChannelRecords
<1> QED
  BY <1>2, <1>7, <1>8, <1>10 DEF Totals, y

LEMMA DetachCircuit ==
  ASSUME NEW x \in ChannelRecords, Totals(x), NEW k \in Circuits, x.count[k] # Detached
  PROVE  LET y == circuitmux_detach_circuit(x, k) IN
         /\ y \in ChannelRecords /\ Totals(y) /\ SameBut(y, x)
         /\ y.count = [x.count EXCEPT ![k] = Detached]
<1> DEFINE y == circuitmux_detach_circuit(x, k)
<1>1. /\ x.count \in Counts /\ x.count[k] \in Nat
      /\ x.n_cells \in Nat /\ x.n_active_circuits \in Nat
  BY DEF ChannelRecords, Counts
<1>2. /\ y.count = [x.count EXCEPT ![k] = Detached]
      /\ y.n_cells = x.n_cells - x.count[k]
      /\ y.n_active_circuits = IF x.count[k] > 0 THEN x.n_active_circuits - 1
                               ELSE x.n_active_circuits
      /\ SameBut(y, x)
  BY DEF circuitmux_detach_circuit, ChannelRecords, SameBut
<1>3. /\ y.count \in Counts /\ y.count[k] = Detached
      /\ \A j \in Circuits : j # k => y.count[j] = x.count[j]
  BY <1>1, <1>2 DEF Counts
<1>4. y = [x EXCEPT !.count = y.count, !.n_cells = y.n_cells,
                    !.n_active_circuits = y.n_active_circuits]
  BY DEF circuitmux_detach_circuit, ChannelRecords
<1> HIDE DEF y
<1>5. /\ Cardinality(CountedCells(y)) =
           Cardinality(CountedCells(x)) - Positive(x.count[k]) + Positive(Detached)
      /\ Cardinality(active_circuits(y)) =
           Cardinality(active_circuits(x))
             - (IF x.count[k] > 0 THEN 1 ELSE 0) + (IF Detached > 0 THEN 1 ELSE 0)
  BY <1>1, <1>3, CountOneEntry
<1>6. Positive(x.count[k]) = x.count[k] /\ Positive(Detached) = 0 /\ ~(Detached > 0)
  BY <1>1 DEF Positive, Detached
<1>7. y.n_cells = Cardinality(CountedCells(y))
  BY <1>1, <1>2, <1>5, <1>6 DEF Totals
<1>8. y.n_active_circuits = Cardinality(active_circuits(y))
  BY <1>1, <1>2, <1>5, <1>6 DEF Totals
<1>9. y.n_cells \in Nat /\ y.n_active_circuits \in Nat
  BY <1>3, <1>7, <1>8, CountedFinite
<1>10. y \in ChannelRecords
  BY <1>3, <1>4, <1>9 DEF ChannelRecords
<1> QED
  BY <1>2, <1>7, <1>8, <1>10 DEF Totals, y

LEMMA AttachCircuit ==
  ASSUME NEW x \in ChannelRecords, Totals(x), NEW k \in Circuits, x.count[k] = Detached
  PROVE  LET y == circuitmux_attach_circuit(x, k) IN
         /\ y \in ChannelRecords /\ Totals(y) /\ SameBut(y, x)
         /\ y.count = [x.count EXCEPT ![k] = 0]
<1> DEFINE y == circuitmux_attach_circuit(x, k)
<1>1. /\ x.count \in Counts /\ x.n_cells \in Nat /\ x.n_active_circuits \in Nat
  BY DEF ChannelRecords
<1>2. /\ y.count = [x.count EXCEPT ![k] = 0] /\ y.n_cells = x.n_cells
      /\ y.n_active_circuits = x.n_active_circuits
      /\ SameBut(y, x)
  BY DEF circuitmux_attach_circuit, ChannelRecords, SameBut
<1>3. /\ y.count \in Counts /\ y.count[k] = 0
      /\ \A j \in Circuits : j # k => y.count[j] = x.count[j]
  BY <1>1, <1>2 DEF Counts
<1>4. y = [x EXCEPT !.count = y.count]
  BY DEF circuitmux_attach_circuit, ChannelRecords
<1> HIDE DEF y
<1>5. /\ Cardinality(CountedCells(y)) =
           Cardinality(CountedCells(x)) - Positive(Detached) + Positive(0)
      /\ Cardinality(active_circuits(y)) =
           Cardinality(active_circuits(x))
             - (IF Detached > 0 THEN 1 ELSE 0) + (IF 0 > 0 THEN 1 ELSE 0)
  BY <1>1, <1>3, CountOneEntry
<1>6. Positive(0) = 0 /\ Positive(Detached) = 0 /\ ~(Detached > 0)
  BY DEF Positive, Detached
<1>7. y.n_cells = Cardinality(CountedCells(y))
  BY <1>1, <1>2, <1>5, <1>6 DEF Totals
<1>8. y.n_active_circuits = Cardinality(active_circuits(y))
  BY <1>1, <1>2, <1>5, <1>6 DEF Totals
<1>9. y \in ChannelRecords
  BY <1>3, <1>4 DEF ChannelRecords
<1> QED
  BY <1>2, <1>7, <1>8, <1>9 DEF Totals, y

LEMMA DetachAllCircuits ==
  ASSUME NEW x \in ChannelRecords
  PROVE  LET y == circuitmux_detach_all_circuits(x) IN
         /\ y \in ChannelRecords /\ Totals(y) /\ SameBut(y, x)
         /\ y.count = [k \in Circuits |-> Detached]
<1> DEFINE y == circuitmux_detach_all_circuits(x)
<1>1. /\ y \in ChannelRecords /\ SameBut(y, x)
      /\ y.count = [k \in Circuits |-> Detached]
      /\ y.n_cells = 0 /\ y.n_active_circuits = 0
  BY DEF circuitmux_detach_all_circuits, ChannelRecords, Counts, SameBut
<1> HIDE DEF y
<1>2. CountedCells(y) = {} /\ active_circuits(y) = {}
  BY <1>1 DEF CountedCells, active_circuits, Detached
<1> QED
  BY <1>1, <1>2, FS_EmptySet DEF Totals, y
-----------------------------------------------------------------------------
(* A step that leaves the circuits alone, and all channels but one.        *)
LEMMA OtherChannel ==
  ASSUME NEW w, NEW v, NEW l, NEW c \in Channels, ChannelGood(w, l, c),
         v.chan[c] = w.chan[c], v.circ = w.circ, c \in v.pending <=> c \in w.pending
  PROVE  ChannelGood(v, l, c)
BY DEF ChannelGood, Life, Mux, Entry, Heap, Wake

LEMMA OneChannel ==
  ASSUME NEW w, NEW l, Good(w, l), NEW v \in Worlds, NEW c \in Channels,
         v.circ = w.circ,
         \A d \in Channels : d # c => /\ v.chan[d] = w.chan[d]
                                      /\ d \in v.pending <=> d \in w.pending,
         ChannelGood(v, l, c), Shape(v, l)
  PROVE  Good(v, l)
<1>1. ASSUME NEW d \in Channels, d # c
      PROVE  ChannelGood(v, l, d)
  BY <1>1, OtherChannel DEF Good
<1> QED
  BY <1>1 DEF Good

LEMMA MuxDepends ==
  ASSUME NEW w, NEW v, NEW c \in Channels, Mux(w, c), v.circ = w.circ,
         v.chan[c].count = w.chan[c].count,
         v.chan[c].n_cells = w.chan[c].n_cells,
         v.chan[c].n_active_circuits = w.chan[c].n_active_circuits
  PROVE  Mux(v, c)
BY TotalsDepend DEF Mux, Entry

(* A new record for channel c, and a new heap.                             *)
LEMMA SetRecord ==
  ASSUME NEW w \in Worlds, NEW c \in Channels, NEW y \in ChannelRecords
  PROVE  LET v == [w EXCEPT !.chan[c] = y] IN
         /\ v \in Worlds /\ v.circ = w.circ /\ v.pending = w.pending /\ v.ev = w.ev
         /\ v.chan[c] = y /\ \A d \in Channels : d # c => v.chan[d] = w.chan[d]
<1>1. /\ w.chan \in [Channels -> ChannelRecords] /\ w.pending \in SUBSET Channels
      /\ w.ev \in BOOLEAN /\ w.circ \in [Circuits -> CircuitRecords]
  BY DEF Worlds
<1>2. [w.chan EXCEPT ![c] = y] \in [Channels -> ChannelRecords]
  BY <1>1
<1>3. [w EXCEPT !.chan[c] = y] \in Worlds
  BY <1>1, <1>2 DEF Worlds
<1> QED
  BY <1>1, <1>3 DEF Worlds

LEMMA SetPending ==
  ASSUME NEW w \in Worlds, NEW P \in SUBSET Channels
  PROVE  LET v == [w EXCEPT !.pending = P] IN
         /\ v \in Worlds /\ v.circ = w.circ /\ v.pending = P /\ v.ev = w.ev
         /\ v.chan = w.chan
BY DEF Worlds

LEMMA ReleaseIs ==
  ASSUME NEW w \in Worlds, NEW c \in Channels
  PROVE  LET v == scheduler_release_channel(w, c) IN
         /\ v \in Worlds /\ v.circ = w.circ /\ v.ev = w.ev
         /\ v.pending = w.pending \ {c}
         /\ v.chan[c] = [w.chan[c] EXCEPT !.sched = "IDLE", !.limit = NoEntry]
         /\ \A d \in Channels : d # c => v.chan[d] = w.chan[d]
<1> DEFINE y == [w.chan[c] EXCEPT !.sched = "IDLE", !.limit = NoEntry]
           u == [w EXCEPT !.pending = w.pending \ {c}]
<1>1. u \in Worlds /\ u.circ = w.circ /\ u.pending = w.pending \ {c}
      /\ u.ev = w.ev /\ u.chan = w.chan
  <2>1. w.pending \ {c} \in SUBSET Channels
    BY DEF Worlds
  <2> QED
    BY <2>1, SetPending
<1>2. y \in ChannelRecords
  <2>1. w.chan[c] \in ChannelRecords
    BY DEF Worlds
  <2> QED
    BY <2>1 DEF ChannelRecords
<1>3. scheduler_release_channel(w, c) = [u EXCEPT !.chan[c] = y]
  BY DEF scheduler_release_channel, Worlds
<1> HIDE DEF u, y
<1>4. LET v == [u EXCEPT !.chan[c] = y] IN
         /\ v \in Worlds /\ v.circ = u.circ /\ v.pending = u.pending /\ v.ev = u.ev
         /\ v.chan[c] = y /\ \A d \in Channels : d # c => v.chan[d] = u.chan[d]
  BY <1>1, <1>2, SetRecord
<1> QED
  BY <1>1, <1>3, <1>4 DEF y
-----------------------------------------------------------------------------
(* Only channel c changes from w to v.                                     *)
Touches(w, v, c) ==
  /\ v \in Worlds /\ v.circ = w.circ
  /\ \A d \in Channels : d # c => /\ v.chan[d] = w.chan[d]
                                  /\ d \in v.pending <=> d \in w.pending

SameMux(y, x) == /\ y.count = x.count /\ y.n_cells = x.n_cells
                 /\ y.n_active_circuits = x.n_active_circuits

(* A channel that the callback is not at work on closes.                   *)
LEMMA ClosedChannel ==
  ASSUME NEW w, NEW l, Good(w, l), NEW v, NEW c \in Channels, Touches(w, v, c),
         v.ev = w.ev, v.pending = w.pending \ {c}, l.chan # c,
         v.chan[c].state = "CLOSING", v.chan[c].conn \in {"dead", "held"},
         v.chan[c].sched = "IDLE", v.chan[c].limit = NoEntry,
         SameMux(v.chan[c], w.chan[c])
  PROVE  Good(v, l)
<1>1. Life(v, c) /\ Wake(v, c)
  BY DEF Life, Wake
<1>2. Mux(v, c)
  BY MuxDepends DEF Good, ChannelGood, Touches, SameMux
<1>3. Heap(v, l, c)
  BY DEF Heap, Running
<1>4. Shape(v, l)
  BY DEF Shape, Good, Touches, Running, Loops
<1> QED
  BY <1>1, <1>2, <1>3, <1>4, OneChannel DEF ChannelGood, Touches

LEMMA CloseKeeps ==
  ASSUME NEW w, NEW l, Good(w, l), NEW c \in Channels, l.chan # c
  PROVE  Good(channel_close_for_error(w, c), l) /\ Good(channel_mark_for_close(w, c), l)
<1>1. w \in Worlds /\ w.chan[c] \in ChannelRecords
  BY DEF Good, Worlds
<1>2. ASSUME NEW y \in ChannelRecords, y.conn \in {"dead", "held"},
             SameMux(y, w.chan[c])
      PROVE  Good(channel_change_state([w EXCEPT !.chan[c] = y], c, "CLOSING"), l)
  <2> DEFINE u == [w EXCEPT !.chan[c] = y]
             z == [y EXCEPT !.state = "CLOSING"]
             t == [u EXCEPT !.chan[c] = z]
             v == scheduler_release_channel(t, c)
  <2>1. /\ u \in Worlds /\ u.circ = w.circ /\ u.pending = w.pending /\ u.ev = w.ev
        /\ u.chan[c] = y /\ \A d \in Channels : d # c => u.chan[d] = w.chan[d]
    BY <1>1, <1>2, SetRecord
  <2>2. z \in ChannelRecords
    BY <1>2 DEF ChannelRecords
  <2> HIDE DEF u
  <2>3. channel_change_state(u, c, "CLOSING") = v
    BY <2>1 DEF channel_change_state, Worlds
  <2>4. /\ z.state = "CLOSING" /\ z.conn = y.conn /\ SameMux(z, y)
    BY <1>2 DEF ChannelRecords, SameMux
  <2> HIDE DEF z
  <2>5. /\ t \in Worlds /\ t.circ = u.circ /\ t.pending = u.pending /\ t.ev = u.ev
        /\ t.chan[c] = z /\ \A d \in Channels : d # c => t.chan[d] = u.chan[d]
    BY <2>1, <2>2, SetRecord
  <2> HIDE DEF t
  <2>6. /\ v \in Worlds /\ v.circ = t.circ /\ v.ev = t.ev
        /\ v.pending = t.pending \ {c}
        /\ v.chan[c] = [t.chan[c] EXCEPT !.sched = "IDLE", !.limit = NoEntry]
        /\ \A d \in Channels : d # c => v.chan[d] = t.chan[d]
    BY <2>5, ReleaseIs
  <2> HIDE DEF v
  <2>7. /\ v.chan[c].state = "CLOSING" /\ v.chan[c].conn \in {"dead", "held"}
        /\ v.chan[c].sched = "IDLE" /\ v.chan[c].limit = NoEntry
        /\ SameMux(v.chan[c], w.chan[c])
    BY <2>6, <2>5, <2>4, <2>2, <1>2 DEF ChannelRecords, SameMux
  <2>8. Touches(w, v, c) /\ v.ev = w.ev /\ v.pending = w.pending \ {c}
    BY <2>6, <2>5, <2>1 DEF Touches
  <2>9. Good(v, l)
    BY <2>7, <2>8, ClosedChannel
  <2> QED
    BY <2>3, <2>9 DEF u
<1>3. Good(channel_close_for_error(w, c), l)
  <2> DEFINE y == [w.chan[c] EXCEPT !.conn = "dead", !.outbuf = 0]
  <2>1. y \in ChannelRecords /\ y.conn \in {"dead", "held"} /\ SameMux(y, w.chan[c])
    BY <1>1 DEF ChannelRecords, SameMux
  <2>2. channel_close_for_error(w, c)
          = channel_change_state([w EXCEPT !.chan[c] = y], c, "CLOSING")
    BY <1>1 DEF channel_close_for_error, Worlds
  <2> QED
    BY <1>2, <2>1, <2>2
<1>4. Good(channel_mark_for_close(w, c), l)
  <2> DEFINE y == [w.chan[c] EXCEPT !.conn = "held"]
  <2>1. y \in ChannelRecords /\ y.conn \in {"dead", "held"} /\ SameMux(y, w.chan[c])
    BY <1>1 DEF ChannelRecords, SameMux
  <2>2. channel_mark_for_close(w, c)
          = channel_change_state([w EXCEPT !.chan[c] = y], c, "CLOSING")
    BY <1>1 DEF channel_mark_for_close, Worlds
  <2> QED
    BY <1>2, <2>1, <2>2
<1> QED
  BY <1>3, <1>4
-----------------------------------------------------------------------------
(* The states of the scheduler.                                            *)
LEMMA SetSchedIs ==
  ASSUME NEW w \in Worlds, NEW c \in Channels,
         NEW s \in {"IDLE", "WAITING_FOR_CELLS", "WAITING_TO_WRITE", "PENDING"}
  PROVE  LET v == SetSched(w, c, s) IN
         /\ Touches(w, v, c) /\ v.ev = w.ev /\ v.pending = w.pending
         /\ v.chan[c] = [w.chan[c] EXCEPT !.sched = s]
<1> DEFINE y == [w.chan[c] EXCEPT !.sched = s]
<1>1. w.chan[c] \in ChannelRecords
  BY DEF Worlds
<1>2. y \in ChannelRecords
  BY <1>1 DEF ChannelRecords
<1>3. SetSched(w, c, s) = [w EXCEPT !.chan[c] = y]
  BY DEF SetSched, Worlds
<1> HIDE DEF y
<1> QED
  BY <1>2, <1>3, SetRecord DEF Touches, y

LEMMA AddPendingIs ==
  ASSUME NEW w \in Worlds, NEW c \in Channels
  PROVE  /\ LET v == AddPending(w, c) IN
            /\ Touches(w, v, c) /\ v.ev = w.ev /\ v.pending = w.pending \cup {c}
            /\ v.chan[c] = [w.chan[c] EXCEPT !.sched = "PENDING"]
         /\ LET v == schedule(AddPending(w, c)) IN
            /\ Touches(w, v, c) /\ v.ev = TRUE /\ v.pending = w.pending \cup {c}
            /\ v.chan[c] = [w.chan[c] EXCEPT !.sched = "PENDING"]
<1> DEFINE u == SetSched(w, c, "PENDING")
           t == AddPending(w, c)
<1>1. /\ Touches(w, u, c) /\ u.ev = w.ev /\ u.pending = w.pending
      /\ u.chan[c] = [w.chan[c] EXCEPT !.sched = "PENDING"]
  BY SetSchedIs
<1> HIDE DEF u
<1>2. t = [u EXCEPT !.pending = u.pending \cup {c}]
  BY <1>1 DEF AddPending, u, Touches, Worlds
<1>3. u.pending \cup {c} \in SUBSET Channels /\ u \in Worlds
  BY <1>1 DEF Touches, Worlds
<1>4. /\ t \in Worlds /\ t.circ = u.circ /\ t.pending = u.pending \cup {c}
      /\ t.ev = u.ev /\ t.chan = u.chan
  BY <1>2, <1>3, SetPending
<1>5. /\ Touches(w, t, c) /\ t.ev = w.ev /\ t.pending = w.pending \cup {c}
      /\ t.chan[c] = [w.chan[c] EXCEPT !.sched = "PENDING"]
  BY <1>1, <1>4 DEF Touches
<1> HIDE DEF t
<1>6. schedule(t) = [t EXCEPT !.ev = TRUE]
  BY <1>5 DEF schedule
<1>7. /\ schedule(t) \in Worlds /\ schedule(t).circ = t.circ
      /\ schedule(t).pending = t.pending /\ schedule(t).ev = TRUE
      /\ schedule(t).chan = t.chan
  BY <1>4, <1>6 DEF Worlds
<1>8. LET v == schedule(t) IN
            /\ Touches(w, v, c) /\ v.ev = TRUE /\ v.pending = w.pending \cup {c}
            /\ v.chan[c] = [w.chan[c] EXCEPT !.sched = "PENDING"]
  BY <1>5, <1>7 DEF Touches
<1> QED
  BY <1>5, <1>8 DEF t

(* The loop of m is that of l but for what it says of channel c.           *)
LoopTouches(l, m, c) ==
  /\ m \in Loops /\ m.at = l.at
  /\ \A d \in Channels : d # c =>
       /\ d \in m.readd <=> d \in l.readd
       /\ d \in m.outbufs => d \in l.outbufs
       /\ d \in m.todo => d \in l.todo
       /\ d = m.chan => d = l.chan
       /\ Running(l) /\ d = l.chan => d = m.chan
       /\ d = m.prev => d = l.prev

LEMMA LoopSame == \A l \in Loops : \A c \in Channels : LoopTouches(l, l, c)
BY DEF LoopTouches

(* A step that touches channel c, and neither its circuitmux nor circuits. *)
LEMMA ChannelStep ==
  ASSUME NEW w, NEW l, Good(w, l), NEW c \in Channels, NEW v, Touches(w, v, c),
         NEW m, LoopTouches(l, m, c), SameMux(v.chan[c], w.chan[c]),
         Life(v, c), Heap(v, m, c), Wake(v, c), Shape(v, m)
  PROVE  Good(v, m)
<1>1. Mux(v, c)
  BY MuxDepends DEF Good, ChannelGood, Touches, SameMux
<1>2. ASSUME NEW d \in Channels, d # c
      PROVE  ChannelGood(v, m, d)
  <2>1. ChannelGood(w, l, d) /\ v.chan[d] = w.chan[d] /\ v.circ = w.circ
        /\ (d \in v.pending <=> d \in w.pending)
    BY <1>2 DEF Good, Touches
  <2>2. ChannelGood(v, l, d)
    BY <2>1, OtherChannel
  <2>3. Heap(v, m, d)
    BY <1>2, <2>2 DEF ChannelGood, Heap, LoopTouches, Running
  <2> QED
    BY <2>2, <2>3 DEF ChannelGood
<1> QED
  BY <1>1, <1>2 DEF Good, ChannelGood, Touches, LoopTouches

(* A circuit that is not attached has no cells, so a channel that opens    *)
(* has none.                                                               *)
LEMMA NoCells ==
  ASSUME NEW w, NEW l, Good(w, l), NEW c \in Channels,
         \/ w.chan[c].state = "OPENING"
         \/ w.chan[c].state = "OPEN" /\ w.chan[c].sched \in {"IDLE", "WAITING_FOR_CELLS"}
  PROVE  \A k \in Circuits : w.circ[k].queue[c] = 0
BY DEF Good, ChannelGood, Life, Mux, Entry, Wake

(* The outbuf of channel c has changed (and maybe it has opened), and the  *)
(* scheduler is told that it can be written to.                            *)
LEMMA WantsWrites ==
  ASSUME NEW w, NEW l, Good(w, l), NEW c \in Channels, l.chan # c,
         NEW x \in ChannelRecords, SameMux(x, w.chan[c]),
         w.chan[c].conn = "ok", x.conn = "ok", x.state \in {w.chan[c].state, "OPEN"},
         x.sched = w.chan[c].sched, x.limit = w.chan[c].limit,
         l.at = "kist" /\ x.sched = "WAITING_TO_WRITE" => x.limit # NoEntry
  PROVE  Good(scheduler_channel_wants_writes([w EXCEPT !.chan[c] = x], c), l)
<1> DEFINE u == [w EXCEPT !.chan[c] = x]
           v == scheduler_channel_wants_writes(u, c)
<1>1. /\ u \in Worlds /\ u.circ = w.circ /\ u.pending = w.pending /\ u.ev = w.ev
      /\ u.chan[c] = x /\ \A d \in Channels : d # c => u.chan[d] = w.chan[d]
  BY SetRecord DEF Good
<1> HIDE DEF u
<1>2. /\ x.sched \in {"IDLE", "WAITING_FOR_CELLS", "WAITING_TO_WRITE", "PENDING"}
      /\ x.state \in {"OPENING", "OPEN"}
      /\ w.chan[c].state \in {"OPENING", "OPEN"}
  BY DEF Good, ChannelGood, Life, ChannelRecords
<1>3. /\ Touches(u, v, c)
      /\ \/ /\ x.sched = "WAITING_TO_WRITE"
            /\ v.chan[c] = [x EXCEPT !.sched = "PENDING"]
            /\ v.pending = w.pending \cup {c} /\ v.ev = TRUE
         \/ /\ x.sched = "IDLE"
            /\ v.chan[c] = [x EXCEPT !.sched = "WAITING_FOR_CELLS"]
            /\ v.pending = w.pending /\ v.ev = w.ev
         \/ /\ x.sched \in {"WAITING_FOR_CELLS", "PENDING"}
            /\ v.chan[c] = x /\ v.pending = w.pending /\ v.ev = w.ev
  <2>1. CASE x.sched = "WAITING_TO_WRITE"
    <3>1. v = schedule(AddPending(u, c))
      BY <1>1, <2>1 DEF scheduler_channel_wants_writes
    <3> HIDE DEF v
    <3>2. /\ Touches(u, v, c) /\ v.ev = TRUE /\ v.pending = u.pending \cup {c}
          /\ v.chan[c] = [u.chan[c] EXCEPT !.sched = "PENDING"]
      BY <3>1, <1>1, AddPendingIs
    <3> QED
      BY <3>2, <1>1, <2>1
  <2>2. CASE x.sched = "IDLE"
    <3>1. v = SetSched(u, c, "WAITING_FOR_CELLS")
      BY <1>1, <2>2 DEF scheduler_channel_wants_writes
    <3> HIDE DEF v
    <3>2. /\ Touches(u, v, c) /\ v.ev = u.ev /\ v.pending = u.pending
          /\ v.chan[c] = [u.chan[c] EXCEPT !.sched = "WAITING_FOR_CELLS"]
      BY <3>1, <1>1, SetSchedIs
    <3> QED
      BY <3>2, <1>1, <2>2
  <2>3. CASE x.sched \notin {"WAITING_TO_WRITE", "IDLE"}
    <3>1. v = u
      BY <1>1, <2>3 DEF scheduler_channel_wants_writes
    <3> HIDE DEF v
    <3> QED
      BY <3>1, <1>1, <1>2, <2>3 DEF Touches
  <2> QED
    BY <2>1, <2>2, <2>3
<1> HIDE DEF v
<1>4. Touches(w, v, c)
  BY <1>1, <1>3 DEF Touches
<1> DEFINE y == v.chan[c]
<1>5. /\ SameMux(y, w.chan[c]) /\ y.state = x.state /\ y.conn = "ok"
      /\ y.limit = x.limit
      /\ y.sched = IF x.sched = "WAITING_TO_WRITE" THEN "PENDING"
                   ELSE IF x.sched = "IDLE" THEN "WAITING_FOR_CELLS" ELSE x.sched
  BY <1>3 DEF ChannelRecords, SameMux
<1> HIDE DEF y
<1>6. Life(v, c)
  BY <1>2, <1>4, <1>5 DEF Life, Good, ChannelGood, y, Touches
<1>7. Wake(v, c)
  <2>1. y.sched = "WAITING_FOR_CELLS" => \A k \in Circuits : w.circ[k].queue[c] = 0
    BY <1>2, <1>5, NoCells
  <2>2. y.sched \in {"WAITING_FOR_CELLS", "PENDING"}
    BY <1>2, <1>5
  <2> QED
    BY <2>1, <2>2, <1>4 DEF Wake, y, Touches
<1>8. Heap(v, l, c)
  BY <1>1, <1>2, <1>3, <1>5 DEF Heap, Good, ChannelGood, y, Running
<1>9. Shape(v, l)
  BY <1>1, <1>3, <1>4 DEF Shape, Good, Touches, Running, Loops
<1>10. Good(v, l)
  BY <1>4, <1>5, <1>6, <1>7, <1>8, <1>9, ChannelStep, LoopSame DEF Good, y
<1> QED
  BY <1>10 DEF u, v

(* The outbuf of channel c has changed, the scheduler is not told.         *)
LEMMA OutbufChanges ==
  ASSUME NEW w, NEW l, Good(w, l), NEW c \in Channels,
         NEW y \in ChannelRecords, SameMux(y, w.chan[c]),
         y.conn = w.chan[c].conn, y.state = w.chan[c].state,
         y.sched = w.chan[c].sched, y.limit = w.chan[c].limit,
         y.destroys = w.chan[c].destroys,
         y.outbuf > 0 \/ y.outbuf = w.chan[c].outbuf
  PROVE  Good([w EXCEPT !.chan[c] = y], l)
<1> DEFINE v == [w EXCEPT !.chan[c] = y]
<1>1. /\ v \in Worlds /\ v.circ = w.circ /\ v.pending = w.pending /\ v.ev = w.ev
      /\ v.chan[c] = y /\ \A d \in Channels : d # c => v.chan[d] = w.chan[d]
  BY SetRecord DEF Good
<1> HIDE DEF v
<1>2. Life(w, c) /\ Heap(w, l, c) /\ Wake(w, c)
  BY DEF Good, ChannelGood
<1>3. Life(v, c)
  BY <1>1, <1>2 DEF Life
<1>4. Heap(v, l, c)
  BY <1>1, <1>2 DEF Heap
<1>5. Wake(v, c)
  BY <1>1, <1>2 DEF Wake
<1>6. Shape(v, l)
  BY <1>1 DEF Shape, Good, Loops, SameMux, circuitmux_num_cells
<1>7. Touches(w, v, c)
  BY <1>1 DEF Touches
<1>8. Good(v, l)
  BY <1>1, <1>3, <1>4, <1>5, <1>6, <1>7, ChannelStep, LoopSame DEF Good
<1> QED
  BY <1>8 DEF v

(* A write to the kernel.                                                  *)
LEMMA HandleWrite ==
  ASSUME NEW w, NEW l, Good(w, l), NEW c \in Channels, l.chan # c,
         NEW o \in WriteOutcomes(w.chan[c].outbuf) \cup {[result |-> "done", sent |-> 0]},
         l.at = "kist" /\ w.chan[c].conn = "ok" => w.chan[c].limit # NoEntry
  PROVE  Good(connection_handle_write(w, c, o), l)
<1> DEFINE n == w.chan[c].outbuf
           x == [w.chan[c] EXCEPT !.outbuf = @ - o.sent]
           v == [w EXCEPT !.chan[c] = x]
<1>1. w \in Worlds /\ w.chan[c] \in ChannelRecords /\ n \in Nat
  BY DEF Good, Worlds, ChannelRecords
<1>2. /\ o.sent \in 0..n
      /\ o.result = "error" \/ o.result = "done" \/ (o.result = "wantread" /\ o.sent < n)
  BY <1>1 DEF WriteOutcomes
<1>3. [w EXCEPT !.chan[c].outbuf = @ - o.sent] = v
  BY <1>1 DEF Worlds
<1>4. CASE w.chan[c].conn # "ok"
  BY <1>4 DEF connection_handle_write
<1>5. CASE w.chan[c].conn = "ok" /\ o.result = "error"
  <2>1. connection_handle_write(w, c, o) = channel_close_for_error(w, c)
    BY <1>5 DEF connection_handle_write
  <2> QED
    BY <2>1, CloseKeeps
<1>6. CASE w.chan[c].conn = "ok" /\ o.result # "error"
  <2>1. /\ x \in ChannelRecords /\ SameMux(x, w.chan[c])
        /\ x.conn = "ok" /\ x.conn = w.chan[c].conn
        /\ x.state = w.chan[c].state /\ x.sched = w.chan[c].sched
        /\ x.limit = w.chan[c].limit /\ x.destroys = w.chan[c].destroys
        /\ x.outbuf = n - o.sent
    BY <1>1, <1>2, <1>6 DEF ChannelRecords, SameMux
  <2> HIDE DEF x
  <2>2. /\ v \in Worlds /\ v.circ = w.circ /\ v.pending = w.pending /\ v.ev = w.ev
        /\ v.chan[c] = x /\ \A d \in Channels : d # c => v.chan[d] = w.chan[d]
    BY <1>1, <2>1, SetRecord
  <2>3. CASE o.result = "done" /\ o.sent > 0 /\ x.outbuf < or_conn_lowwater
    <3>1. connection_handle_write(w, c, o) = scheduler_channel_wants_writes(v, c)
      BY <1>3, <1>6, <2>2, <2>3 DEF connection_handle_write, connection_or_flushed_some
    <3>2. Good(scheduler_channel_wants_writes([w EXCEPT !.chan[c] = x], c), l)
      BY <1>6, <2>1, WantsWrites
    <3> QED
      BY <3>1, <3>2
  <2>4. CASE ~(o.result = "done" /\ o.sent > 0 /\ x.outbuf < or_conn_lowwater)
    <3>1. connection_handle_write(w, c, o) = v
      BY <1>3, <1>6, <2>2, <2>4 DEF connection_handle_write, connection_or_flushed_some
    <3>2. x.outbuf > 0 \/ x.outbuf = n
      <4>1. or_conn_lowwater > 0 /\ or_conn_lowwater \in Nat
        BY SchedulerAssumption DEF SchedulerAssumption
      <4> QED
        BY <1>1, <1>2, <1>6, <2>1, <2>4, <4>1
    <3>9. Good([w EXCEPT !.chan[c] = x], l)
      BY <2>1, <3>2, OutbufChanges
    <3> QED
      BY <3>1, <3>9
  <2> QED
    BY <2>3, <2>4
<1> QED
  BY <1>4, <1>5, <1>6
-----------------------------------------------------------------------------
(* Circuits change.  A channel d keeps its record and its circuits; the    *)
(* cells of some of them may go, if they are marked for close.             *)
Settled(w, v, d, k) ==
  /\ d \in v.circ[k].on <=> d \in w.circ[k].on
  /\ d \in w.circ[k].on /\ w.circ[k].state = "marked" => v.circ[k].state = "marked"
  /\ \/ v.circ[k].queue[d] = w.circ[k].queue[d]
     \/ v.circ[k].state = "marked" /\ v.circ[k].queue[d] = 0

Elsewhere(w, v, d) ==
  /\ v.chan[d] = w.chan[d]
  /\ d \in v.pending <=> d \in w.pending
  /\ \A k \in Circuits : Settled(w, v, d, k)

LEMMA SettledEntry ==
  ASSUME NEW w \in Worlds, NEW v, NEW d \in Channels, NEW k \in Circuits,
         Entry(w, d, k), Settled(w, v, d, k), v.chan[d].count[k] = w.chan[d].count[k]
  PROVE  Entry(v, d, k)
<1>1. w.chan[d].count[k] \in {Detached} \cup Nat
  BY DEF Worlds, ChannelRecords, Counts
<1> QED
  BY <1>1 DEF Entry, Settled

LEMMA ElsewhereGood ==
  ASSUME NEW w \in Worlds, NEW v, NEW l, NEW d \in Channels, ChannelGood(w, l, d),
         Elsewhere(w, v, d)
  PROVE  ChannelGood(v, l, d)
<1>1. Life(w, d) /\ Mux(w, d) /\ Heap(w, l, d) /\ Wake(w, d)
  BY DEF ChannelGood
<1>2. Life(v, d)
  BY <1>1 DEF Life, Elsewhere, Settled
<1>3. Heap(v, l, d)
  BY <1>1 DEF Heap, Elsewhere
<1>4. Wake(v, d)
  BY <1>1 DEF Wake, Elsewhere, Settled
<1>5. Mux(v, d)
  BY <1>1, SettledEntry DEF Mux, Elsewhere
<1> QED
  BY <1>2, <1>3, <1>4, <1>5 DEF ChannelGood

LEMMA WorldStep ==
  ASSUME NEW w, NEW l, Good(w, l), NEW c \in Channels, NEW v \in Worlds,
         \A d \in Channels : d # c => Elsewhere(w, v, d),
         NEW m, LoopTouches(l, m, c), ChannelGood(v, m, c), Shape(v, m)
  PROVE  Good(v, m)
<1>1. ASSUME NEW d \in Channels, d # c
      PROVE  ChannelGood(v, m, d)
  <2>1. ChannelGood(v, l, d)
    BY <1>1, ElsewhereGood DEF Good
  <2>2. Heap(v, m, d)
    BY <1>1, <2>1 DEF ChannelGood, Heap, LoopTouches, Running
  <2> QED
    BY <2>1, <2>2 DEF ChannelGood
<1> QED
  BY <1>1 DEF Good, LoopTouches

LEMMA NoChannelStep ==
  ASSUME NEW w, NEW l, Good(w, l), NEW v \in Worlds,
         \A d \in Channels : Elsewhere(w, v, d), v.ev = w.ev
  PROVE  Good(v, l)
<1>1. \A d \in Channels : ChannelGood(v, l, d)
  BY ElsewhereGood DEF Good
<1>2. v.pending = w.pending /\ \A d \in Channels : v.chan[d] = w.chan[d]
  BY DEF Elsewhere, Good, Worlds
<1>3. Shape(v, l)
  BY <1>2 DEF Shape, Good, Loops
<1> QED
  BY <1>1, <1>3 DEF Good

(* A new record for circuit k.                                             *)
LEMMA SetCircuit ==
  ASSUME NEW w \in Worlds, NEW k \in Circuits, NEW y \in CircuitRecords
  PROVE  LET v == [w EXCEPT !.circ[k] = y] IN
         /\ v \in Worlds /\ v.chan = w.chan /\ v.pending = w.pending /\ v.ev = w.ev
         /\ v.circ[k] = y /\ \A j \in Circuits : j # k => v.circ[j] = w.circ[j]
<1>1. /\ w.chan \in [Channels -> ChannelRecords] /\ w.pending \in SUBSET Channels
      /\ w.ev \in BOOLEAN /\ w.circ \in [Circuits -> CircuitRecords]
  BY DEF Worlds
<1>2. [w.circ EXCEPT ![k] = y] \in [Circuits -> CircuitRecords]
  BY <1>1
<1>3. [w EXCEPT !.circ[k] = y] \in Worlds
  BY <1>1, <1>2 DEF Worlds
<1> QED
  BY <1>1, <1>3 DEF Worlds

LEMMA MarkIs ==
  ASSUME NEW w \in Worlds, NEW k \in Circuits
  PROVE  LET v == circuit_mark_for_close(w, k) IN
         /\ v \in Worlds /\ v.chan = w.chan /\ v.pending = w.pending /\ v.ev = w.ev
         /\ v.circ[k].state = "marked" /\ v.circ[k].on = w.circ[k].on
         /\ v.circ[k].queue = w.circ[k].queue
         /\ \A j \in Circuits : j # k => v.circ[j] = w.circ[j]
<1> DEFINE y == [w.circ[k] EXCEPT !.state = "marked"]
<1>1. y \in CircuitRecords /\ y.state = "marked" /\ y.on = w.circ[k].on
      /\ y.queue = w.circ[k].queue
  <2>1. w.circ[k] \in CircuitRecords
    BY DEF Worlds
  <2> QED
    BY <2>1 DEF CircuitRecords
<1>2. circuit_mark_for_close(w, k) = [w EXCEPT !.circ[k] = y]
  BY DEF circuit_mark_for_close, Worlds
<1> HIDE DEF y
<1> QED
  BY <1>1, <1>2, SetCircuit

LEMMA MarkKeeps ==
  ASSUME NEW w, NEW l, Good(w, l), NEW k \in Circuits
  PROVE  Good(circuit_mark_for_close(w, k), l)
<1> DEFINE v == circuit_mark_for_close(w, k)
<1>1. /\ v \in Worlds /\ v.chan = w.chan /\ v.pending = w.pending /\ v.ev = w.ev
      /\ v.circ[k].state = "marked" /\ v.circ[k].on = w.circ[k].on
      /\ v.circ[k].queue = w.circ[k].queue
      /\ \A j \in Circuits : j # k => v.circ[j] = w.circ[j]
  BY MarkIs DEF Good
<1> HIDE DEF v
<1>2. \A d \in Channels : Elsewhere(w, v, d)
  BY <1>1 DEF Elsewhere, Settled
<1>3. Good(v, l)
  BY <1>1, <1>2, NoChannelStep
<1> QED
  BY <1>3 DEF v
-----------------------------------------------------------------------------
(* From worlds to states: the steps of the specification, one by one.      *)
LEMMA BecomesWorld ==
  ASSUME NEW v \in Worlds, Becomes(v)
  PROVE  World' = v
BY DEF Becomes, World, Worlds

LEMMA RunKeeps ==
  ASSUME NEW v, NEW m, Good(v, m), InRun(v, m), Inv
  PROVE  Inv'
<1>1. World' = v /\ loop' = m /\ the_scheduler' \in Schedulers
  BY BecomesWorld DEF Good, InRun, Inv
<1> QED
  BY <1>1 DEF Inv

LEMMA HandlerKeeps ==
  ASSUME NEW v, Good(v, Idle), Handler(v), Inv
  PROVE  Inv'
<1>1. World' = v /\ loop' = Idle /\ the_scheduler' \in Schedulers
  BY BecomesWorld DEF Good, Handler, Inv
<1> QED
  BY <1>1 DEF Inv

LEMMA IdleFacts ==
  /\ Idle.at = "idle" /\ Idle.chan = None /\ Idle.left = 0 /\ Idle.short = FALSE
  /\ Idle.prev = None /\ Idle.outbufs = {} /\ Idle.readd = {} /\ Idle.todo = {}
  /\ Idle \in Loops /\ ~Running(Idle) /\ None \notin Channels
BY SchedulerAssumption DEF Idle, Loops, Running, SchedulerAssumption

(* World as the invariant sees it.                                         *)
LEMMA WorldFacts ==
  ASSUME Inv
  PROVE  /\ World \in Worlds /\ World.chan = chan /\ World.circ = circ
         /\ World.pending = channels_pending /\ World.ev = run_sched_ev
         /\ chan \in [Channels -> ChannelRecords] /\ circ \in [Circuits -> CircuitRecords]
         /\ channels_pending \in SUBSET Channels /\ loop \in Loops
         /\ Good(World, loop)
BY DEF Inv, Good, World, Worlds

LEMMA ChannelOpens ==
  ASSUME Inv, NEW c \in Channels, channel_tls_handle_state_change_on_orconn(c)
  PROVE  Inv'
<1> DEFINE w == World
           x == [chan[c] EXCEPT !.state = "OPEN"]
           v == [w EXCEPT !.chan[c] = x]
<1>1. /\ w \in Worlds /\ w.chan = chan /\ Good(w, Idle) /\ loop = Idle
      /\ chan[c] \in ChannelRecords /\ chan[c].state = "OPENING" /\ Idle.chan # c
  BY WorldFacts, IdleFacts
     DEF channel_tls_handle_state_change_on_orconn, Handler
<1>2. [w EXCEPT !.chan[c].state = "OPEN"] = v
  BY <1>1 DEF Worlds
<1> HIDE DEF w
<1>3. /\ x \in ChannelRecords /\ SameMux(x, w.chan[c]) /\ x.state = "OPEN"
      /\ x.conn = w.chan[c].conn /\ x.sched = w.chan[c].sched
      /\ x.limit = w.chan[c].limit /\ x.outbuf = w.chan[c].outbuf
      /\ w.chan[c].state = "OPENING"
  BY <1>1 DEF ChannelRecords, SameMux
<1> HIDE DEF x
<1>4. Life(w, c) /\ Heap(w, Idle, c) /\ w.chan[c].conn = "ok"
  BY <1>1, <1>3 DEF Good, ChannelGood, Life
<1>5. CASE chan[c].outbuf < or_conn_highwater
  <2>1. Good(scheduler_channel_wants_writes(v, c), Idle)
    BY <1>1, <1>3, <1>4, IdleFacts, WantsWrites
  <2>2. Handler(scheduler_channel_wants_writes(v, c))
    BY <1>2, <1>5 DEF channel_tls_handle_state_change_on_orconn, w
  <2> QED
    BY <2>1, <2>2, HandlerKeeps
<1>6. CASE ~(chan[c].outbuf < or_conn_highwater)
  <2>1. /\ v \in Worlds /\ v.circ = w.circ /\ v.pending = w.pending /\ v.ev = w.ev
        /\ v.chan[c] = x /\ \A d \in Channels : d # c => v.chan[d] = w.chan[d]
    BY <1>1, <1>3, SetRecord
  <2>2. x.outbuf > 0
    <3>1. chan[c].outbuf \in Nat
      BY <1>1 DEF ChannelRecords
    <3>2. or_conn_highwater \in Nat /\ or_conn_highwater > 0
      BY SchedulerAssumption DEF SchedulerAssumption
    <3> QED
      BY <3>1, <3>2, <1>1, <1>3, <1>6
  <2>3. Handler(v)
    BY <1>2, <1>6 DEF channel_tls_handle_state_change_on_orconn, w
  <2> HIDE DEF v
  <2>4. Touches(w, v, c)
    BY <2>1 DEF Touches
  <2>5. Life(v, c)
    BY <2>1, <1>3, <1>4 DEF Life
  <2>6. Wake(v, c)
    BY <2>1, <2>2, <1>1, <1>3, NoCells DEF Wake
  <2>7. Heap(v, Idle, c)
    BY <2>1, <1>3, <1>4 DEF Heap
  <2>8. Shape(v, Idle)
    BY <2>1, <1>1, IdleFacts DEF Shape, Good
  <2>9. Good(v, Idle)
    BY <1>1, <1>3, <2>1, <2>4, <2>5, <2>6, <2>7, <2>8, LoopSame, ChannelStep, IdleFacts
  <2> QED
    BY <2>3, <2>9, HandlerKeeps
<1> QED
  BY <1>5, <1>6

LEMMA ChannelCloses ==
  ASSUME Inv, NEW c \in Channels, close_channel(c)
  PROVE  Inv'
<1>1. Good(World, Idle) /\ Idle.chan # c
  BY WorldFacts, IdleFacts DEF close_channel, Handler
<1>2. /\ Good(channel_mark_for_close(World, c), Idle)
      /\ Good(channel_close_for_error(World, c), Idle)
  BY <1>1, CloseKeeps
<1>3. \/ Handler(channel_mark_for_close(World, c))
      \/ Handler(channel_close_for_error(World, c))
  BY DEF close_channel
<1> QED
  BY <1>2, <1>3, HandlerKeeps

LEMMA CircuitCloses ==
  ASSUME Inv, NEW k \in Circuits, close_circuit(k)
  PROVE  Inv'
<1>1. Good(World, Idle)
  BY WorldFacts DEF close_circuit, Handler
<1>2. Good(circuit_mark_for_close(World, k), Idle)
  BY <1>1, MarkKeeps
<1> QED
  BY <1>2, HandlerKeeps DEF close_circuit

(* A cell of link padding, or the one that negotiates it off.              *)
PaddedRecord(x, b) == [x EXCEPT !.outbuf = @ + 1, !.padding_enabled = b]

LEMMA PaddedRecordIs ==
  ASSUME NEW x \in ChannelRecords, NEW b \in BOOLEAN
  PROVE  LET y == PaddedRecord(x, b) IN
         /\ y \in ChannelRecords /\ SameMux(y, x)
         /\ y.conn = x.conn /\ y.state = x.state
         /\ y.sched = x.sched /\ y.limit = x.limit
         /\ y.destroys = x.destroys /\ y.outbuf > 0
<1>1. x.outbuf + 1 \in Nat /\ x.outbuf + 1 > 0
  BY DEF ChannelRecords
<1>2. PaddedRecord(x, b) \in ChannelRecords
  BY <1>1 DEF ChannelRecords, PaddedRecord
<1>3. PaddedRecord(x, b).outbuf = x.outbuf + 1
  BY DEF ChannelRecords, PaddedRecord
<1> QED
  BY <1>1, <1>2, <1>3 DEF ChannelRecords, PaddedRecord, SameMux

LEMMA Padding ==
  ASSUME Inv, NEW c \in Channels,
         \/ channelpadding_send_padding_cell_for_callback(c)
         \/ channelpadding_disable_padding_on_channel(c)
  PROVE  Inv'
<1>1. /\ World \in Worlds /\ World.chan = chan /\ Good(World, Idle)
      /\ chan[c] \in ChannelRecords
  BY WorldFacts DEF channelpadding_send_padding_cell_for_callback,
                    channelpadding_disable_padding_on_channel, Handler
<1>2. ASSUME NEW b \in BOOLEAN, NEW y, y = PaddedRecord(chan[c], b)
      PROVE  Good([World EXCEPT !.chan[c] = y], Idle)
  <2>1. /\ y \in ChannelRecords /\ SameMux(y, chan[c])
        /\ y.conn = chan[c].conn /\ y.state = chan[c].state
        /\ y.sched = chan[c].sched /\ y.limit = chan[c].limit
        /\ y.destroys = chan[c].destroys /\ y.outbuf > 0
    BY <1>1, <1>2, PaddedRecordIs
  <2> QED
    BY <1>1, <2>1, OutbufChanges
<1>3. CASE channelpadding_send_padding_cell_for_callback(c)
  <2>1. chan[c].padding_enabled
    BY <1>3 DEF channelpadding_send_padding_cell_for_callback
  <2>2. [chan[c] EXCEPT !.outbuf = @ + 1] = PaddedRecord(chan[c], TRUE)
    BY <1>1, <2>1 DEF ChannelRecords, PaddedRecord
  <2>3. [World EXCEPT !.chan[c].outbuf = @ + 1]
          = [World EXCEPT !.chan[c] = PaddedRecord(chan[c], TRUE)]
    BY <1>1, <2>2 DEF Worlds
  <2>4. Good([World EXCEPT !.chan[c].outbuf = @ + 1], Idle)
    BY <1>2, <2>3
  <2> QED
    BY <2>4, <1>3, HandlerKeeps DEF channelpadding_send_padding_cell_for_callback
<1>4. CASE channelpadding_disable_padding_on_channel(c)
  <2> DEFINE v == [World EXCEPT !.chan[c] = PaddedRecord(chan[c], FALSE)]
  <2>2. Good(v, Idle)
    BY <1>2
  <2>3. Handler(v)
    BY <1>4 DEF channelpadding_disable_padding_on_channel, PaddedRecord
  <2> QED
    BY <2>2, <2>3, HandlerKeeps
<1> QED
  BY <1>3, <1>4

LEMMA ConnectionWrites ==
  ASSUME Inv, NEW c \in Channels, conn_write_callback(c)
  PROVE  Inv'
<1>1. /\ Good(World, Idle) /\ Idle.chan # c /\ World.chan = chan /\ Idle.at = "idle"
  BY WorldFacts, IdleFacts DEF conn_write_callback, Handler
<1>2. PICK o \in WriteOutcomes(chan[c].outbuf) :
             Handler(connection_handle_write(World, c, o))
  BY DEF conn_write_callback
<1>3. Good(connection_handle_write(World, c, o), Idle)
  BY <1>1, HandleWrite
<1> QED
  BY <1>2, <1>3, HandlerKeeps

LEMMA CircuitAttaches ==
  ASSUME Inv, NEW k \in Circuits, NEW c \in Channels, attach_circuit(k, c)
  PROVE  Inv'
<1> DEFINE w == World
           q == [circ[k] EXCEPT !.state = "open", !.on = @ \cup {c}]
           x == circuitmux_attach_circuit(chan[c], k)
           u == [w EXCEPT !.circ[k] = q]
           v == [u EXCEPT !.chan[c] = x]
<1>1. /\ w \in Worlds /\ w.chan = chan /\ w.circ = circ /\ Good(w, Idle)
      /\ chan[c] \in ChannelRecords /\ circ[k] \in CircuitRecords
  BY WorldFacts DEF attach_circuit, Handler
<1>2. /\ chan[c].state = "OPEN" /\ c \notin circ[k].on
      /\ circ[k].state \in {"unused", "open"}
  BY DEF attach_circuit
<1>3. Handler(v)
  BY DEF attach_circuit
<1> HIDE DEF w
<1>4. /\ Life(w, c) /\ Heap(w, Idle, c) /\ Wake(w, c) /\ Totals(chan[c])
      /\ \A j \in Circuits : Entry(w, c, j)
  BY <1>1 DEF Good, ChannelGood, Mux
<1>5. chan[c].count[k] = Detached /\ circ[k].queue[c] = 0
  BY <1>1, <1>2, <1>4 DEF Entry
<1>6. /\ x \in ChannelRecords /\ Totals(x) /\ SameBut(x, chan[c])
      /\ x.count = [chan[c].count EXCEPT ![k] = 0]
  BY <1>1, <1>4, <1>5, AttachCircuit
<1>7. /\ q \in CircuitRecords /\ q.state = "open" /\ q.on = circ[k].on \cup {c}
      /\ q.queue = circ[k].queue
  BY <1>1 DEF CircuitRecords
<1> HIDE DEF x, q
<1>8. /\ u \in Worlds /\ u.chan = w.chan /\ u.pending = w.pending /\ u.ev = w.ev
      /\ u.circ[k] = q /\ \A j \in Circuits : j # k => u.circ[j] = w.circ[j]
  BY <1>1, <1>7, SetCircuit
<1> HIDE DEF u
<1>9. /\ v \in Worlds /\ v.circ = u.circ /\ v.pending = u.pending /\ v.ev = u.ev
      /\ v.chan[c] = x /\ \A d \in Channels : d # c => v.chan[d] = u.chan[d]
  BY <1>6, <1>8, SetRecord
<1> HIDE DEF v
<1>10. \A d \in Channels : d # c => Elsewhere(w, v, d)
  BY <1>1, <1>2, <1>7, <1>8, <1>9 DEF Elsewhere, Settled
<1>11. ChannelGood(v, Idle, c)
  <2>1. Life(v, c)
    BY <1>1, <1>2, <1>4, <1>6, <1>9 DEF Life, SameBut
  <2>2. Wake(v, c)
    BY <1>1, <1>4, <1>6, <1>7, <1>8, <1>9 DEF Wake, SameBut
  <2>3. Heap(v, Idle, c)
    BY <1>1, <1>4, <1>6, <1>8, <1>9 DEF Heap, SameBut
  <2>4. Mux(v, c)
    <3>1. ASSUME NEW j \in Circuits, j # k
          PROVE  Entry(v, c, j)
      <4>1. v.circ[j] = w.circ[j] /\ v.chan[c].count[j] = w.chan[c].count[j]
        BY <1>1, <1>6, <1>8, <1>9, <3>1 DEF ChannelRecords, Counts
      <4> QED
        BY <4>1, <1>4 DEF Entry
    <3>2. Entry(v, c, k)
      <4>1. v.circ[k] = q /\ v.chan[c].count[k] = 0
        BY <1>1, <1>6, <1>8, <1>9 DEF ChannelRecords, Counts
      <4> QED
        BY <4>1, <1>5, <1>7 DEF Entry, Detached
    <3> QED
      BY <3>1, <3>2, <1>6, <1>9 DEF Mux
  <2> QED
    BY <2>1, <2>2, <2>3, <2>4 DEF ChannelGood
<1>12. Shape(v, Idle)
  BY <1>1, <1>8, <1>9, IdleFacts DEF Shape, Good
<1>13. Good(v, Idle)
  BY <1>1, <1>9, <1>10, <1>11, <1>12, WorldStep, LoopSame, IdleFacts
<1> QED
  BY <1>3, <1>13, HandlerKeeps

(* The circuitmux of channel c learns of circuit k.                        *)
LEMMA MuxUpdated ==
  ASSUME NEW w \in Worlds, NEW v, NEW c \in Channels, NEW k \in Circuits, NEW n,
         Mux(w, c), Totals(v.chan[c]),
         v.chan[c].count = [w.chan[c].count EXCEPT ![k] = n],
         v.chan[c].count[k] = n => Entry(v, c, k),
         \A j \in Circuits : j # k => Settled(w, v, c, j)
  PROVE  Mux(v, c)
<1>1. w.chan[c].count \in Counts
  BY DEF Worlds, ChannelRecords
<1>2. v.chan[c].count[k] = n /\ \A j \in Circuits : j # k => v.chan[c].count[j] = w.chan[c].count[j]
  BY <1>1 DEF Counts
<1>3. ASSUME NEW j \in Circuits, j # k
      PROVE  Entry(v, c, j)
  BY <1>2, <1>3, SettledEntry DEF Mux
<1> QED
  BY <1>2, <1>3 DEF Mux

LEMMA UpdateCmuxIs ==
  ASSUME NEW w \in Worlds, NEW c \in Channels, NEW k \in Circuits,
         Totals(w.chan[c]), w.chan[c].count[k] # Detached
  PROVE  LET v == update_circuit_on_cmux(w, k, c) IN
         /\ Touches(w, v, c) /\ v.pending = w.pending /\ v.ev = w.ev
         /\ SameBut(v.chan[c], w.chan[c]) /\ Totals(v.chan[c])
         /\ v.chan[c].count = [w.chan[c].count EXCEPT ![k] = w.circ[k].queue[c]]
<1> DEFINE n == w.circ[k].queue[c]
           y == circuitmux_set_num_cells(w.chan[c], k, n)
<1>1. w.chan[c] \in ChannelRecords /\ n \in Nat
  BY DEF Worlds, CircuitRecords
<1>2. update_circuit_on_cmux(w, k, c) = [w EXCEPT !.chan[c] = y]
  BY DEF update_circuit_on_cmux
<1> HIDE DEF n
<1>3. /\ y \in ChannelRecords /\ Totals(y) /\ SameBut(y, w.chan[c])
      /\ y.count = [w.chan[c].count EXCEPT ![k] = n]
  BY <1>1, SetNumCells
<1> HIDE DEF y
<1> QED
  BY <1>2, <1>3, SetRecord DEF Touches, n

LEMMA OomIs ==
  ASSUME NEW w \in Worlds, NEW killed \in SUBSET Circuits
  PROVE  LET v == circuits_handle_oom(w, killed) IN
         /\ v \in Worlds /\ v.chan = w.chan /\ v.pending = w.pending /\ v.ev = w.ev
         /\ \A j \in Circuits :
              IF j \in killed
              THEN /\ v.circ[j].state = "marked" /\ v.circ[j].on = w.circ[j].on
                   /\ v.circ[j].queue = [c \in Channels |-> 0]
              ELSE v.circ[j] = w.circ[j]
<1> DEFINE v == circuits_handle_oom(w, killed)
           f == [k \in Circuits |->
                   IF k \in killed THEN [w.circ[k] EXCEPT !.state = "marked",
                                               !.queue = [c \in Channels |-> 0]]
                   ELSE w.circ[k]]
<1>1. v = [w EXCEPT !.circ = f]
  BY DEF circuits_handle_oom
<1>2. \A j \in Circuits :
        /\ f[j] \in CircuitRecords
        /\ IF j \in killed
           THEN /\ f[j].state = "marked" /\ f[j].on = w.circ[j].on
                /\ f[j].queue = [c \in Channels |-> 0]
           ELSE f[j] = w.circ[j]
  <2> SUFFICES ASSUME NEW j \in Circuits
               PROVE  /\ f[j] \in CircuitRecords
                      /\ IF j \in killed
                         THEN /\ f[j].state = "marked" /\ f[j].on = w.circ[j].on
                              /\ f[j].queue = [c \in Channels |-> 0]
                         ELSE f[j] = w.circ[j]
    OBVIOUS
  <2>1. w.circ[j] \in CircuitRecords
    BY DEF Worlds
  <2> QED
    BY <2>1 DEF CircuitRecords
<1>3. f \in [Circuits -> CircuitRecords]
  BY <1>2
<1> HIDE DEF v, f
<1>4. /\ v \in Worlds /\ v.chan = w.chan /\ v.pending = w.pending /\ v.ev = w.ev
      /\ v.circ = f
  BY <1>1, <1>3 DEF Worlds
<1> QED
  BY <1>2, <1>4 DEF v

LEMMA HasWaitingCellsIs ==
  ASSUME NEW u \in Worlds, NEW c \in Channels
  PROVE  LET v == scheduler_channel_has_waiting_cells(u, c)
             x == u.chan[c] IN
         /\ Touches(u, v, c)
         /\ \/ /\ x.sched = "WAITING_FOR_CELLS"
               /\ v.chan[c] = [x EXCEPT !.sched = "PENDING"]
               /\ v.pending = u.pending \cup {c} /\ v.ev = TRUE
            \/ /\ x.sched = "IDLE"
               /\ v.chan[c] = [x EXCEPT !.sched = "WAITING_TO_WRITE"]
               /\ v.pending = u.pending /\ v.ev = u.ev
            \/ /\ x.sched \in {"WAITING_TO_WRITE", "PENDING"}
               /\ v.chan[c] = x /\ v.pending = u.pending /\ v.ev = u.ev
<1> DEFINE x == u.chan[c]
           v == scheduler_channel_has_waiting_cells(u, c)
<1>1. x \in ChannelRecords /\ x.sched \in {"IDLE", "WAITING_FOR_CELLS", "WAITING_TO_WRITE", "PENDING"}
  BY DEF ChannelRecords, Worlds
<1>2. CASE x.sched = "WAITING_FOR_CELLS"
  <2>1. v = schedule(AddPending(u, c))
    BY <1>2 DEF scheduler_channel_has_waiting_cells
  <2> HIDE DEF v
  <2>2. /\ Touches(u, v, c) /\ v.ev = TRUE /\ v.pending = u.pending \cup {c}
        /\ v.chan[c] = [u.chan[c] EXCEPT !.sched = "PENDING"]
    BY <2>1, AddPendingIs
  <2> QED
    BY <2>2, <1>2 DEF v
<1>3. CASE x.sched = "IDLE"
  <2>1. v = SetSched(u, c, "WAITING_TO_WRITE")
    BY <1>3 DEF scheduler_channel_has_waiting_cells
  <2> HIDE DEF v
  <2>2. /\ Touches(u, v, c) /\ v.ev = u.ev /\ v.pending = u.pending
        /\ v.chan[c] = [u.chan[c] EXCEPT !.sched = "WAITING_TO_WRITE"]
    BY <2>1, SetSchedIs
  <2> QED
    BY <2>2, <1>3 DEF v
<1>4. CASE x.sched \in {"WAITING_TO_WRITE", "PENDING"}
  <2>1. v = u
    BY <1>4 DEF scheduler_channel_has_waiting_cells
  <2> HIDE DEF v
  <2> QED
    BY <2>1, <1>4 DEF Touches, v
<1> QED
  BY <1>1, <1>2, <1>3, <1>4

LEMMA AppendKeeps ==
  ASSUME NEW w, Good(w, Idle), NEW k \in Circuits, NEW c \in Channels,
         c \in w.circ[k].on, w.circ[k].state = "open", NEW killed \in SUBSET Circuits
  PROVE  Good(append_cell_to_circuit_queue(w, k, c, killed), Idle)
<1> DEFINE n == w.circ[k].queue[c]
           q == [w.circ[k] EXCEPT !.queue[c] = @ + 1]
           t == [w EXCEPT !.circ[k] = q]
           o == circuits_handle_oom(t, killed)
           u == update_circuit_on_cmux(o, k, c)
           v == scheduler_channel_has_waiting_cells(u, c)
<1>1. /\ w \in Worlds /\ w.chan[c] \in ChannelRecords /\ w.circ[k] \in CircuitRecords
      /\ n \in Nat
  BY DEF Good, Worlds, CircuitRecords
<1>2. append_cell_to_circuit_queue(w, k, c, killed) =
        IF n >= max_circuit_cell_queue_size THEN circuit_mark_for_close(w, k)
        ELSE IF k \in killed THEN o ELSE v
  <2>1. [w EXCEPT !.circ[k].queue[c] = @ + 1] = t
    BY <1>1 DEF Worlds, CircuitRecords
  <2> QED
    BY <2>1 DEF append_cell_to_circuit_queue
<1>3. /\ q \in CircuitRecords /\ q.state = "open" /\ q.on = w.circ[k].on
      /\ q.queue[c] = n + 1 /\ \A d \in Channels : d # c => q.queue[d] = w.circ[k].queue[d]
  BY <1>1 DEF CircuitRecords
<1> HIDE DEF q
<1>4. /\ t \in Worlds /\ t.chan = w.chan /\ t.pending = w.pending /\ t.ev = w.ev
      /\ t.circ[k] = q /\ \A j \in Circuits : j # k => t.circ[j] = w.circ[j]
  BY <1>1, <1>3, SetCircuit
<1> HIDE DEF t
<1>5. /\ o \in Worlds /\ o.chan = t.chan /\ o.pending = t.pending /\ o.ev = t.ev
      /\ \A j \in Circuits :
           IF j \in killed
           THEN /\ o.circ[j].state = "marked" /\ o.circ[j].on = t.circ[j].on
                /\ o.circ[j].queue = [d \in Channels |-> 0]
           ELSE o.circ[j] = t.circ[j]
  BY <1>4, OomIs
<1> HIDE DEF o
<1>6. \A j \in Circuits : \A d \in Channels : (j # k \/ d # c) => Settled(w, o, d, j)
  <2> SUFFICES ASSUME NEW j \in Circuits, NEW d \in Channels, j # k \/ d # c
               PROVE  Settled(w, o, d, j)
    OBVIOUS
  <2>1. t.circ[j].on = w.circ[j].on /\ t.circ[j].state = w.circ[j].state
        /\ t.circ[j].queue[d] = w.circ[j].queue[d]
    BY <1>3, <1>4
  <2> QED
    BY <2>1, <1>5 DEF Settled
<1>7. CASE n >= max_circuit_cell_queue_size
  BY <1>2, <1>7, MarkKeeps
<1>8. CASE ~(n >= max_circuit_cell_queue_size) /\ k \in killed
  <2>1. Settled(w, o, c, k)
    BY <1>3, <1>4, <1>5, <1>8 DEF Settled
  <2>2. \A d \in Channels : Elsewhere(w, o, d)
    BY <2>1, <1>4, <1>5, <1>6 DEF Elsewhere
  <2>3. Good(o, Idle)
    BY <2>2, <1>4, <1>5, NoChannelStep
  <2> QED
    BY <2>3, <1>2, <1>8
<1>9. CASE ~(n >= max_circuit_cell_queue_size) /\ k \notin killed
  <2>1. Life(w, c) /\ Mux(w, c) /\ Heap(w, Idle, c) /\ Wake(w, c)
    BY DEF Good, ChannelGood
  <2>2. w.chan[c].count[k] # Detached /\ Totals(w.chan[c])
    BY <2>1 DEF Mux, Entry
  <2>3. o.chan = w.chan /\ o.circ[k].queue[c] = n + 1 /\ o.circ[k].on = w.circ[k].on
        /\ o.pending = w.pending /\ o.ev = w.ev
    BY <1>3, <1>4, <1>5, <1>9
  <2>4. /\ Touches(o, u, c) /\ u.pending = o.pending /\ u.ev = o.ev
        /\ SameBut(u.chan[c], o.chan[c]) /\ Totals(u.chan[c])
        /\ u.chan[c].count = [o.chan[c].count EXCEPT ![k] = o.circ[k].queue[c]]
    <3>1. o \in Worlds /\ o.chan[c].count[k] # Detached /\ Totals(o.chan[c])
      BY <1>5, <2>2, <2>3
    <3> QED
      BY <3>1, UpdateCmuxIs
  <2> HIDE DEF u
  <2> DEFINE x == u.chan[c]
             y == v.chan[c]
  <2>5. /\ Touches(u, v, c)
        /\ \/ /\ x.sched = "WAITING_FOR_CELLS"
              /\ y = [x EXCEPT !.sched = "PENDING"]
              /\ v.pending = u.pending \cup {c} /\ v.ev = TRUE
           \/ /\ x.sched = "IDLE"
              /\ y = [x EXCEPT !.sched = "WAITING_TO_WRITE"]
              /\ v.pending = u.pending /\ v.ev = u.ev
           \/ /\ x.sched \in {"WAITING_TO_WRITE", "PENDING"}
              /\ y = x /\ v.pending = u.pending /\ v.ev = u.ev
    BY <2>4, HasWaitingCellsIs DEF Touches
  <2> HIDE DEF v
  <2>6. x \in ChannelRecords
    BY <2>4 DEF Touches, Worlds
  <2>7. /\ v \in Worlds /\ v.circ = o.circ
        /\ \A d \in Channels : d # c => /\ v.chan[d] = w.chan[d]
                                        /\ d \in v.pending <=> d \in w.pending
    BY <2>3, <2>4, <2>5 DEF Touches
  <2>8. /\ SameMux(y, x) /\ y.state = w.chan[c].state /\ y.conn = w.chan[c].conn
        /\ y.outbuf = w.chan[c].outbuf /\ y.limit = w.chan[c].limit
        /\ x.sched = w.chan[c].sched
    BY <2>3, <2>4, <2>5, <2>6 DEF ChannelRecords, SameMux, SameBut
  <2>9. \/ /\ x.sched = "WAITING_FOR_CELLS" /\ y.sched = "PENDING"
           /\ v.pending = w.pending \cup {c} /\ v.ev = TRUE
        \/ /\ x.sched = "IDLE" /\ y.sched = "WAITING_TO_WRITE"
           /\ v.pending = w.pending /\ v.ev = w.ev
        \/ /\ x.sched \in {"WAITING_TO_WRITE", "PENDING"}
           /\ y.sched = x.sched /\ v.pending = w.pending /\ v.ev = w.ev
    BY <2>3, <2>4, <2>5, <2>6 DEF ChannelRecords
  <2>10. \A d \in Channels : d # c => Elsewhere(w, v, d)
    BY <2>7, <1>6 DEF Elsewhere, Settled
  <2>11. Totals(y) /\ y.count = [w.chan[c].count EXCEPT ![k] = n + 1]
    BY <2>3, <2>4, <2>8, TotalsDepend DEF SameMux
  <2> HIDE DEF x, y, n
  <2>12. w.chan[c].state \in {"OPEN", "CLOSING"}
    BY <1>1, <2>1 DEF Life, ChannelRecords
  <2>13. Life(v, c)
    BY <2>1, <2>8, <2>12 DEF Life, y
  <2>14. Wake(v, c)
    BY <2>1, <2>8, <2>9 DEF Wake, y
  <2>15. Heap(v, Idle, c)
    BY <2>1, <2>8, <2>9, <2>12, IdleFacts DEF Heap, y, Life
  <2>16. Mux(v, c)
    <3>1. \A j \in Circuits : j # k => Settled(w, v, c, j)
      BY <1>6, <2>7 DEF Settled
    <3>2. v.chan[c].count[k] = n + 1 => Entry(v, c, k)
      <4>1. v.circ[k].queue[c] = n + 1 /\ c \in v.circ[k].on /\ n + 1 # Detached
        BY <1>1, <2>3, <2>7 DEF Detached, n
      <4> QED
        BY <4>1 DEF Entry
    <3> QED
      BY <1>1, <2>1, <2>11, <3>1, <3>2, MuxUpdated DEF y
  <2>17. Shape(v, Idle)
    BY <2>9, IdleFacts DEF Shape, Good
  <2>18. Good(v, Idle)
    BY <2>7, <2>10, <2>13, <2>14, <2>15, <2>16, <2>17, WorldStep, LoopSame, IdleFacts
       DEF ChannelGood
  <2> QED
    BY <2>18, <1>2, <1>9 DEF v, u, n
<1> QED
  BY <1>7, <1>8, <1>9

LEMMA CellArrives ==
  ASSUME Inv, NEW k \in Circuits, NEW c \in Channels, relay_cell(k, c)
  PROVE  Inv'
<1>1. PICK killed \in SUBSET {j \in Circuits : circ[j].state \in {"open", "marked"}} :
        Handler(append_cell_to_circuit_queue(World, k, c, killed))
  BY DEF relay_cell
<1>2. Good(World, Idle) /\ World.circ = circ
  BY <1>1, WorldFacts DEF Handler
<1>3. Good(append_cell_to_circuit_queue(World, k, c, killed), Idle)
  BY <1>2, AppendKeeps DEF relay_cell
<1> QED
  BY <1>1, <1>3, HandlerKeeps

(* The options change: a socket table matters only while KIST runs.        *)
LEMMA ConfChanges ==
  ASSUME Inv, scheduler_conf_changed
  PROVE  Inv'
<1> DEFINE w == World
           f == [c \in Channels |-> [chan[c] EXCEPT !.limit = NoEntry]]
           v == [w EXCEPT !.chan = f]
<1>1. /\ w \in Worlds /\ w.chan = chan /\ w.circ = circ /\ w.pending = channels_pending
      /\ w.ev = run_sched_ev /\ Good(w, Idle) /\ loop = Idle
      /\ \A c \in Channels : chan[c] \in ChannelRecords
  BY WorldFacts DEF scheduler_conf_changed
<1> HIDE DEF w
<1>2. \A c \in Channels :
        /\ f[c] \in ChannelRecords /\ SameMux(f[c], chan[c])
        /\ f[c].state = chan[c].state /\ f[c].sched = chan[c].sched
        /\ f[c].conn = chan[c].conn /\ f[c].outbuf = chan[c].outbuf
        /\ f[c].limit = NoEntry
  BY <1>1 DEF ChannelRecords, SameMux
<1>3. f \in [Channels -> ChannelRecords]
  BY <1>2
<1>4. chan' = f /\ UNCHANGED <<circ, channels_pending, run_sched_ev, loop>>
      /\ the_scheduler' \in Schedulers
  BY DEF scheduler_conf_changed
<1> HIDE DEF f
<1>5. /\ v \in Worlds /\ v.chan = f /\ v.circ = w.circ /\ v.pending = w.pending
      /\ v.ev = w.ev
  BY <1>1, <1>3 DEF Worlds
<1>6. Becomes(v)
  BY <1>1, <1>4, <1>5 DEF Becomes
<1> HIDE DEF v
<1>7. ASSUME NEW c \in Channels
      PROVE  ChannelGood(v, Idle, c)
  <2>1. Life(w, c) /\ Mux(w, c) /\ Heap(w, Idle, c) /\ Wake(w, c)
    BY <1>1 DEF Good, ChannelGood
  <2>2. Life(v, c)
    BY <2>1, <1>1, <1>2, <1>5 DEF Life
  <2>3. Wake(v, c)
    BY <2>1, <1>1, <1>2, <1>5 DEF Wake
  <2>4. Heap(v, Idle, c)
    BY <2>1, <1>1, <1>2, <1>5, IdleFacts DEF Heap
  <2>5. Mux(v, c)
    BY <2>1, <1>1, <1>2, <1>5, MuxDepends DEF SameMux
  <2> QED
    BY <2>2, <2>3, <2>4, <2>5 DEF ChannelGood
<1>8. Shape(v, Idle)
  BY <1>1, <1>5, IdleFacts DEF Shape, Good
<1>9. Good(v, Idle)
  BY <1>5, <1>7, <1>8, IdleFacts DEF Good
<1> QED
  BY <1>1, <1>4, <1>5, <1>6, <1>9, BecomesWorld DEF Inv
-----------------------------------------------------------------------------
(* The runs of the scheduler: how they begin and end.                      *)
Unmoved(x, y) == /\ SameMux(y, x) /\ y.state = x.state /\ y.conn = x.conn
                 /\ y.outbuf = x.outbuf

LEMMA UnmovedGood ==
  ASSUME NEW w, NEW l, NEW v, NEW m, NEW c \in Channels, ChannelGood(w, l, c),
         v.circ = w.circ, Unmoved(w.chan[c], v.chan[c]),
         v.chan[c].sched = w.chan[c].sched, Heap(v, m, c)
  PROVE  ChannelGood(v, m, c)
<1>1. Life(w, c) /\ Mux(w, c) /\ Wake(w, c)
  BY DEF ChannelGood
<1>2. Life(v, c)
  BY <1>1 DEF Life, Unmoved
<1>3. Wake(v, c)
  BY <1>1 DEF Wake, Unmoved
<1>4. Mux(v, c)
  BY <1>1, MuxDepends DEF Unmoved, SameMux
<1> QED
  BY <1>2, <1>3, <1>4 DEF ChannelGood

LEMMA Begins ==
  ASSUME NEW w, Good(w, Idle), NEW v \in Worlds, v.circ = w.circ, v.pending = w.pending,
         \A c \in Channels : /\ Unmoved(w.chan[c], v.chan[c])
                             /\ v.chan[c].sched = w.chan[c].sched
                             /\ c \notin w.pending => v.chan[c].limit = w.chan[c].limit,
         NEW a \in {"kist", "vanilla"},
         a = "kist" => \A c \in w.pending : v.chan[c].limit # NoEntry
  PROVE  Good(v, [Idle EXCEPT !.at = a])
<1> DEFINE m == [Idle EXCEPT !.at = a]
<1>1. /\ m.at = a /\ m.chan = None /\ m.left = 0 /\ m.short = FALSE
      /\ m.prev = None /\ m.outbufs = {} /\ m.readd = {} /\ m.todo = {} /\ m \in Loops
  BY DEF Idle, Loops
<1> HIDE DEF m
<1>2. ASSUME NEW c \in Channels
      PROVE  ChannelGood(v, m, c)
  <2>1. Heap(w, Idle, c) /\ ChannelGood(w, Idle, c)
    BY DEF Good, ChannelGood
  <2>2. c # None /\ Idle.readd = {} /\ ~Running(Idle)
    BY IdleFacts
  <2>3. Heap(v, m, c)
    BY <1>1, <2>1, <2>2 DEF Heap, Unmoved
  <2> QED
    BY <2>1, <2>3, UnmovedGood
<1>3. Shape(v, m)
  BY <1>1 DEF Shape, Running
<1>4. Good(v, m)
  BY <1>1, <1>2, <1>3 DEF Good
<1> QED
  BY <1>4 DEF m

LEMMA KistBegins ==
  ASSUME Inv, KistRunBegins
  PROVE  Inv'
<1>1. PICK limits \in [channels_pending -> 0..KernelSpace] : kist_run_begins(limits)
  BY DEF KistRunBegins
<1> DEFINE w == World
           f == [c \in Channels |->
                   IF c \in channels_pending THEN [chan[c] EXCEPT !.limit = limits[c]]
                   ELSE chan[c]]
           v == [[w EXCEPT !.ev = FALSE] EXCEPT !.chan = f]
           m == [Idle EXCEPT !.at = "kist"]
<1>2. /\ w \in Worlds /\ w.chan = chan /\ w.pending = channels_pending /\ Good(w, Idle)
      /\ \A c \in Channels : chan[c] \in ChannelRecords
      /\ channels_pending \in SUBSET Channels
  BY <1>1, WorldFacts DEF kist_run_begins
<1>3. Becomes(v) /\ loop' = m /\ UNCHANGED the_scheduler
  <2>1. [w EXCEPT !.ev = FALSE].chan = chan
    BY DEF World
  <2> QED
    BY <1>1, <2>1 DEF kist_run_begins
<1> HIDE DEF w
<1>4. \A c \in Channels :
        /\ f[c] \in ChannelRecords /\ Unmoved(chan[c], f[c]) /\ f[c].sched = chan[c].sched
        /\ IF c \in channels_pending THEN f[c].limit = limits[c] ELSE f[c] = chan[c]
  <2> SUFFICES ASSUME NEW c \in Channels
               PROVE  /\ f[c] \in ChannelRecords /\ Unmoved(chan[c], f[c])
                      /\ f[c].sched = chan[c].sched
                      /\ IF c \in channels_pending THEN f[c].limit = limits[c]
                         ELSE f[c] = chan[c]
    OBVIOUS
  <2>1. CASE c \in channels_pending
    <3>1. f[c] = [chan[c] EXCEPT !.limit = limits[c]] /\ limits[c] \in Nat
      BY <2>1, SchedulerAssumption DEF SchedulerAssumption
    <3> HIDE DEF f
    <3> QED
      BY <1>2, <2>1, <3>1 DEF ChannelRecords, Unmoved, SameMux
  <2>2. CASE c \notin channels_pending
    <3>1. f[c] = chan[c]
      BY <2>2
    <3> HIDE DEF f
    <3> QED
      BY <1>2, <2>2, <3>1 DEF Unmoved, SameMux
  <2> QED
    BY <2>1, <2>2
<1>5. f \in [Channels -> ChannelRecords]
  BY <1>4
<1> HIDE DEF f
<1>6. /\ v \in Worlds /\ v.circ = w.circ /\ v.pending = w.pending /\ v.chan = f
  BY <1>2, <1>5 DEF Worlds
<1> HIDE DEF v
<1>7. \A c \in w.pending : v.chan[c].limit # NoEntry
  BY <1>2, <1>4, <1>6 DEF NoEntry
<1>8. Good(v, m)
  BY <1>2, <1>4, <1>6, <1>7, Begins
<1> QED
  BY <1>3, <1>8, RunKeeps DEF InRun

LEMMA VanillaBegins ==
  ASSUME Inv, vanilla_run_begins
  PROVE  Inv'
<1> DEFINE w == World
           v == [w EXCEPT !.ev = FALSE]
           m == [Idle EXCEPT !.at = "vanilla"]
<1>1. w \in Worlds /\ Good(w, Idle)
  BY WorldFacts DEF vanilla_run_begins
<1>2. Becomes(v) /\ loop' = m /\ UNCHANGED the_scheduler
  BY DEF vanilla_run_begins
<1> HIDE DEF w
<1>3. /\ v \in Worlds /\ v.circ = w.circ /\ v.pending = w.pending /\ v.chan = w.chan
  BY <1>1 DEF Worlds
<1> HIDE DEF v
<1>4. Good(v, m)
  BY <1>1, <1>3, Begins DEF Unmoved, SameMux
<1> QED
  BY <1>2, <1>4, RunKeeps DEF InRun

(* The end of a run: the channels to re-add are pending again.             *)
LEMMA Ends ==
  ASSUME Inv, Running(loop), loop.chan = None, channels_pending = {}
  PROVE  Good(readd_all(World), Idle)
<1> DEFINE w == World
           f == [c \in Channels |->
                   IF c \in loop.readd THEN [chan[c] EXCEPT !.sched = "PENDING"]
                   ELSE chan[c]]
           P == channels_pending \cup loop.readd
           u == [[w EXCEPT !.pending = P] EXCEPT !.chan = f]
           v == schedule(u)
<1>1. /\ w \in Worlds /\ w.chan = chan /\ w.pending = channels_pending
      /\ Good(w, loop) /\ loop \in Loops
      /\ \A c \in Channels : chan[c] \in ChannelRecords
      /\ loop.readd \in SUBSET Channels /\ P = loop.readd
  BY WorldFacts DEF Loops
<1>2. readd_all(w) = v
  <2>1. [w EXCEPT !.pending = P].chan = chan /\ w.pending = channels_pending
    BY DEF World
  <2> QED
    BY <2>1 DEF readd_all
<1> HIDE DEF w
<1>3. \A c \in Channels :
        /\ f[c] \in ChannelRecords /\ Unmoved(chan[c], f[c]) /\ f[c].limit = chan[c].limit
        /\ IF c \in loop.readd THEN f[c].sched = "PENDING" ELSE f[c] = chan[c]
  <2> SUFFICES ASSUME NEW c \in Channels
               PROVE  /\ f[c] \in ChannelRecords /\ Unmoved(chan[c], f[c])
                      /\ f[c].limit = chan[c].limit
                      /\ IF c \in loop.readd THEN f[c].sched = "PENDING"
                         ELSE f[c] = chan[c]
    OBVIOUS
  <2>1. CASE c \in loop.readd
    <3>1. f[c] = [chan[c] EXCEPT !.sched = "PENDING"]
      BY <2>1
    <3> HIDE DEF f
    <3> QED
      BY <1>1, <2>1, <3>1 DEF ChannelRecords, Unmoved, SameMux
  <2>2. CASE c \notin loop.readd
    <3>1. f[c] = chan[c]
      BY <2>2
    <3> HIDE DEF f
    <3> QED
      BY <1>1, <2>2, <3>1 DEF Unmoved, SameMux
  <2> QED
    BY <2>1, <2>2
<1>4. f \in [Channels -> ChannelRecords]
  BY <1>3
<1> HIDE DEF f, P
<1>5. /\ u \in Worlds /\ u.circ = w.circ /\ u.pending = loop.readd /\ u.chan = f
  BY <1>1, <1>4 DEF Worlds
<1> HIDE DEF u
<1>6. /\ v \in Worlds /\ v.circ = w.circ /\ v.pending = loop.readd /\ v.chan = f
      /\ v.pending # {} => v.ev
  BY <1>5 DEF schedule, Worlds
<1> HIDE DEF v
<1>7. ASSUME NEW c \in Channels
      PROVE  ChannelGood(v, Idle, c)
  <2>1. ChannelGood(w, loop, c)
    BY <1>1 DEF Good
  <2>2. Life(w, c) /\ Mux(w, c) /\ Heap(w, loop, c) /\ Wake(w, c)
    BY <2>1 DEF ChannelGood
  <2>3. c # None
    BY IdleFacts
  <2>4. CASE c \in loop.readd
    <3>1. Life(v, c)
      BY <2>2, <1>1, <1>3, <1>6 DEF Life, Unmoved
    <3>2. Wake(v, c)
      BY <2>4, <1>3, <1>6 DEF Wake
    <3>3. Mux(v, c)
      BY <2>2, <1>1, <1>3, <1>6, MuxDepends DEF Unmoved, SameMux
    <3>4. Heap(v, Idle, c)
      BY <2>2, <2>3, <2>4, <1>1, <1>3, <1>6, IdleFacts DEF Heap, Unmoved
    <3> QED
      BY <3>1, <3>2, <3>3, <3>4 DEF ChannelGood
  <2>5. CASE c \notin loop.readd
    <3>1. chan[c].sched # "PENDING"
      BY <2>2, <2>3, <2>5, <1>1 DEF Heap
    <3>2. Heap(v, Idle, c)
      BY <2>2, <2>3, <2>5, <3>1, <1>1, <1>3, <1>6, IdleFacts DEF Heap
    <3> QED
      BY <2>1, <2>5, <3>2, <1>1, <1>3, <1>6, UnmovedGood
  <2> QED
    BY <2>4, <2>5
<1>8. Shape(v, Idle)
  BY <1>6, IdleFacts DEF Shape
<1>9. Good(v, Idle)
  BY <1>6, <1>7, <1>8, IdleFacts DEF Good
<1> QED
  BY <1>2, <1>9 DEF w

LEMMA RunEnds ==
  ASSUME Inv, kist_run_ends \/ vanilla_run_ends
  PROVE  Inv'
<1>1. Running(loop) /\ loop.chan = None /\ channels_pending = {} /\ InRun(readd_all(World), Idle)
  BY DEF kist_run_ends, vanilla_run_ends, Running
<1>2. Good(readd_all(World), Idle)
  BY <1>1, Ends
<1> QED
  BY <1>1, <1>2, RunKeeps
-----------------------------------------------------------------------------
(* The steps of a run.                                                     *)
LEMMA Shrinks ==
  ASSUME NEW v, NEW r, Good(v, r), Running(r), NEW c
  PROVE  Good(v, [r EXCEPT !.outbufs = @ \ {c}])
<1> DEFINE m == [r EXCEPT !.outbufs = @ \ {c}]
<1>1. /\ m.at = r.at /\ m.chan = r.chan /\ m.left = r.left /\ m.short = r.short
      /\ m.prev = r.prev /\ m.outbufs = r.outbufs \ {c} /\ m.readd = r.readd
      /\ m.todo = r.todo /\ m \in Loops
  BY DEF Good, Loops
<1> HIDE DEF m
<1>2. ASSUME NEW d \in Channels
      PROVE  ChannelGood(v, m, d)
  <2>1. ChannelGood(v, r, d) /\ Heap(v, r, d)
    BY DEF Good, ChannelGood
  <2>2. Heap(v, m, d)
    BY <1>1, <2>1 DEF Heap, Running
  <2> QED
    BY <2>1, <2>2 DEF ChannelGood
<1>3. Shape(v, m)
  BY <1>1 DEF Shape, Good, Running
<1>4. Good(v, m)
  BY <1>1, <1>2, <1>3 DEF Good
<1> QED
  BY <1>4 DEF m

(* A channel is taken from the heap.                                       *)
LEMMA Pops ==
  ASSUME NEW w, NEW l, Good(w, l), Running(l), l.chan = None, NEW c \in w.pending,
         NEW m \in Loops, m.at = l.at, m.chan = c, m.readd = l.readd, m.todo = l.todo,
         m.prev \in {c, l.prev}, m.outbufs \subseteq l.outbufs \cup {c},
         m.left > 0 /\ m.at = "kist" => m.left = 1 /\ w.chan[c].limit # 0,
         m.short => /\ m.left = 0
                    /\ w.chan[c].state # "OPEN" \/ circuitmux_num_cells(w.chan[c]) = 0
  PROVE  Good([w EXCEPT !.pending = @ \ {c}], m)
<1> DEFINE v == [w EXCEPT !.pending = @ \ {c}]
<1>1. w \in Worlds /\ w.pending \in SUBSET Channels /\ c \in Channels /\ c # None
      /\ w.chan[c] \in ChannelRecords
  BY IdleFacts DEF Good, Worlds
<1>2. /\ v \in Worlds /\ v.circ = w.circ /\ v.pending = w.pending \ {c} /\ v.ev = w.ev
      /\ v.chan = w.chan
  <2>1. w.pending \ {c} \in SUBSET Channels
    BY <1>1
  <2> QED
    BY <1>1, <2>1, SetPending
<1> HIDE DEF v
<1>3. Life(w, c) /\ Heap(w, l, c) /\ Wake(w, c)
  BY <1>1 DEF Good, ChannelGood
<1>4. Touches(w, v, c) /\ SameMux(v.chan[c], w.chan[c])
  BY <1>2 DEF Touches, SameMux
<1>5. LoopTouches(l, m, c)
  BY IdleFacts DEF LoopTouches
<1>6. Life(v, c) /\ Wake(v, c)
  BY <1>2, <1>3 DEF Life, Wake
<1>7. Heap(v, m, c)
  BY <1>2, <1>3 DEF Heap, Running
<1>8. Shape(v, m)
  <2>1. m.at = "kist" => w.chan[c].limit # NoEntry
    BY <1>3 DEF Heap
  <2>2. m.at = "kist" /\ m.left > 0 => m.left = 1 /\ w.chan[c].limit > 0
    BY <1>1, <2>1 DEF ChannelRecords, NoEntry
  <2>3. l.todo = {}
    BY DEF Good, Shape, Running
  <2> QED
    BY <1>1, <1>2, <2>2, <2>3 DEF Shape, Running
<1>9. Good(v, m)
  BY <1>1, <1>4, <1>5, <1>6, <1>7, <1>8, ChannelStep
<1> QED
  BY <1>9 DEF v

(* A run works on no channel: nothing is left to flush.                    *)
LEMMA AtNoChannel ==
  ASSUME Inv, Running(loop), loop.chan = None
  PROVE  loop.left = 0 /\ loop.short = FALSE
<1>1. loop.left \in Nat /\ loop.short \in BOOLEAN /\ Shape(World, loop)
  BY WorldFacts DEF Good, Loops
<1> QED
  BY <1>1 DEF Shape

(* What a scheduler asks of the channel it has taken.                      *)
LEMMA FlushSome ==
  ASSUME Inv, NEW c \in Channels, NEW r \in Loops, r.left = 0, r.short = FALSE,
         NEW n \in Nat
  PROVE  LET m == channel_flush_some_cells(r, c, n) IN
         /\ m \in Loops /\ m.at = r.at /\ m.chan = r.chan /\ m.prev = r.prev
         /\ m.outbufs = r.outbufs /\ m.readd = r.readd /\ m.todo = r.todo
         /\ m.left > 0 => m.left = n
         /\ m.short => /\ m.left = 0
                       /\ chan[c].state # "OPEN" \/ circuitmux_num_cells(chan[c]) = 0
<1> DEFINE m == channel_flush_some_cells(r, c, n)
<1>1. circuitmux_num_cells(chan[c]) \in Nat
  BY WorldFacts DEF circuitmux_num_cells, ChannelRecords
<1>2. CASE chan[c].state = "OPEN" /\ circuitmux_num_cells(chan[c]) > 0
  <2>1. m = [r EXCEPT !.left = n]
    BY <1>2 DEF channel_flush_some_cells
  <2> HIDE DEF m
  <2> QED
    BY <2>1 DEF Loops, m
<1>3. CASE ~(chan[c].state = "OPEN" /\ circuitmux_num_cells(chan[c]) > 0)
  <2>1. m = [r EXCEPT !.short = TRUE]
    BY <1>3 DEF channel_flush_some_cells
  <2>2. chan[c].state # "OPEN" \/ circuitmux_num_cells(chan[c]) = 0
    BY <1>1, <1>3
  <2> HIDE DEF m
  <2>3. /\ m \in Loops /\ m.at = r.at /\ m.chan = r.chan /\ m.prev = r.prev
        /\ m.outbufs = r.outbufs /\ m.readd = r.readd /\ m.todo = r.todo
        /\ m.left = 0
    BY <2>1 DEF Loops
  <2> QED
    BY <2>2, <2>3 DEF m
<1> QED
  BY <1>2, <1>3

LEMMA KistAsks ==
  ASSUME Inv, NEW c \in Channels, NEW q \in Loops, q.left = 0, q.short = FALSE
  PROVE  LET r == IF socket_can_write(chan[c])
                  THEN channel_flush_some_cells(q, c, 1) ELSE q IN
         /\ r \in Loops /\ r.at = q.at /\ r.chan = q.chan /\ r.prev = q.prev
         /\ r.outbufs = q.outbufs /\ r.readd = q.readd /\ r.todo = q.todo
         /\ r.left > 0 => r.left = 1 /\ chan[c].limit # 0
         /\ r.short => /\ r.left = 0
                       /\ chan[c].state # "OPEN" \/ circuitmux_num_cells(chan[c]) = 0
<1> DEFINE r == IF socket_can_write(chan[c])
                THEN channel_flush_some_cells(q, c, 1) ELSE q
<1>1. \/ r = channel_flush_some_cells(q, c, 1) /\ chan[c].limit # 0
      \/ r = q
  BY DEF socket_can_write
<1> HIDE DEF r
<1>2. CASE r = channel_flush_some_cells(q, c, 1) /\ chan[c].limit # 0
  <2>1. /\ r \in Loops /\ r.at = q.at /\ r.chan = q.chan /\ r.prev = q.prev
        /\ r.outbufs = q.outbufs /\ r.readd = q.readd /\ r.todo = q.todo
        /\ r.left > 0 => r.left = 1
        /\ r.short => /\ r.left = 0
                      /\ chan[c].state # "OPEN" \/ circuitmux_num_cells(chan[c]) = 0
    BY <1>2, FlushSome, ZenonT(30)
  <2> QED
    BY <1>2, <2>1 DEF r
<1>3. CASE r = q
  BY <1>3 DEF r
<1> QED
  BY <1>1, <1>2, <1>3

LEMMA KistPops ==
  ASSUME Inv, kist_pop
  PROVE  Inv'
<1> DEFINE w(c) == [World EXCEPT !.pending = @ \ {c}]
           p == loop.prev
           q(c) == [loop EXCEPT !.chan = c, !.prev = c, !.outbufs = @ \cup {c}]
           r(c) == IF socket_can_write(chan[c])
                   THEN channel_flush_some_cells(q(c), c, 1) ELSE q(c)
<1>1. PICK c \in channels_pending :
        IF p # None /\ p # c /\ chan[p].outbuf > KernelBatch
        THEN \E o \in WriteOutcomes(chan[p].outbuf) :
               InRun(connection_handle_write(w(c), p, o),
                     [r(c) EXCEPT !.outbufs = @ \ {p}])
        ELSE InRun(w(c), r(c))
  BY DEF kist_pop
<1>2. /\ Good(World, loop) /\ World \in Worlds /\ World.pending = channels_pending
      /\ World.chan = chan /\ c \in Channels /\ loop \in Loops /\ loop.at = "kist"
      /\ Running(loop) /\ loop.chan = None /\ loop.left = 0 /\ loop.short = FALSE
  BY WorldFacts, AtNoChannel DEF kist_pop, Running
<1>3. /\ q(c) \in Loops /\ q(c).at = "kist" /\ q(c).chan = c /\ q(c).left = 0
      /\ q(c).short = FALSE /\ q(c).prev = c /\ q(c).outbufs = loop.outbufs \cup {c}
      /\ q(c).readd = loop.readd /\ q(c).todo = loop.todo
  BY <1>2 DEF Loops
<1> HIDE DEF q
<1>4. /\ r(c) \in Loops /\ r(c).at = "kist" /\ r(c).chan = c /\ r(c).prev = c
      /\ r(c).outbufs = loop.outbufs \cup {c} /\ r(c).readd = loop.readd
      /\ r(c).todo = loop.todo
      /\ r(c).left > 0 => r(c).left = 1 /\ chan[c].limit # 0
      /\ r(c).short => /\ r(c).left = 0
                       /\ chan[c].state # "OPEN" \/ circuitmux_num_cells(chan[c]) = 0
  BY <1>2, <1>3, KistAsks
<1> HIDE DEF r
<1>5. Good(w(c), r(c))
  BY <1>2, <1>4, Pops
<1>6. CASE p # None /\ p # c /\ chan[p].outbuf > KernelBatch
  <2>1. PICK o \in WriteOutcomes(chan[p].outbuf) :
             InRun(connection_handle_write(w(c), p, o), [r(c) EXCEPT !.outbufs = @ \ {p}])
    BY <1>1, <1>6
  <2>2. p \in Channels
    BY <1>2, <1>6 DEF Loops
  <2>3. w(c).chan = chan
    BY DEF World
  <2>4. chan[p].conn = "ok" => chan[p].limit # NoEntry
    <3>1. Heap(World, loop, p)
      BY <1>2, <2>2 DEF Good, ChannelGood
    <3> QED
      BY <3>1, <1>2 DEF Heap
  <2> HIDE DEF w
  <2>5. Good(connection_handle_write(w(c), p, o), r(c))
    BY <1>4, <1>5, <1>6, <2>2, <2>3, <2>4, HandleWrite
  <2>6. Good(connection_handle_write(w(c), p, o), [r(c) EXCEPT !.outbufs = @ \ {p}])
    BY <1>4, <2>5, Shrinks DEF Running
  <2> QED
    BY <2>1, <2>6, RunKeeps
<1>7. CASE ~(p # None /\ p # c /\ chan[p].outbuf > KernelBatch)
  <2>1. InRun(w(c), r(c))
    BY <1>1, <1>7
  <2> HIDE DEF w
  <2> QED
    BY <2>1, <1>5, RunKeeps
<1> QED
  BY <1>6, <1>7

LEMMA KistWrites ==
  ASSUME Inv, kist_write_outbuf
  PROVE  Inv'
<1>1. PICK c \in loop.outbufs :
        \E o \in IF chan[c].outbuf = 0 THEN {[result |-> "done", sent |-> 0]}
                 ELSE WriteOutcomes(chan[c].outbuf) :
          InRun(connection_handle_write(World, c, o), [loop EXCEPT !.outbufs = @ \ {c}])
  BY DEF kist_write_outbuf
<1>2. PICK o \in WriteOutcomes(chan[c].outbuf) \cup {[result |-> "done", sent |-> 0]} :
          InRun(connection_handle_write(World, c, o), [loop EXCEPT !.outbufs = @ \ {c}])
  BY <1>1
<1>3. /\ Good(World, loop) /\ World.chan = chan /\ loop.at = "kist" /\ Running(loop)
      /\ c \in Channels /\ loop.chan # c
  BY WorldFacts, IdleFacts DEF kist_write_outbuf, Running, Loops
<1>4. chan[c].conn = "ok" => chan[c].limit # NoEntry
  <2>1. Heap(World, loop, c)
    BY <1>3 DEF Good, ChannelGood
  <2> QED
    BY <2>1, <1>3 DEF Heap
<1>5. Good(connection_handle_write(World, c, o), loop)
  BY <1>3, <1>4, HandleWrite
<1>6. Good(connection_handle_write(World, c, o), [loop EXCEPT !.outbufs = @ \ {c}])
  BY <1>3, <1>5, Shrinks
<1> QED
  BY <1>2, <1>6, RunKeeps

LEMMA SetSchedFields ==
  ASSUME NEW w \in Worlds, NEW c \in Channels,
         NEW s \in {"IDLE", "WAITING_FOR_CELLS", "WAITING_TO_WRITE", "PENDING"}
  PROVE  /\ LET v == SetSched(w, c, s) IN
            /\ Touches(w, v, c) /\ v.pending = w.pending
            /\ Unmoved(w.chan[c], v.chan[c]) /\ v.chan[c].limit = w.chan[c].limit
            /\ v.chan[c].sched = s
         /\ LET v == AddPending(w, c) IN
            /\ Touches(w, v, c) /\ v.pending = w.pending \cup {c}
            /\ Unmoved(w.chan[c], v.chan[c]) /\ v.chan[c].limit = w.chan[c].limit
            /\ v.chan[c].sched = "PENDING"
<1> DEFINE v == SetSched(w, c, s)
           u == AddPending(w, c)
<1>1. w.chan[c] \in ChannelRecords
  BY DEF Worlds
<1>2. /\ Touches(w, v, c) /\ v.pending = w.pending
      /\ v.chan[c] = [w.chan[c] EXCEPT !.sched = s]
  <2>1. CASE s = "IDLE"
    BY <2>1, SetSchedIs
  <2>2. CASE s = "WAITING_FOR_CELLS"
    BY <2>2, SetSchedIs
  <2>3. CASE s = "WAITING_TO_WRITE"
    BY <2>3, SetSchedIs
  <2>4. CASE s = "PENDING"
    BY <2>4, SetSchedIs
  <2> QED
    BY <2>1, <2>2, <2>3, <2>4
<1>3. /\ Touches(w, u, c) /\ u.pending = w.pending \cup {c}
      /\ u.chan[c] = [w.chan[c] EXCEPT !.sched = "PENDING"]
  BY AddPendingIs
<1> HIDE DEF u, v
<1>4. /\ Unmoved(w.chan[c], v.chan[c]) /\ v.chan[c].limit = w.chan[c].limit
      /\ v.chan[c].sched = s
  BY <1>1, <1>2 DEF ChannelRecords, Unmoved, SameMux
<1>5. /\ Unmoved(w.chan[c], u.chan[c]) /\ u.chan[c].limit = w.chan[c].limit
      /\ u.chan[c].sched = "PENDING"
  BY <1>1, <1>3 DEF ChannelRecords, Unmoved, SameMux
<1>6. Touches(w, v, c) /\ v.pending = w.pending
  BY <1>2
<1>7. Touches(w, u, c) /\ u.pending = w.pending \cup {c}
  BY <1>3
<1> QED
  BY <1>4, <1>5, <1>6, <1>7 DEF u, v

LEMMA NothingQueued ==
  ASSUME NEW w, NEW l, Good(w, l), NEW c \in Channels, ~channel_more_to_flush(w.chan[c])
  PROVE  \A k \in Circuits : w.circ[k].queue[c] = 0
<1>1. w.chan[c] \in ChannelRecords /\ Mux(w, c)
  BY DEF Good, ChannelGood, Worlds
<1>2. circuitmux_num_cells(w.chan[c]) = 0
  BY <1>1 DEF channel_more_to_flush, circuitmux_num_cells, ChannelRecords
<1>3. \A k \in Circuits : w.chan[c].count[k] <= 0
  BY <1>1, <1>2, NoneCounted DEF Mux, Totals
<1> SUFFICES ASSUME NEW k \in Circuits
             PROVE  w.circ[k].queue[c] = 0
  OBVIOUS
<1>4. w.chan[c].count[k] \in {Detached} \cup Nat /\ w.circ[k].queue[c] \in Nat
  BY <1>1 DEF Good, Worlds, ChannelRecords, CircuitRecords, Counts
<1>5. Entry(w, c, k)
  BY <1>1 DEF Mux
<1> QED
  BY <1>3, <1>4, <1>5 DEF Entry

(* A run has decided on the channel it had taken.                          *)
LEMMA Decides ==
  ASSUME NEW w, NEW l, Good(w, l), Running(l), NEW c \in Channels, c = l.chan,
         l.left = 0, NEW v, Touches(w, v, c),
         Unmoved(w.chan[c], v.chan[c]), v.chan[c].limit = w.chan[c].limit,
         NEW m \in Loops, m.at = l.at, m.chan = None, m.left = 0, m.short = FALSE,
         m.prev = l.prev, m.outbufs = l.outbufs, m.todo = l.todo,
         m.readd \in {l.readd, l.readd \cup {c}},
         c \in v.pending => v.chan[c].sched = "PENDING",
         v.chan[c].sched = "PENDING" => c \in v.pending \cup m.readd,
         Wake(v, c)
  PROVE  Good(v, m)
<1>1. Life(w, c) /\ Heap(w, l, c)
  BY DEF Good, ChannelGood
<1>2. Life(v, c)
  BY <1>1 DEF Life, Unmoved, Touches
<1>3. c # None
  BY IdleFacts
<1>4. Heap(v, m, c)
  BY <1>1, <1>3 DEF Heap, Unmoved, Running
<1>5. Shape(v, m)
  BY <1>3 DEF Shape, Good, Running
<1>6. LoopTouches(l, m, c)
  BY <1>3, IdleFacts DEF LoopTouches
<1> QED
  BY <1>2, <1>4, <1>5, <1>6, ChannelStep DEF Unmoved

(* It sets the channel to state s of the scheduler, or leaves it to the    *)
(* end of the run.                                                         *)
LEMMA DecidesState ==
  ASSUME NEW w, NEW l, Good(w, l), Running(l), NEW c \in Channels, c = l.chan,
         l.left = 0,
         NEW m \in Loops, m.at = l.at, m.chan = None, m.left = 0, m.short = FALSE,
         m.prev = l.prev, m.outbufs = l.outbufs, m.todo = l.todo, m.readd = l.readd,
         NEW s \in {"IDLE", "WAITING_FOR_CELLS", "WAITING_TO_WRITE"},
         w.chan[c].state = "OPEN" =>
           /\ s \in {"IDLE", "WAITING_TO_WRITE"} => w.chan[c].outbuf > 0
           /\ s \in {"IDLE", "WAITING_FOR_CELLS"} =>
                ~channel_more_to_flush(w.chan[c])
  PROVE  Good(SetSched(w, c, s), m)
<1> DEFINE v == SetSched(w, c, s)
<1>1. w \in Worlds /\ w.chan[c] \in ChannelRecords /\ c \notin w.pending
  BY DEF Good, Worlds, ChannelGood, Heap
<1>2. s \in {"IDLE", "WAITING_FOR_CELLS", "WAITING_TO_WRITE", "PENDING"}
  OBVIOUS
<1>3. /\ Touches(w, v, c) /\ v.pending = w.pending
      /\ Unmoved(w.chan[c], v.chan[c]) /\ v.chan[c].limit = w.chan[c].limit
      /\ v.chan[c].sched = s
  BY <1>1, <1>2, SetSchedFields
<1> HIDE DEF v
<1>4. Wake(v, c)
  BY <1>2, <1>3, NothingQueued DEF Wake, Unmoved, Touches
<1>5. /\ m.readd \in {l.readd, l.readd \cup {c}}
      /\ c \in v.pending => v.chan[c].sched = "PENDING"
      /\ v.chan[c].sched = "PENDING" => c \in v.pending \cup m.readd
  BY <1>1, <1>2, <1>3
<1>6. Good(v, m)
  BY <1>2, <1>3, <1>4, <1>5, Decides, ZenonT(30)
<1> QED
  BY <1>6 DEF v

LEMMA DecidesReadd ==
  ASSUME NEW w, NEW l, Good(w, l), Running(l), NEW c \in Channels, c = l.chan,
         l.left = 0,
         NEW m \in Loops, m.at = l.at, m.chan = None, m.left = 0, m.short = FALSE,
         m.prev = l.prev, m.outbufs = l.outbufs, m.todo = l.todo,
         m.readd = l.readd \cup {c}
  PROVE  Good(w, m)
<1>1. w \in Worlds /\ Wake(w, c) /\ Heap(w, l, c)
  BY DEF Good, ChannelGood
<1>2. Touches(w, w, c) /\ Unmoved(w.chan[c], w.chan[c])
  BY <1>1 DEF Touches, Unmoved, SameMux
<1>3. c \in w.pending => w.chan[c].sched = "PENDING"
  BY <1>1 DEF Heap
<1> QED
  BY <1>1, <1>2, <1>3, Decides

LEMMA DecidesPending ==
  ASSUME NEW w, NEW l, Good(w, l), Running(l), NEW c \in Channels, c = l.chan,
         l.left = 0,
         NEW m \in Loops, m.at = l.at, m.chan = None, m.left = 0, m.short = FALSE,
         m.prev = l.prev, m.outbufs = l.outbufs, m.todo = l.todo, m.readd = l.readd
  PROVE  Good(AddPending(w, c), m)
<1> DEFINE v == AddPending(w, c)
<1>1. w \in Worlds /\ w.chan[c] \in ChannelRecords
  BY DEF Good, Worlds
<1>2. "PENDING" \in {"IDLE", "WAITING_FOR_CELLS", "WAITING_TO_WRITE", "PENDING"}
  OBVIOUS
<1>3. /\ Touches(w, v, c) /\ v.pending = w.pending \cup {c}
      /\ Unmoved(w.chan[c], v.chan[c]) /\ v.chan[c].limit = w.chan[c].limit
      /\ v.chan[c].sched = "PENDING"
  BY <1>1, <1>2, SetSchedFields
<1> HIDE DEF v
<1>4. Wake(v, c)
  BY <1>3 DEF Wake
<1>5. /\ m.readd \in {l.readd, l.readd \cup {c}}
      /\ c \in v.pending => v.chan[c].sched = "PENDING"
      /\ v.chan[c].sched = "PENDING" => c \in v.pending \cup m.readd
  BY <1>2, <1>3
<1>6. Good(v, m)
  BY <1>2, <1>3, <1>4, <1>5, Decides
<1> QED
  BY <1>6 DEF v

(* The channel a run works on.                                             *)
LEMMA AtChannel ==
  ASSUME Inv, Running(loop), loop.chan # None
  PROVE  /\ loop.chan \in Channels
         /\ loop.short => ~channel_more_to_flush(chan[loop.chan])
                          \/ chan[loop.chan].state # "OPEN"
<1>1. loop.chan \in Channels /\ Shape(World, loop) /\ World.chan = chan
  BY WorldFacts DEF Good, Loops
<1>2. chan[loop.chan] \in ChannelRecords
  BY <1>1, WorldFacts
<1> QED
  BY <1>1, <1>2 DEF Shape, channel_more_to_flush

(* The callback when a run has decided on its channel.                     *)
LEMMA NextChannel ==
  ASSUME NEW l \in Loops, l.left = 0
  PROVE  LET r == [l EXCEPT !.chan = None, !.short = FALSE] IN
         /\ r \in Loops /\ r.at = l.at /\ r.chan = None /\ r.left = 0
         /\ r.short = FALSE /\ r.prev = l.prev /\ r.outbufs = l.outbufs
         /\ r.todo = l.todo /\ r.readd = l.readd
BY DEF Loops

LEMMA ReaddLater ==
  ASSUME NEW r \in Loops, NEW c \in Channels
  PROVE  LET m == [r EXCEPT !.readd = @ \cup {c}] IN
         /\ m \in Loops /\ m.at = r.at /\ m.chan = r.chan /\ m.left = r.left
         /\ m.short = r.short /\ m.prev = r.prev /\ m.outbufs = r.outbufs
         /\ m.todo = r.todo /\ m.readd = r.readd \cup {c}
BY DEF Loops

LEMMA KistServes ==
  ASSUME Inv, kist_serve
  PROVE  Inv'
<1> DEFINE c == loop.chan
           r == [loop EXCEPT !.chan = None, !.short = FALSE]
           full == channel_more_to_flush(chan[c]) /\ ~socket_can_write(chan[c])
<1>1. /\ loop.at = "kist" /\ c # None /\ loop.left = 0 /\ Running(loop)
  BY DEF kist_serve, Running
<1>2. /\ Good(World, loop) /\ World.chan = chan /\ c \in Channels /\ loop \in Loops
      /\ loop.short => ~channel_more_to_flush(chan[c]) \/ chan[c].state # "OPEN"
      /\ loop.short \in BOOLEAN
  BY <1>1, WorldFacts, AtChannel DEF Loops
<1>3. /\ r \in Loops /\ r.at = loop.at /\ r.chan = None /\ r.left = 0
      /\ r.short = FALSE /\ r.prev = loop.prev /\ r.outbufs = loop.outbufs
      /\ r.todo = loop.todo /\ r.readd = loop.readd
  BY <1>1, <1>2, NextChannel
<1>4. CASE loop.short /\ chan[c].state # "OPEN"
  <2>1. InRun(SetSched(World, c, "IDLE"), r)
    BY <1>4 DEF kist_serve
  <2> HIDE DEF r, c
  <2>2. Good(SetSched(World, c, "IDLE"), r)
    BY <1>1, <1>2, <1>3, <1>4, DecidesState DEF c
  <2> QED
    BY <2>1, <2>2, RunKeeps
<1>5. CASE loop.short /\ chan[c].state = "OPEN"
  <2>1. InRun(SetSched(World, c, "WAITING_FOR_CELLS"), r)
    BY <1>5 DEF kist_serve
  <2> HIDE DEF r, c
  <2>2. Good(SetSched(World, c, "WAITING_FOR_CELLS"), r)
    BY <1>1, <1>2, <1>3, <1>5, DecidesState DEF c
  <2> QED
    BY <2>1, <2>2, RunKeeps
<1>6. CASE ~loop.short
  <2>1. InRun(kist_decide(World, c),
              [r EXCEPT !.readd = IF full THEN @ \cup {c} ELSE @])
    BY <1>6 DEF kist_serve
  <2>2. CASE ~channel_more_to_flush(chan[c])
    <3>1. kist_decide(World, c) = SetSched(World, c, "WAITING_FOR_CELLS")
      BY <1>2, <2>2 DEF kist_decide
    <3>2. [r EXCEPT !.readd = IF full THEN @ \cup {c} ELSE @] = r
      BY <1>3, <2>2 DEF Loops
    <3> HIDE DEF r, c
    <3>3. Good(SetSched(World, c, "WAITING_FOR_CELLS"), r)
      BY <1>1, <1>2, <1>3, <2>2, DecidesState DEF c
    <3> QED
      BY <2>1, <3>1, <3>2, <3>3, RunKeeps
  <2>3. CASE channel_more_to_flush(chan[c]) /\ socket_can_write(chan[c])
    <3>1. kist_decide(World, c) = AddPending(World, c)
      BY <1>2, <2>3 DEF kist_decide
    <3>2. [r EXCEPT !.readd = IF full THEN @ \cup {c} ELSE @] = r
      BY <1>3, <2>3 DEF Loops
    <3> HIDE DEF r, c
    <3>3. Good(AddPending(World, c), r)
      BY <1>1, <1>2, <1>3, DecidesPending DEF c
    <3> QED
      BY <2>1, <3>1, <3>2, <3>3, RunKeeps
  <2>4. CASE full
    <3> DEFINE m == [r EXCEPT !.readd = @ \cup {c}]
    <3>1. kist_decide(World, c) = World
      BY <1>2, <2>4 DEF kist_decide
    <3>2. [r EXCEPT !.readd = IF full THEN @ \cup {c} ELSE @] = m
      BY <2>4
    <3> HIDE DEF r
    <3>3. /\ m \in Loops /\ m.at = r.at /\ m.chan = r.chan /\ m.left = r.left
          /\ m.short = r.short /\ m.prev = r.prev /\ m.outbufs = r.outbufs
          /\ m.todo = r.todo /\ m.readd = r.readd \cup {c}
      BY <1>2, <1>3, ReaddLater
    <3> HIDE DEF m, c
    <3>4. Good(World, m)
      BY <1>1, <1>2, <1>3, <3>3, DecidesReadd, ZenonT(30) DEF c
    <3> QED
      BY <2>1, <3>1, <3>2, <3>4, RunKeeps
  <2> QED
    BY <2>2, <2>3, <2>4
<1> QED
  BY <1>2, <1>4, <1>5, <1>6

(* An outbuf without room is not empty.                                    *)
LEMMA NoRoom ==
  ASSUME NEW x \in ChannelRecords
  PROVE  /\ channel_tls_num_cells_writeable(x) \in Nat
         /\ ~(channel_tls_num_cells_writeable(x) > 0) => x.outbuf > 0
<1>1. x.outbuf \in Nat
  BY DEF ChannelRecords
<1>2. or_conn_highwater \in Nat /\ or_conn_highwater > 0 /\ INT_MAX \in Nat /\ INT_MAX > 0
  BY SchedulerAssumption DEF SchedulerAssumption
<1> QED
  BY <1>1, <1>2 DEF channel_tls_num_cells_writeable

LEMMA VanillaPops ==
  ASSUME Inv, vanilla_pop
  PROVE  Inv'
<1> DEFINE w(c) == [World EXCEPT !.pending = @ \ {c}]
           n(c) == channel_tls_num_cells_writeable(chan[c])
           q(c) == [loop EXCEPT !.chan = c]
           r(c) == channel_flush_some_cells(q(c), c, n(c))
<1>1. PICK c \in channels_pending :
        IF n(c) > 0 THEN InRun(w(c), r(c))
        ELSE InRun(SetSched(w(c), c, "WAITING_TO_WRITE"), loop)
  BY DEF vanilla_pop
<1>2. /\ Good(World, loop) /\ World \in Worlds /\ World.pending = channels_pending
      /\ World.chan = chan /\ c \in Channels /\ loop \in Loops /\ loop.at = "vanilla"
      /\ Running(loop) /\ loop.chan = None /\ loop.left = 0 /\ loop.short = FALSE
      /\ chan[c] \in ChannelRecords /\ n(c) \in Nat /\ channels_pending \in SUBSET Channels
  BY WorldFacts, AtNoChannel, NoRoom DEF vanilla_pop, Running
<1>3. CASE n(c) > 0
  <2>1. InRun(w(c), r(c))
    BY <1>1, <1>3
  <2>2. /\ q(c) \in Loops /\ q(c).at = "vanilla" /\ q(c).chan = c /\ q(c).left = 0
        /\ q(c).short = FALSE /\ q(c).prev = loop.prev /\ q(c).outbufs = loop.outbufs
        /\ q(c).readd = loop.readd /\ q(c).todo = loop.todo
    BY <1>2 DEF Loops
  <2> HIDE DEF q, n
  <2>3. /\ r(c) \in Loops /\ r(c).at = q(c).at /\ r(c).chan = q(c).chan
        /\ r(c).prev = q(c).prev
        /\ r(c).outbufs = q(c).outbufs /\ r(c).readd = q(c).readd /\ r(c).todo = q(c).todo
        /\ r(c).short => /\ r(c).left = 0
                         /\ chan[c].state # "OPEN" \/ circuitmux_num_cells(chan[c]) = 0
    BY <1>2, <2>2, FlushSome
  <2> HIDE DEF r
  <2>4. Good(w(c), r(c))
    BY <1>2, <2>2, <2>3, Pops
  <2> HIDE DEF w
  <2> QED
    BY <2>1, <2>4, RunKeeps
<1>4. CASE ~(n(c) > 0)
  <2> DEFINE u == w(c)
             v == SetSched(u, c, "WAITING_TO_WRITE")
  <2>1. InRun(v, loop)
    BY <1>1, <1>4
  <2>2. chan[c].outbuf > 0
    BY <1>2, <1>4, NoRoom
  <2>3. /\ u \in Worlds /\ u.circ = World.circ /\ u.pending = channels_pending \ {c}
        /\ u.ev = World.ev /\ u.chan = chan
    <3>1. World.pending \ {c} \in SUBSET Channels
      BY <1>2
    <3> QED
      BY <1>2, <3>1, SetPending
  <2> HIDE DEF u
  <2>4. /\ Touches(u, v, c) /\ v.pending = u.pending
        /\ Unmoved(u.chan[c], v.chan[c]) /\ v.chan[c].limit = u.chan[c].limit
        /\ v.chan[c].sched = "WAITING_TO_WRITE"
    BY <1>2, <2>3, SetSchedFields
  <2> HIDE DEF v
  <2>5. Touches(World, v, c)
    BY <1>2, <2>3, <2>4 DEF Touches
  <2>6. Life(World, c) /\ Heap(World, loop, c)
    BY <1>2 DEF Good, ChannelGood
  <2>7. Life(v, c)
    BY <1>2, <2>3, <2>4, <2>5, <2>6 DEF Life, Unmoved, Touches
  <2>8. Heap(v, loop, c)
    BY <1>2, <2>3, <2>4, <2>6 DEF Heap, Unmoved
  <2>9. Wake(v, c)
    BY <2>2, <2>3, <2>4 DEF Wake, Unmoved
  <2>10. Shape(v, loop)
    BY <1>2, IdleFacts DEF Shape, Good
  <2>11. Good(v, loop)
    BY <1>2, <2>3, <2>4, <2>5, <2>7, <2>8, <2>9, <2>10, ChannelStep, LoopSame DEF Unmoved
  <2> QED
    BY <2>1, <2>11, RunKeeps
<1> QED
  BY <1>3, <1>4

LEMMA VanillaDecides ==
  ASSUME Inv, vanilla_decide
  PROVE  Inv'
<1> DEFINE c == loop.chan
           r == [loop EXCEPT !.chan = None, !.short = FALSE]
           more == channel_more_to_flush(chan[c])
           writeable == channel_tls_num_cells_writeable(chan[c]) > 0
           s == IF loop.short THEN "WAITING_FOR_CELLS"
                ELSE IF more THEN "WAITING_TO_WRITE"
                ELSE IF writeable THEN "WAITING_FOR_CELLS" ELSE "IDLE"
<1>1. /\ loop.at = "vanilla" /\ c # None /\ loop.left = 0 /\ Running(loop)
  BY DEF vanilla_decide, Running
<1>2. /\ Good(World, loop) /\ World.chan = chan /\ c \in Channels /\ loop \in Loops
      /\ loop.short => ~more \/ chan[c].state # "OPEN"
      /\ chan[c] \in ChannelRecords
  BY <1>1, WorldFacts, AtChannel DEF Loops
<1>3. /\ r \in Loops /\ r.at = loop.at /\ r.chan = None /\ r.left = 0
      /\ r.short = FALSE /\ r.prev = loop.prev /\ r.outbufs = loop.outbufs
      /\ r.todo = loop.todo /\ r.readd = loop.readd
  BY <1>1, <1>2, NextChannel
<1>4. CASE ~loop.short /\ more /\ writeable
  <2> DEFINE m == [r EXCEPT !.readd = @ \cup {c}]
  <2>1. InRun(World, m)
    BY <1>4 DEF vanilla_decide
  <2> HIDE DEF r
  <2>2. /\ m \in Loops /\ m.at = r.at /\ m.chan = r.chan /\ m.left = r.left
        /\ m.short = r.short /\ m.prev = r.prev /\ m.outbufs = r.outbufs
        /\ m.todo = r.todo /\ m.readd = r.readd \cup {c}
    BY <1>2, <1>3, ReaddLater
  <2> HIDE DEF m, c
  <2>3. Good(World, m)
    BY <1>1, <1>2, <1>3, <2>2, DecidesReadd, ZenonT(30) DEF c
  <2> QED
    BY <2>1, <2>3, RunKeeps
<1>5. CASE ~(~loop.short /\ more /\ writeable)
  <2>1. InRun(SetSched(World, c, s), r)
    BY <1>5 DEF vanilla_decide
  <2>2. /\ s \in {"IDLE", "WAITING_FOR_CELLS", "WAITING_TO_WRITE"}
        /\ chan[c].state = "OPEN" =>
             /\ s \in {"IDLE", "WAITING_TO_WRITE"} => chan[c].outbuf > 0
             /\ s \in {"IDLE", "WAITING_FOR_CELLS"} => ~more
    <3>1. ~writeable => chan[c].outbuf > 0
      BY <1>2, NoRoom
    <3> QED
      BY <1>2, <1>5, <3>1
  <2> HIDE DEF r, s, c
  <2>3. Good(SetSched(World, c, s), r)
    <3>1. CASE s = "IDLE"
      BY <1>1, <1>2, <1>3, <2>2, <3>1, DecidesState DEF c
    <3>2. CASE s = "WAITING_FOR_CELLS"
      BY <1>1, <1>2, <1>3, <2>2, <3>2, DecidesState DEF c
    <3>3. CASE s = "WAITING_TO_WRITE"
      BY <1>1, <1>2, <1>3, <2>2, <3>3, DecidesState DEF c
    <3> QED
      BY <2>2, <3>1, <3>2, <3>3
  <2> QED
    BY <2>1, <2>3, RunKeeps
<1> QED
  BY <1>4, <1>5
-----------------------------------------------------------------------------
(* The flushing of one cell.                                               *)
Flushed(x, y) == /\ y.state = x.state /\ y.sched = x.sched /\ y.conn = x.conn
                 /\ y.limit = x.limit /\ y.outbuf = x.outbuf + 1

LEMMA SendDestroy ==
  ASSUME NEW x \in ChannelRecords, x.destroys > 0
  PROVE  LET y == send_destroy_cell(x) IN
         y \in ChannelRecords /\ SameMux(y, x) /\ Flushed(x, y)
<1> DEFINE y == send_destroy_cell(x)
<1>1. x.destroys - 1 \in Nat /\ x.outbuf + 1 \in Nat
  BY DEF ChannelRecords
<1>2. y \in ChannelRecords
  BY <1>1 DEF ChannelRecords, send_destroy_cell
<1>3. SameMux(y, x) /\ y.outbuf = x.outbuf + 1
  BY DEF ChannelRecords, send_destroy_cell, SameMux
<1>4. y.state = x.state /\ y.sched = x.sched /\ y.conn = x.conn /\ y.limit = x.limit
  BY DEF ChannelRecords, send_destroy_cell
<1> QED
  BY <1>2, <1>3, <1>4 DEF Flushed

LEMMA SendRelay ==
  ASSUME NEW x \in ChannelRecords, Totals(x), NEW k \in Circuits, x.count[k] > 0,
         NEW n \in Nat
  PROVE  LET y == send_relay_cell(x, k, n) IN
         /\ y \in ChannelRecords /\ Totals(y) /\ Flushed(x, y)
         /\ y.count = [x.count EXCEPT ![k] = n]
<1> DEFINE u == circuitmux_notify_xmit_cells(x, k)
           t == circuitmux_set_num_cells(u, k, n)
           y == [t EXCEPT !.last_cell_was_destroy = FALSE, !.outbuf = @ + 1]
<1>1. x.count \in Counts /\ x.count[k] \in Nat /\ x.count[k] # Detached
      /\ x.count[k] - 1 \in Nat
  <2>1. x.count \in Counts
    BY DEF ChannelRecords
  <2>2. x.count[k] \in {Detached} \cup Nat
    BY <2>1 DEF Counts
  <2> QED
    BY <2>1, <2>2 DEF Detached
<1>2. /\ u \in ChannelRecords /\ Totals(u) /\ SameBut(u, x)
      /\ u.count = [x.count EXCEPT ![k] = x.count[k] - 1]
  BY <1>1, SetNumCells DEF circuitmux_notify_xmit_cells
<1> HIDE DEF u
<1>3. u \in ChannelRecords /\ Totals(u) /\ u.count[k] # Detached
  BY <1>1, <1>2 DEF Counts, Detached
<1>4. /\ t \in ChannelRecords /\ Totals(t) /\ SameBut(t, u)
      /\ t.count = [u.count EXCEPT ![k] = n]
  BY <1>3, SetNumCells
<1>5. send_relay_cell(x, k, n) = y
  BY DEF send_relay_cell, u
<1> HIDE DEF t
<1>6. t.outbuf + 1 \in Nat
  BY <1>4 DEF ChannelRecords
<1>7. y \in ChannelRecords
  BY <1>4, <1>6 DEF ChannelRecords
<1>8. y.outbuf = t.outbuf + 1 /\ y.count = t.count /\ SameMux(y, t)
  BY <1>4 DEF ChannelRecords, SameMux
<1>9. y.state = t.state /\ y.sched = t.sched /\ y.conn = t.conn /\ y.limit = t.limit
  BY <1>4 DEF ChannelRecords
<1> HIDE DEF y
<1>10. Totals(y)
  BY <1>4, <1>8, TotalsDepend DEF SameMux
<1>11. Flushed(x, y)
  BY <1>2, <1>4, <1>8, <1>9 DEF Flushed, SameBut
<1>12. t.count = [x.count EXCEPT ![k] = n]
  BY <1>1, <1>2, <1>4 DEF Counts
<1> QED
  BY <1>5, <1>7, <1>8, <1>10, <1>11, <1>12

(* KIST counts it against the limit.                                       *)
LEMMA SocketWritten ==
  ASSUME NEW x \in ChannelRecords, loop.at = "kist" => x.limit > 0
  PROVE  LET y == update_socket_written(x) IN
         /\ y \in ChannelRecords /\ SameMux(y, x) /\ y.state = x.state
         /\ y.sched = x.sched /\ y.conn = x.conn /\ y.outbuf = x.outbuf
         /\ y.limit = NoEntry <=> x.limit = NoEntry
<1> DEFINE y == update_socket_written(x)
<1>1. CASE loop.at = "kist"
  <2>1. x.limit \in {NoEntry} \cup Nat
    BY DEF ChannelRecords
  <2>2. x.limit - 1 \in Nat /\ x.limit # NoEntry /\ x.limit - 1 # NoEntry
    BY <1>1, <2>1 DEF NoEntry
  <2>3. y = [x EXCEPT !.limit = x.limit - 1]
    BY <1>1 DEF update_socket_written
  <2> HIDE DEF y
  <2>4. y \in ChannelRecords
    BY <2>2, <2>3 DEF ChannelRecords
  <2>5. SameMux(y, x) /\ y.limit = x.limit - 1
    BY <2>3 DEF ChannelRecords, SameMux
  <2>6. y.state = x.state /\ y.sched = x.sched /\ y.conn = x.conn /\ y.outbuf = x.outbuf
    BY <2>3 DEF ChannelRecords
  <2> QED
    BY <2>2, <2>4, <2>5, <2>6 DEF y
<1>2. CASE loop.at # "kist"
  <2>1. y = x
    BY <1>2 DEF update_socket_written
  <2> HIDE DEF y
  <2> QED
    BY <2>1 DEF y, SameMux
<1> QED
  BY <1>1, <1>2

(* Where cells are flushed.                                                *)
LEMMA FlushFacts ==
  ASSUME Inv, loop.left > 0
  PROVE  /\ loop.at \in {"kist", "vanilla", "circuits"} /\ loop.chan \in Channels
         /\ loop.todo = {}
         /\ loop.at = "circuits" => loop.readd = {}
         /\ Running(loop) => loop.short = FALSE
         /\ loop.at = "kist" => loop.left = 1 /\ chan[loop.chan].limit > 0
         /\ channels_pending # {} => run_sched_ev \/ Running(loop)
<1>1. /\ loop \in Loops /\ Shape(World, loop) /\ World.chan = chan
      /\ World.pending = channels_pending /\ World.ev = run_sched_ev
  BY WorldFacts DEF Good
<1>2. loop.left \in Nat /\ loop.left # 0 /\ loop.short \in BOOLEAN
  BY <1>1 DEF Loops
<1>3. loop.at # "idle"
  BY <1>1, <1>2, IdleFacts DEF Shape
<1>4. loop.at # "connections"
  <2>1. [Idle EXCEPT !.at = "connections", !.todo = loop.todo].left = 0
    BY DEF Idle
  <2> QED
    BY <1>1, <1>2, <2>1 DEF Shape
<1>5. loop.at \in {"kist", "vanilla", "circuits"}
  BY <1>1, <1>3, <1>4 DEF Loops
<1>6. loop.chan \in Channels
  BY <1>1 DEF Loops, Shape
<1>7. loop.todo = {}
  BY <1>1, <1>4 DEF Shape
<1>8. Running(loop) => loop.short = FALSE
  BY <1>1, <1>2 DEF Shape
<1> QED
  BY <1>1, <1>5, <1>6, <1>7, <1>8 DEF Shape

(* A step that leaves fewer cells to flush, or the same number.            *)
LEMMA FlushShape ==
  ASSUME Inv, loop.left > 0, NEW v, v.pending = channels_pending, v.ev = run_sched_ev,
         NEW m \in Loops, m.at = loop.at, m.chan = loop.chan, m.short = loop.short,
         m.readd = loop.readd, m.todo = loop.todo, m.left \in {loop.left, loop.left - 1},
         m.at = "kist" /\ m.left > 0 => v.chan[loop.chan].limit > 0
  PROVE  Shape(v, m)
<1>1. /\ loop.at \in {"kist", "vanilla", "circuits"} /\ loop.chan \in Channels
      /\ loop.todo = {}
      /\ loop.at = "circuits" => loop.readd = {}
      /\ Running(loop) => loop.short = FALSE
      /\ loop.at = "kist" => loop.left = 1 /\ chan[loop.chan].limit > 0
      /\ channels_pending # {} => run_sched_ev \/ Running(loop)
  BY FlushFacts
<1>2. loop.chan # None
  BY <1>1, IdleFacts
<1>3. m.at = "kist" /\ m.left > 0 => m.left = 1
  BY <1>1
<1>4. /\ ~(Running(m) /\ m.short) /\ m.at # "idle" /\ m.at # "connections"
      /\ m.chan # None /\ m.todo = {}
  BY <1>1, <1>2 DEF Running
<1>5. v.pending # {} => v.ev \/ Running(m)
  BY <1>1 DEF Running
<1>6. m.at = "circuits" => m.readd = {}
  BY <1>1
<1> QED
  BY <1>3, <1>4, <1>5, <1>6 DEF Shape

LEMMA OneLess ==
  ASSUME NEW l \in Loops, l.left > 0
  PROVE  LET m == [l EXCEPT !.left = @ - 1] IN
         /\ m \in Loops /\ m.at = l.at /\ m.chan = l.chan /\ m.left = l.left - 1
         /\ m.short = l.short /\ m.prev = l.prev /\ m.outbufs = l.outbufs
         /\ m.readd = l.readd /\ m.todo = l.todo
BY DEF Loops

LEMMA DestroyFlushed ==
  ASSUME Inv, loop.left > 0, NEW c \in Channels, c = loop.chan, chan[c].destroys > 0
  PROVE  Good([World EXCEPT !.chan[c] = update_socket_written(send_destroy_cell(chan[c]))],
              [loop EXCEPT !.left = @ - 1])
<1> DEFINE x == chan[c]
           z == send_destroy_cell(x)
           y == update_socket_written(z)
           v == [World EXCEPT !.chan[c] = y]
           m == [loop EXCEPT !.left = @ - 1]
<1>1. /\ Good(World, loop) /\ World \in Worlds /\ World.chan = chan
      /\ World.pending = channels_pending /\ World.ev = run_sched_ev
      /\ x \in ChannelRecords /\ loop \in Loops
      /\ loop.at = "kist" => x.limit > 0 /\ loop.left = 1
  BY WorldFacts, FlushFacts
<1>2. z \in ChannelRecords /\ SameMux(z, x) /\ Flushed(x, z)
  BY <1>1, SendDestroy
<1> HIDE DEF x, z
<1>3. loop.at = "kist" => z.limit > 0
  BY <1>1, <1>2 DEF Flushed
<1>4. /\ y \in ChannelRecords /\ SameMux(y, z) /\ y.state = z.state
      /\ y.sched = z.sched /\ y.conn = z.conn /\ y.outbuf = z.outbuf
      /\ y.limit = NoEntry <=> z.limit = NoEntry
  BY <1>2, <1>3, SocketWritten
<1> HIDE DEF y
<1>5. /\ v \in Worlds /\ v.circ = World.circ /\ v.pending = World.pending
      /\ v.ev = World.ev /\ v.chan[c] = y
      /\ \A d \in Channels : d # c => v.chan[d] = World.chan[d]
  BY <1>1, <1>4, SetRecord
<1> HIDE DEF v
<1>6. /\ y.state = x.state /\ y.sched = x.sched /\ y.conn = x.conn /\ SameMux(y, x)
      /\ y.outbuf > 0
      /\ y.limit = NoEntry <=> x.limit = NoEntry
  BY <1>1, <1>2, <1>4 DEF Flushed, SameMux, ChannelRecords
<1>7. /\ m \in Loops /\ m.at = loop.at /\ m.chan = loop.chan /\ m.left = loop.left - 1
      /\ m.short = loop.short /\ m.prev = loop.prev /\ m.outbufs = loop.outbufs
      /\ m.readd = loop.readd /\ m.todo = loop.todo
  BY <1>1, OneLess
<1> HIDE DEF m
<1>8. Life(World, c) /\ Heap(World, loop, c) /\ Wake(World, c) /\ World.chan[c] = x
  BY <1>1 DEF Good, ChannelGood, x
<1>9. Life(v, c)
  BY <1>5, <1>6, <1>8 DEF Life
<1>10. Wake(v, c)
  BY <1>5, <1>6, <1>8 DEF Wake
<1>11. Heap(v, m, c)
  BY <1>5, <1>6, <1>7, <1>8 DEF Heap, Running
<1>12. Shape(v, m)
  <2>1. ~(m.at = "kist" /\ m.left > 0)
    BY <1>1, <1>7
  <2> QED
    BY <2>1, <1>1, <1>5, <1>7, FlushShape
<1>13. Touches(World, v, c) /\ LoopTouches(loop, m, c)
  BY <1>5, <1>7 DEF Touches, LoopTouches
<1>14. Good(v, m)
  BY <1>1, <1>5, <1>6, <1>8, <1>9, <1>10, <1>11, <1>12, <1>13, ChannelStep
<1> QED
  BY <1>14 DEF v, m, y, z, x

LEMMA RelayFlushed ==
  ASSUME Inv, loop.left > 0, NEW c \in Channels, c = loop.chan,
         NEW k \in Circuits, chan[c].count[k] > 0, circ[k].queue[c] > 0
  PROVE  LET n == circ[k].queue[c] IN
         Good([World EXCEPT
                 !.chan[c] = update_socket_written(send_relay_cell(chan[c], k, n - 1)),
                 !.circ[k].queue[c] = n - 1],
              [loop EXCEPT !.left = @ - 1])
<1> DEFINE n == circ[k].queue[c]
           x == chan[c]
           z == send_relay_cell(x, k, n - 1)
           y == update_socket_written(z)
           q == [circ[k] EXCEPT !.queue[c] = n - 1]
           u == [World EXCEPT !.chan[c] = y]
           v == [u EXCEPT !.circ[k] = q]
           m == [loop EXCEPT !.left = @ - 1]
<1>1. /\ Good(World, loop) /\ World \in Worlds /\ World.chan = chan
      /\ World.pending = channels_pending /\ World.ev = run_sched_ev
      /\ World.circ = circ /\ circ[k] \in CircuitRecords
      /\ x \in ChannelRecords /\ loop \in Loops
      /\ loop.at = "kist" => x.limit > 0 /\ loop.left = 1
  BY WorldFacts, FlushFacts
<1>2. /\ Life(World, c) /\ Heap(World, loop, c) /\ Wake(World, c) /\ Mux(World, c)
      /\ Entry(World, c, k) /\ Totals(x)
  BY <1>1 DEF Good, ChannelGood, Mux
<1>3. n \in Nat /\ n - 1 \in Nat /\ n - 1 # Detached
  BY <1>1 DEF CircuitRecords, Detached
<1>4. c \in circ[k].on
  BY <1>1, <1>2 DEF Entry, Detached
<1>5. /\ q \in CircuitRecords /\ q.state = circ[k].state /\ q.on = circ[k].on
      /\ q.queue[c] = n - 1
      /\ \A d \in Channels : d # c => q.queue[d] = circ[k].queue[d]
  BY <1>1, <1>3 DEF CircuitRecords
<1>6. [World EXCEPT !.chan[c] = y, !.circ[k].queue[c] = n - 1] = v
  <2>1. u.circ = circ
    BY <1>1 DEF Worlds
  <2> HIDE DEF u, n
  <2> QED
    BY <2>1 DEF u
<1> HIDE DEF n, q
<1>7. /\ z \in ChannelRecords /\ Totals(z) /\ Flushed(x, z)
      /\ z.count = [x.count EXCEPT ![k] = n - 1]
  BY <1>1, <1>2, <1>3, SendRelay
<1> HIDE DEF x, z
<1>8. loop.at = "kist" => z.limit > 0
  BY <1>1, <1>7 DEF Flushed
<1>9. /\ y \in ChannelRecords /\ SameMux(y, z) /\ y.state = z.state
      /\ y.sched = z.sched /\ y.conn = z.conn /\ y.outbuf = z.outbuf
      /\ y.limit = NoEntry <=> z.limit = NoEntry
  BY <1>7, <1>8, SocketWritten
<1> HIDE DEF y
<1>10. /\ u \in Worlds /\ u.circ = circ /\ u.pending = World.pending
       /\ u.ev = World.ev /\ u.chan[c] = y
       /\ \A d \in Channels : d # c => u.chan[d] = World.chan[d]
  BY <1>1, <1>9, SetRecord
<1> HIDE DEF u
<1>11. /\ v \in Worlds /\ v.chan = u.chan /\ v.pending = u.pending /\ v.ev = u.ev
       /\ v.circ[k] = q /\ \A j \in Circuits : j # k => v.circ[j] = u.circ[j]
  BY <1>5, <1>10, SetCircuit
<1>12. /\ y.state = x.state /\ y.sched = x.sched /\ y.conn = x.conn
       /\ y.outbuf > 0
       /\ y.limit = NoEntry <=> x.limit = NoEntry
  BY <1>1, <1>7, <1>9 DEF Flushed, ChannelRecords
<1>13. Totals(y) /\ y.count = [x.count EXCEPT ![k] = n - 1]
  BY <1>7, <1>9, TotalsDepend DEF SameMux
<1>14. /\ m \in Loops /\ m.at = loop.at /\ m.chan = loop.chan /\ m.left = loop.left - 1
       /\ m.short = loop.short /\ m.prev = loop.prev /\ m.outbufs = loop.outbufs
       /\ m.readd = loop.readd /\ m.todo = loop.todo
  BY <1>1, OneLess
<1> DEFINE w == World
<1>15. w.chan[c] = x /\ w.circ = circ /\ w \in Worlds /\ Good(w, loop)
       /\ Life(w, c) /\ Heap(w, loop, c) /\ Wake(w, c) /\ Mux(w, c)
  BY <1>1, <1>2 DEF x
<1>16. /\ v.chan[c] = y /\ v.pending = w.pending
       /\ \A d \in Channels : d # c => v.chan[d] = w.chan[d]
       /\ \A j \in Circuits : j # k => v.circ[j] = w.circ[j]
       /\ v.pending = channels_pending /\ v.ev = run_sched_ev
  BY <1>1, <1>10, <1>11
<1> HIDE DEF m, v, w
<1>17. \A j \in Circuits : \A d \in Channels : j # k \/ d # c => Settled(w, v, d, j)
  <2> SUFFICES ASSUME NEW j \in Circuits, NEW d \in Channels, j # k \/ d # c
               PROVE  Settled(w, v, d, j)
    OBVIOUS
  <2>1. /\ v.circ[j].on = w.circ[j].on /\ v.circ[j].state = w.circ[j].state
        /\ v.circ[j].queue[d] = w.circ[j].queue[d]
    BY <1>5, <1>11, <1>15, <1>16
  <2> QED
    BY <2>1 DEF Settled
<1>18. \A d \in Channels : d # c => Elsewhere(w, v, d)
  BY <1>16, <1>17 DEF Elsewhere
<1>19. Life(v, c)
  <2>1. \A j \in Circuits : v.circ[j].on = w.circ[j].on
    BY <1>5, <1>11, <1>15, <1>16
  <2> QED
    BY <2>1, <1>12, <1>15, <1>16 DEF Life
<1>20. Wake(v, c)
  <2>1. x.state = "OPEN" => x.sched \notin {"IDLE", "WAITING_FOR_CELLS"}
    BY <1>15 DEF Wake, n
  <2> QED
    BY <2>1, <1>12, <1>16 DEF Wake
<1>21. Heap(v, m, c)
  BY <1>12, <1>14, <1>15, <1>16 DEF Heap, Running
<1>22. Mux(v, c)
  <2>1. v.chan[c].count[k] = n - 1 => Entry(v, c, k)
    BY <1>3, <1>4, <1>5, <1>11 DEF Entry
  <2>2. Totals(v.chan[c]) /\ v.chan[c].count = [w.chan[c].count EXCEPT ![k] = n - 1]
    BY <1>13, <1>15, <1>16
  <2>3. \A j \in Circuits : j # k => Settled(w, v, c, j)
    BY <1>17
  <2>4. w \in Worlds /\ Mux(w, c)
    BY <1>15
  <2> QED
    BY <2>1, <2>2, <2>3, <2>4, MuxUpdated
<1>23. Shape(v, m)
  <2>1. ~(m.at = "kist" /\ m.left > 0)
    BY <1>1, <1>14
  <2> QED
    BY <2>1, <1>14, <1>16, FlushShape
<1>24. LoopTouches(loop, m, c)
  BY <1>14 DEF LoopTouches
<1>25. Good(v, m)
  BY <1>11, <1>15, <1>18, <1>19, <1>20, <1>21, <1>22, <1>23, <1>24, WorldStep
     DEF ChannelGood
<1> QED
  BY <1>6, <1>25 DEF y, z, x, n, m

LEMMA EmptySkipped ==
  ASSUME Inv, loop.left > 0, NEW c \in Channels, c = loop.chan,
         NEW k \in Circuits, chan[c].count[k] > 0, circ[k].queue[c] = 0
  PROVE  Good(circuit_mark_for_close(
                [World EXCEPT !.chan[c] = [circuitmux_set_num_cells(chan[c], k, 0) EXCEPT
                                             !.last_cell_was_destroy = FALSE]], k), loop)
<1> DEFINE x == chan[c]
           z == circuitmux_set_num_cells(x, k, 0)
           y == [z EXCEPT !.last_cell_was_destroy = FALSE]
           u == [World EXCEPT !.chan[c] = y]
           v == circuit_mark_for_close(u, k)
           w == World
<1>1. /\ Good(w, loop) /\ w \in Worlds /\ w.chan = chan
      /\ w.pending = channels_pending /\ w.ev = run_sched_ev
      /\ w.circ = circ /\ circ[k] \in CircuitRecords
      /\ x \in ChannelRecords /\ loop \in Loops
      /\ loop.at = "kist" => x.limit > 0
  BY WorldFacts, FlushFacts
<1>2. /\ Life(w, c) /\ Heap(w, loop, c) /\ Wake(w, c) /\ Mux(w, c)
      /\ Entry(w, c, k) /\ Totals(x)
  BY <1>1 DEF Good, ChannelGood, Mux
<1>3. x.count[k] # Detached /\ 0 \in Nat
  BY DEF Detached
<1>4. c \in circ[k].on
  BY <1>1, <1>2, <1>3 DEF Entry
<1>5. /\ z \in ChannelRecords /\ Totals(z) /\ SameBut(z, x)
      /\ z.count = [x.count EXCEPT ![k] = 0]
  BY <1>1, <1>2, <1>3, SetNumCells
<1>6. w.chan[c] = x
  BY <1>1
<1> HIDE DEF x, z, w
<1>7. /\ y \in ChannelRecords /\ SameMux(y, z) /\ y.state = z.state
      /\ y.sched = z.sched /\ y.conn = z.conn /\ y.outbuf = z.outbuf /\ y.limit = z.limit
  BY <1>5 DEF ChannelRecords, SameMux
<1>8. /\ y.state = x.state /\ y.sched = x.sched /\ y.conn = x.conn
      /\ y.outbuf = x.outbuf /\ y.limit = x.limit
  BY <1>5, <1>7 DEF SameBut
<1>9. Totals(y) /\ y.count = [x.count EXCEPT ![k] = 0]
  BY <1>5, <1>7, TotalsDepend DEF SameMux
<1>10. y \in ChannelRecords
  BY <1>7
<1> HIDE DEF y
<1>11. /\ u \in Worlds /\ u.circ = circ /\ u.pending = w.pending
       /\ u.ev = w.ev /\ u.chan[c] = y
       /\ \A d \in Channels : d # c => u.chan[d] = w.chan[d]
  BY <1>1, <1>10, SetRecord DEF w
<1> HIDE DEF u
<1>12. /\ v \in Worlds /\ v.chan = u.chan /\ v.pending = u.pending /\ v.ev = u.ev
       /\ v.circ[k].state = "marked" /\ v.circ[k].on = u.circ[k].on
       /\ v.circ[k].queue = u.circ[k].queue
       /\ \A j \in Circuits : j # k => v.circ[j] = u.circ[j]
  BY <1>11, MarkIs
<1> HIDE DEF v
<1>13. /\ v.chan[c] = y /\ v.pending = w.pending
       /\ \A d \in Channels : d # c => v.chan[d] = w.chan[d]
       /\ v.pending = channels_pending /\ v.ev = run_sched_ev
  BY <1>1, <1>11, <1>12
<1>14. \A j \in Circuits : \A d \in Channels : Settled(w, v, d, j)
  BY <1>1, <1>11, <1>12 DEF Settled
<1>15. \A d \in Channels : d # c => Elsewhere(w, v, d)
  BY <1>13, <1>14 DEF Elsewhere
<1>16. Life(v, c)
  BY <1>2, <1>6, <1>8, <1>13, <1>14 DEF Life, Settled
<1>17. Wake(v, c)
  BY <1>2, <1>6, <1>8, <1>13, <1>14 DEF Wake, Settled
<1>18. Heap(v, loop, c)
  BY <1>2, <1>6, <1>8, <1>13 DEF Heap
<1>19. Mux(v, c)
  <2>1. v.chan[c].count[k] = 0 => Entry(v, c, k)
    <3>1. c \in v.circ[k].on /\ v.circ[k].queue[c] = 0
      BY <1>1, <1>4, <1>11, <1>12
    <3> QED
      BY <3>1 DEF Entry, Detached
  <2>2. Totals(v.chan[c]) /\ v.chan[c].count = [w.chan[c].count EXCEPT ![k] = 0]
    BY <1>6, <1>9, <1>13
  <2>3. \A j \in Circuits : j # k => Settled(w, v, c, j)
    BY <1>14
  <2> QED
    BY <2>1, <2>2, <2>3, <1>1, <1>2, MuxUpdated, SMTT(30)
<1>20. Shape(v, loop)
  <2>1. loop.at = "kist" => v.chan[loop.chan].limit > 0
    BY <1>1, <1>8, <1>13
  <2> QED
    BY <2>1, <1>1, <1>13, FlushShape
<1>21. Good(v, loop)
  BY <1>1, <1>12, <1>15, <1>16, <1>17, <1>18, <1>19, <1>20, WorldStep, LoopSame
     DEF ChannelGood
<1> QED
  BY <1>21 DEF v, u, y, z, x

LEMMA NothingFlushed ==
  ASSUME Inv, loop.left > 0, circuitmux_num_cells(chan[loop.chan]) = 0
  PROVE  Good(World, [loop EXCEPT !.left = 0, !.short = TRUE])
<1> DEFINE m == [loop EXCEPT !.left = 0, !.short = TRUE]
<1>1. /\ Good(World, loop) /\ World.chan = chan
      /\ World.pending = channels_pending /\ World.ev = run_sched_ev /\ loop \in Loops
  BY WorldFacts
<1>2. /\ loop.at \in {"kist", "vanilla", "circuits"} /\ loop.chan \in Channels
      /\ loop.todo = {}
      /\ loop.at = "circuits" => loop.readd = {}
      /\ channels_pending # {} => run_sched_ev \/ Running(loop)
  BY FlushFacts
<1>3. /\ m \in Loops /\ m.at = loop.at /\ m.chan = loop.chan /\ m.left = 0
      /\ m.prev = loop.prev /\ m.outbufs = loop.outbufs
      /\ m.readd = loop.readd /\ m.todo = loop.todo
  BY <1>1 DEF Loops
<1> HIDE DEF m
<1>4. Shape(World, m)
  BY <1>1, <1>2, <1>3, IdleFacts DEF Shape, Running
<1>5. \A c \in Channels : ChannelGood(World, m, c)
  BY <1>1, <1>3 DEF Good, ChannelGood, Heap, Running
<1>6. Good(World, m)
  BY <1>1, <1>3, <1>4, <1>5 DEF Good
<1> QED
  BY <1>6 DEF m

LEMMA CellFlushed ==
  ASSUME Inv, channel_flush_from_first_active_circuit
  PROVE  Inv'
<1> DEFINE c == loop.chan
           x == chan[c]
<1>1. loop.left > 0 /\ c \in Channels
  BY FlushFacts DEF channel_flush_from_first_active_circuit
<1>2. CASE /\ destroy_is_next(x)
           /\ InRun([World EXCEPT !.chan[c] = update_socket_written(send_destroy_cell(x))],
                    [loop EXCEPT !.left = @ - 1])
  <2>1. x.destroys > 0
    BY <1>2 DEF destroy_is_next
  <2>2. Good([World EXCEPT !.chan[c] = update_socket_written(send_destroy_cell(x))],
             [loop EXCEPT !.left = @ - 1])
    BY <1>1, <2>1, DestroyFlushed
  <2> QED
    BY <1>2, <2>2, RunKeeps
<1>3. ASSUME NEW k \in active_circuits(x), circ[k].queue[c] > 0,
             InRun([World EXCEPT
                      !.chan[c] = update_socket_written(
                                    send_relay_cell(x, k, circ[k].queue[c] - 1)),
                      !.circ[k].queue[c] = circ[k].queue[c] - 1],
                   [loop EXCEPT !.left = @ - 1])
      PROVE  Inv'
  <2>1. k \in Circuits /\ x.count[k] > 0
    BY DEF active_circuits
  <2>2. Good([World EXCEPT
                !.chan[c] = update_socket_written(
                              send_relay_cell(x, k, circ[k].queue[c] - 1)),
                !.circ[k].queue[c] = circ[k].queue[c] - 1],
             [loop EXCEPT !.left = @ - 1])
    BY <1>1, <1>3, <2>1, RelayFlushed
  <2> QED
    BY <1>3, <2>2, RunKeeps
<1>4. ASSUME NEW k \in active_circuits(x), circ[k].queue[c] = 0,
             InRun(circuit_mark_for_close(
                     [World EXCEPT !.chan[c] =
                        [circuitmux_set_num_cells(x, k, 0) EXCEPT
                           !.last_cell_was_destroy = FALSE]], k), loop)
      PROVE  Inv'
  <2>1. k \in Circuits /\ x.count[k] > 0
    BY DEF active_circuits
  <2>2. Good(circuit_mark_for_close(
               [World EXCEPT !.chan[c] = [circuitmux_set_num_cells(x, k, 0) EXCEPT
                                            !.last_cell_was_destroy = FALSE]], k), loop)
    BY <1>1, <1>4, <2>1, EmptySkipped
  <2> QED
    BY <1>4, <2>2, RunKeeps
<1>5. CASE /\ circuitmux_num_cells(x) = 0
           /\ InRun(World, [loop EXCEPT !.left = 0, !.short = TRUE])
  <2>1. Good(World, [loop EXCEPT !.left = 0, !.short = TRUE])
    BY <1>1, <1>5, NothingFlushed
  <2> QED
    BY <1>5, <2>1, RunKeeps
<1> QED
  BY <1>2, <1>3, <1>4, <1>5 DEF channel_flush_from_first_active_circuit
-----------------------------------------------------------------------------
(* The cleanup after a callback.                                           *)
LEMMA CleanupBegins ==
  ASSUME Inv, postloop_begins
  PROVE  Inv'
<1> DEFINE m == [Idle EXCEPT !.at = "circuits"]
<1>1. /\ Good(World, Idle) /\ loop = Idle /\ loop' = m /\ World' = World
      /\ the_scheduler' = the_scheduler
  BY WorldFacts DEF postloop_begins, World
<1>2. /\ m.at = "circuits" /\ m.chan = None /\ m.left = 0 /\ m.short = FALSE
      /\ m.prev = None /\ m.outbufs = {} /\ m.readd = {} /\ m.todo = {} /\ m \in Loops
  BY DEF Idle, Loops
<1> HIDE DEF m
<1>3. \A c \in Channels : ChannelGood(World, m, c)
  BY <1>1, <1>2, IdleFacts DEF Good, ChannelGood, Heap, Running
<1>4. Shape(World, m)
  BY <1>1, <1>2, IdleFacts DEF Good, Shape, Running
<1>5. Good(World, m)
  BY <1>1, <1>2, <1>3, <1>4 DEF Good
<1> QED
  BY <1>1, <1>5 DEF Inv

(* Circuit k is detached from channel c.                                   *)
LEMMA Detaches ==
  ASSUME NEW w, NEW l, Good(w, l), l.at = "circuits", NEW k \in Circuits, NEW c \in Channels,
         c \in w.circ[k].on, NEW v \in Worlds, v.pending = w.pending, v.ev = w.ev,
         \A d \in Channels : d # c => v.chan[d] = w.chan[d],
         \A j \in Circuits : j # k => v.circ[j] = w.circ[j],
         v.circ[k].state = w.circ[k].state, v.circ[k].on = w.circ[k].on \ {c},
         v.circ[k].queue[c] = 0,
         \A d \in Channels : d # c => v.circ[k].queue[d] = w.circ[k].queue[d],
         Totals(v.chan[c]), v.chan[c].count = [w.chan[c].count EXCEPT ![k] = Detached],
         v.chan[c].state = w.chan[c].state, v.chan[c].conn = w.chan[c].conn,
         v.chan[c].sched = w.chan[c].sched, v.chan[c].outbuf = w.chan[c].outbuf,
         v.chan[c].limit = w.chan[c].limit,
         NEW m \in Loops, m.at = l.at, m.readd = l.readd, m.todo = l.todo,
         m.prev = l.prev, m.outbufs = l.outbufs, m.chan \in {l.chan, c},
         m.left > 0 => m.chan = c
  PROVE  Good(v, m)
<1>1. Life(w, c) /\ Heap(w, l, c) /\ Wake(w, c) /\ Mux(w, c) /\ w \in Worlds
  BY DEF Good, ChannelGood
<1>2. \A j \in Circuits : \A d \in Channels : j # k \/ d # c => Settled(w, v, d, j)
  BY DEF Settled
<1>3. \A d \in Channels : d # c => Elsewhere(w, v, d)
  BY <1>2 DEF Elsewhere
<1>4. w.chan[c].conn # "null"
  BY <1>1 DEF Life
<1>5. Life(v, c)
  BY <1>1 DEF Life
<1>6. Wake(v, c)
  BY <1>1 DEF Wake
<1>7. Heap(v, m, c)
  BY <1>1, <1>4 DEF Heap, Running
<1>8. Mux(v, c)
  <2>1. /\ v.chan[c].count[k] = Detached
        /\ \A j \in Circuits : j # k => v.chan[c].count[j] = w.chan[c].count[j]
    BY <1>1 DEF Worlds, ChannelRecords, Counts
  <2>2. Entry(v, c, k)
    BY <2>1 DEF Entry
  <2>3. ASSUME NEW j \in Circuits, j # k
        PROVE  Entry(v, c, j)
    BY <1>1, <1>2, <2>1, <2>3, SettledEntry DEF Mux
  <2> QED
    BY <2>2, <2>3 DEF Mux
<1>9. Shape(v, m)
  BY IdleFacts DEF Shape, Good, Running
<1>10. LoopTouches(l, m, c)
  BY DEF LoopTouches, Running
<1> QED
  BY <1>3, <1>5, <1>6, <1>7, <1>8, <1>9, <1>10, WorldStep DEF ChannelGood

LEMMA CircuitDetached ==
  ASSUME Inv, NEW k \in Circuits, NEW c \in Channels, circuit_about_to_free(k, c)
  PROVE  Inv'
<1> DEFINE o == World
           q == [circ[k] EXCEPT !.queue[c] = 0]
           t == [o EXCEPT !.circ[k] = q]
           w == update_circuit_on_cmux(t, k, c)
           x == circuitmux_detach_circuit(w.chan[c], k)
           p == [w.circ[k] EXCEPT !.on = @ \ {c}]
           s == [w EXCEPT !.circ[k] = p]
           v == [s EXCEPT !.chan[c] = x]
           y == [x EXCEPT !.destroys = @ + 1]
           u == [v EXCEPT !.chan[c] = y]
           m == IF x.outbuf = 0 THEN [loop EXCEPT !.chan = c, !.left = 1] ELSE loop
<1>1. /\ Good(o, loop) /\ o \in Worlds /\ o.chan = chan /\ o.circ = circ
      /\ chan[c] \in ChannelRecords /\ circ[k] \in CircuitRecords /\ loop \in Loops
      /\ loop.at = "circuits" /\ loop.left = 0 /\ c \in circ[k].on
  BY WorldFacts DEF circuit_about_to_free
<1>2. [World EXCEPT !.circ[k].queue[c] = 0] = t
  BY <1>1 DEF Worlds, CircuitRecords
<1>3. \/ /\ CHANNEL_CONDEMNED(chan[c])
         /\ InRun([w EXCEPT !.circ[k].on = @ \ {c}, !.chan[c] = x], loop)
      \/ InRun([[w EXCEPT !.circ[k].on = @ \ {c}, !.chan[c] = x] EXCEPT
                  !.chan[c].destroys = @ + 1], m)
  BY <1>2 DEF circuit_about_to_free
<1> HIDE DEF o
<1>4. Totals(chan[c]) /\ chan[c].count[k] # Detached
  BY <1>1 DEF Good, ChannelGood, Mux, Entry
<1>5. /\ q \in CircuitRecords /\ q.state = circ[k].state /\ q.on = circ[k].on
      /\ q.queue[c] = 0 /\ \A d \in Channels : d # c => q.queue[d] = circ[k].queue[d]
  BY <1>1 DEF CircuitRecords
<1> HIDE DEF q
<1>6. /\ t \in Worlds /\ t.chan = o.chan /\ t.pending = o.pending /\ t.ev = o.ev
      /\ t.circ[k] = q /\ \A j \in Circuits : j # k => t.circ[j] = o.circ[j]
  BY <1>1, <1>5, SetCircuit
<1> HIDE DEF t
<1>7. /\ Touches(t, w, c) /\ w.pending = t.pending /\ w.ev = t.ev
      /\ SameBut(w.chan[c], t.chan[c]) /\ Totals(w.chan[c])
      /\ w.chan[c].count = [t.chan[c].count EXCEPT ![k] = t.circ[k].queue[c]]
  <2>1. t \in Worlds /\ Totals(t.chan[c]) /\ t.chan[c].count[k] # Detached
    BY <1>1, <1>4, <1>6
  <2> QED
    BY <2>1, UpdateCmuxIs
<1> HIDE DEF w
<1>8. w \in Worlds /\ w.chan[c] \in ChannelRecords /\ w.circ[k] \in CircuitRecords
      /\ w.circ[k] = q /\ w.chan[c].count[k] = 0 /\ chan[c].count \in Counts
  <2>1. w \in Worlds /\ w.circ = t.circ
    BY <1>7 DEF Touches
  <2>2. w.chan[c].count[k] = 0
    BY <1>1, <1>5, <1>6, <1>7 DEF ChannelRecords, Counts
  <2> QED
    BY <1>1, <1>6, <2>1, <2>2 DEF Worlds, ChannelRecords
<1>9. w.chan[c].count = [chan[c].count EXCEPT ![k] = 0]
  BY <1>1, <1>5, <1>6, <1>7
<1>10. /\ x \in ChannelRecords /\ Totals(x) /\ SameBut(x, w.chan[c])
       /\ x.count = [w.chan[c].count EXCEPT ![k] = Detached]
  <2>1. w.chan[c] \in ChannelRecords /\ Totals(w.chan[c]) /\ w.chan[c].count[k] # Detached
    BY <1>7, <1>8 DEF Detached
  <2> QED
    BY <2>1, DetachCircuit
<1> HIDE DEF x
<1>11. x.count = [chan[c].count EXCEPT ![k] = Detached]
  BY <1>8, <1>9, <1>10 DEF Counts
<1>12. SameBut(x, chan[c])
  BY <1>1, <1>6, <1>7, <1>10 DEF SameBut
<1>13. /\ p \in CircuitRecords /\ p.state = circ[k].state /\ p.on = circ[k].on \ {c}
       /\ p.queue = q.queue
  BY <1>5, <1>8 DEF CircuitRecords
<1>14. [w EXCEPT !.circ[k].on = @ \ {c}, !.chan[c] = x] = v
  BY <1>8 DEF Worlds, CircuitRecords
<1> HIDE DEF p
<1>15. /\ s \in Worlds /\ s.chan = w.chan /\ s.pending = w.pending /\ s.ev = w.ev
       /\ s.circ[k] = p /\ \A j \in Circuits : j # k => s.circ[j] = w.circ[j]
  BY <1>8, <1>13, SetCircuit
<1> HIDE DEF s
<1>16. x \in ChannelRecords
  BY <1>10
<1>17. /\ v \in Worlds /\ v.circ = s.circ /\ v.pending = s.pending /\ v.ev = s.ev
       /\ v.chan[c] = x /\ \A d \in Channels : d # c => v.chan[d] = s.chan[d]
  BY <1>15, <1>16, SetRecord
<1> HIDE DEF v
<1>18. /\ y \in ChannelRecords /\ SameMux(y, x) /\ y.state = x.state /\ y.conn = x.conn
       /\ y.sched = x.sched /\ y.outbuf = x.outbuf /\ y.limit = x.limit
  BY <1>16 DEF ChannelRecords, SameMux
<1>19. [v EXCEPT !.chan[c].destroys = @ + 1] = u
  BY <1>17 DEF Worlds
<1> HIDE DEF y
<1>20. /\ u \in Worlds /\ u.circ = v.circ /\ u.pending = v.pending /\ u.ev = v.ev
       /\ u.chan[c] = y /\ \A d \in Channels : d # c => u.chan[d] = v.chan[d]
  BY <1>17, <1>18, SetRecord
<1> HIDE DEF u
<1>21. /\ v.pending = o.pending /\ v.ev = o.ev
       /\ \A d \in Channels : d # c => v.chan[d] = o.chan[d]
       /\ \A j \in Circuits : j # k => v.circ[j] = o.circ[j]
       /\ v.circ[k] = p
  BY <1>6, <1>7, <1>15, <1>17 DEF Touches
<1>22. /\ v.circ[k].state = o.circ[k].state /\ v.circ[k].on = o.circ[k].on \ {c}
       /\ v.circ[k].queue[c] = 0
       /\ \A d \in Channels : d # c => v.circ[k].queue[d] = o.circ[k].queue[d]
  BY <1>1, <1>5, <1>13, <1>21
<1>23. Totals(y) /\ y.count = x.count
  BY <1>10, <1>18, TotalsDepend DEF SameMux
<1>24. ASSUME NEW z \in {x, y}
       PROVE  /\ Totals(z) /\ z.count = [o.chan[c].count EXCEPT ![k] = Detached]
              /\ z.state = o.chan[c].state /\ z.conn = o.chan[c].conn
              /\ z.sched = o.chan[c].sched /\ z.outbuf = o.chan[c].outbuf
              /\ z.limit = o.chan[c].limit
  BY <1>1, <1>10, <1>11, <1>12, <1>18, <1>23 DEF SameBut
<1>25. c \in o.circ[k].on
  BY <1>1
<1>26. Good(v, loop)
  BY <1>1, <1>17, <1>21, <1>22, <1>24, <1>25, Detaches, SMTT(30)
<1>27. /\ m \in Loops /\ m.at = loop.at /\ m.readd = loop.readd /\ m.todo = loop.todo
       /\ m.prev = loop.prev /\ m.outbufs = loop.outbufs /\ m.chan \in {loop.chan, c}
       /\ m.left > 0 => m.chan = c
  <2>1. CASE x.outbuf = 0
    <3>1. m = [loop EXCEPT !.chan = c, !.left = 1]
      BY <2>1
    <3> HIDE DEF m
    <3> QED
      BY <1>1, <3>1 DEF Loops
  <2>2. CASE x.outbuf # 0
    <3>1. m = loop
      BY <2>2
    <3> HIDE DEF m
    <3> QED
      BY <1>1, <3>1
  <2> QED
    BY <2>1, <2>2
<1> HIDE DEF m
<1>28. Good(u, m)
  BY <1>1, <1>20, <1>21, <1>22, <1>24, <1>25, <1>27, Detaches, SMTT(30)
<1> QED
  BY <1>3, <1>14, <1>19, <1>26, <1>28, RunKeeps

LEMMA CircuitFreed ==
  ASSUME Inv, NEW k \in Circuits, circuit_free(k)
  PROVE  Inv'
<1> DEFINE w == World
           q == [circ[k] EXCEPT !.state = "freed"]
           v == [w EXCEPT !.circ[k] = q]
<1>1. /\ Good(w, loop) /\ w \in Worlds /\ w.circ = circ /\ circ[k] \in CircuitRecords
      /\ circ[k].on = {}
  BY WorldFacts DEF circuit_free
<1>2. [World EXCEPT !.circ[k].state = "freed"] = v
  BY <1>1 DEF Worlds
<1>3. InRun(v, loop)
  BY <1>2 DEF circuit_free
<1> HIDE DEF w
<1>4. q \in CircuitRecords /\ q.on = circ[k].on /\ q.queue = circ[k].queue
  BY <1>1 DEF CircuitRecords
<1> HIDE DEF q
<1>5. /\ v \in Worlds /\ v.chan = w.chan /\ v.pending = w.pending /\ v.ev = w.ev
      /\ v.circ[k] = q /\ \A j \in Circuits : j # k => v.circ[j] = w.circ[j]
  BY <1>1, <1>4, SetCircuit
<1> HIDE DEF v
<1>6. \A d \in Channels : Elsewhere(w, v, d)
  BY <1>1, <1>4, <1>5 DEF Elsewhere, Settled
<1>7. Good(v, loop)
  BY <1>1, <1>5, <1>6, NoChannelStep
<1> QED
  BY <1>3, <1>7, RunKeeps

LEMMA CircuitsClosed ==
  ASSUME Inv, circuits_are_closed
  PROVE  Inv'
<1> DEFINE m == [Idle EXCEPT !.at = "connections", !.todo = Closeable]
<1>1. /\ Good(World, loop) /\ World.chan = chan /\ loop.at = "circuits" /\ InRun(World, m)
      /\ World.pending = channels_pending /\ World.ev = run_sched_ev
  BY WorldFacts DEF circuits_are_closed
<1>2. /\ m.at = "connections" /\ m.chan = None /\ m.left = 0 /\ m.short = FALSE
      /\ m.prev = None /\ m.outbufs = {} /\ m.readd = {} /\ m.todo = Closeable
      /\ m \in Loops /\ m = [Idle EXCEPT !.at = "connections", !.todo = m.todo]
  BY DEF Idle, Loops, Closeable
<1> HIDE DEF m
<1>3. loop.readd = {} /\ ~Running(loop)
      /\ (World.pending # {} => World.ev)
  BY <1>1 DEF Good, Shape, Running
<1>4. ASSUME NEW c \in Channels
      PROVE  ChannelGood(World, m, c)
  <2>1. Heap(World, loop, c) /\ c # None
    BY <1>1, IdleFacts DEF Good, ChannelGood
  <2>2. Heap(World, m, c)
    BY <1>1, <1>2, <1>3, <2>1 DEF Heap, Running, Closeable
  <2> QED
    BY <1>1, <2>2 DEF Good, ChannelGood
<1>5. Shape(World, m)
  BY <1>2, <1>3 DEF Shape, Running
<1>6. Good(World, m)
  BY <1>1, <1>2, <1>4, <1>5 DEF Good
<1> QED
  BY <1>1, <1>6, RunKeeps

(* While connections are closed, the callback holds nothing else.          *)
LEMMA AtConnections ==
  ASSUME NEW w, NEW l, Good(w, l), l.at = "connections"
  PROVE  /\ l.chan = None /\ l.left = 0 /\ l.short = FALSE /\ l.prev = None
         /\ l.outbufs = {} /\ l.readd = {} /\ ~Running(l)
         /\ w.pending # {} => w.ev
<1>1. l = [Idle EXCEPT !.at = "connections", !.todo = l.todo]
  BY DEF Good, Shape
<1>2. LET m == [Idle EXCEPT !.at = "connections", !.todo = l.todo] IN
      /\ m.chan = None /\ m.left = 0 /\ m.short = FALSE /\ m.prev = None
      /\ m.outbufs = {} /\ m.readd = {}
  BY DEF Idle
<1>3. /\ l.chan = None /\ l.left = 0 /\ l.short = FALSE /\ l.prev = None
      /\ l.outbufs = {} /\ l.readd = {}
  BY <1>1, <1>2
<1>4. ~Running(l)
  BY DEF Running
<1>5. w.pending # {} => w.ev
  BY <1>4 DEF Good, Shape
<1> QED
  BY <1>3, <1>4, <1>5

(* One connection less to close.                                           *)
LEMMA LessTodo ==
  ASSUME NEW v, NEW l, Good(v, l), l.at = "connections", NEW c
  PROVE  Good(v, [l EXCEPT !.todo = @ \ {c}])
<1> DEFINE m == [l EXCEPT !.todo = @ \ {c}]
<1>1. /\ l.chan = None /\ l.left = 0 /\ l.short = FALSE /\ l.prev = None
      /\ l.outbufs = {} /\ l.readd = {} /\ ~Running(l)
      /\ v.pending # {} => v.ev
  BY AtConnections
<1>2. /\ m \in Loops /\ m.at = l.at /\ m.chan = l.chan /\ m.left = l.left
      /\ m.short = l.short /\ m.prev = l.prev /\ m.outbufs = l.outbufs
      /\ m.readd = l.readd /\ m.todo = l.todo \ {c}
  BY DEF Loops, Good
<1>3. m = [Idle EXCEPT !.at = "connections", !.todo = m.todo]
  <2>1. l = [Idle EXCEPT !.at = "connections", !.todo = l.todo]
    BY DEF Good, Shape
  <2> QED
    BY <2>1, <1>2 DEF Idle
<1> HIDE DEF m
<1>4. Shape(v, m)
  BY <1>1, <1>2, <1>3 DEF Shape, Running
<1>5. ASSUME NEW d \in Channels
      PROVE  ChannelGood(v, m, d)
  <2>1. Heap(v, l, d)
    BY DEF Good, ChannelGood
  <2>2. Heap(v, m, d)
    BY <1>1, <1>2, <2>1 DEF Heap, Running
  <2> QED
    BY <2>2 DEF Good, ChannelGood
<1>6. Good(v, m)
  BY <1>2, <1>4, <1>5 DEF Good
<1> QED
  BY <1>6 DEF m

(* The channel c of a connection that goes: its circuits are lost, and are *)
(* to be closed.                                                           *)
LoseCircuits(w, c) ==
  [k \in Circuits |->
     IF c \in w.circ[k].on
     THEN [w.circ[k] EXCEPT !.state = "marked", !.on = @ \ {c}, !.queue[c] = 0]
     ELSE w.circ[k]]

LEMMA LostCircuit ==
  ASSUME NEW q \in CircuitRecords, NEW c \in Channels
  PROVE  LET p == [q EXCEPT !.state = "marked", !.on = @ \ {c}, !.queue[c] = 0] IN
         /\ p \in CircuitRecords /\ p.state = "marked" /\ p.on = q.on \ {c}
         /\ p.queue[c] = 0
         /\ \A d \in Channels : d # c => p.queue[d] = q.queue[d]
<1>1. /\ q.queue \in [Channels -> Nat] /\ q.on \in SUBSET Channels
      /\ [q.queue EXCEPT ![c] = 0] \in [Channels -> Nat]
  BY DEF CircuitRecords
<1> QED
  BY <1>1 DEF CircuitRecords

LEMMA LoseCircuitsIs ==
  ASSUME NEW w \in Worlds, NEW c \in Channels
  PROVE  /\ LoseCircuits(w, c) \in [Circuits -> CircuitRecords]
         /\ \A k \in Circuits :
              LET p == LoseCircuits(w, c)[k] IN
              IF c \in w.circ[k].on
              THEN /\ p.state = "marked" /\ p.on = w.circ[k].on \ {c}
                   /\ p.queue[c] = 0
                   /\ \A d \in Channels : d # c => p.queue[d] = w.circ[k].queue[d]
              ELSE p = w.circ[k]
<1>1. ASSUME NEW k \in Circuits
      PROVE  /\ LoseCircuits(w, c)[k] \in CircuitRecords
             /\ LET p == LoseCircuits(w, c)[k] IN
                IF c \in w.circ[k].on
                THEN /\ p.state = "marked" /\ p.on = w.circ[k].on \ {c}
                     /\ p.queue[c] = 0
                     /\ \A d \in Channels : d # c => p.queue[d] = w.circ[k].queue[d]
                ELSE p = w.circ[k]
  <2>1. w.circ[k] \in CircuitRecords
    BY DEF Worlds
  <2>2. CASE c \in w.circ[k].on
    <3>1. LoseCircuits(w, c)[k] =
            [w.circ[k] EXCEPT !.state = "marked", !.on = @ \ {c}, !.queue[c] = 0]
      BY <2>2 DEF LoseCircuits
    <3>2. LET p == [w.circ[k] EXCEPT !.state = "marked", !.on = @ \ {c},
                                     !.queue[c] = 0] IN
          /\ p \in CircuitRecords /\ p.state = "marked"
          /\ p.on = w.circ[k].on \ {c} /\ p.queue[c] = 0
          /\ \A d \in Channels : d # c => p.queue[d] = w.circ[k].queue[d]
      BY <2>1, LostCircuit
    <3> DEFINE p == LoseCircuits(w, c)[k]
    <3>3. /\ p \in CircuitRecords /\ p.state = "marked"
          /\ p.on = w.circ[k].on \ {c} /\ p.queue[c] = 0
          /\ \A d \in Channels : d # c => p.queue[d] = w.circ[k].queue[d]
      BY <3>1, <3>2, Zenon
    <3> QED
      BY <2>2, <3>3
  <2>3. CASE c \notin w.circ[k].on
    <3>1. LoseCircuits(w, c)[k] = w.circ[k]
      BY <2>3 DEF LoseCircuits
    <3> QED
      BY <2>1, <2>3, <3>1
  <2> QED
    BY <2>2, <2>3
<1>2. LoseCircuits(w, c) = [k \in Circuits |-> LoseCircuits(w, c)[k]]
  BY DEF LoseCircuits
<1>3. LoseCircuits(w, c) \in [Circuits -> CircuitRecords]
  BY <1>1, <1>2
<1> QED
  BY <1>1, <1>3

LEMMA AboutToCloseIs ==
  ASSUME NEW w \in Worlds, NEW c \in Channels
  PROVE  LET v == connection_or_about_to_close(w, c) IN
         /\ v \in Worlds /\ v.ev = w.ev /\ v.pending = w.pending \ {c}
         /\ v.circ = LoseCircuits(w, c)
         /\ \A d \in Channels : d # c => v.chan[d] = w.chan[d]
         /\ v.chan[c].state = "CLOSED" /\ v.chan[c].conn = "null"
         /\ v.chan[c].sched = "IDLE" /\ v.chan[c].limit = NoEntry
         /\ v.chan[c].count = [k \in Circuits |-> Detached] /\ Totals(v.chan[c])
<1> DEFINE f == LoseCircuits(w, c)
           y == circuitmux_detach_all_circuits(w.chan[c])
           u == [w EXCEPT !.chan[c] = y]
           a == [u EXCEPT !.circ = f]
           z == [y EXCEPT !.state = "CLOSED"]
           b == [a EXCEPT !.chan[c] = z]
           r == scheduler_release_channel(b, c)
           s == [r.chan[c] EXCEPT !.conn = "null"]
           v == [r EXCEPT !.chan[c] = s]
<1>1. f \in [Circuits -> CircuitRecords] /\ w.chan[c] \in ChannelRecords
  BY LoseCircuitsIs DEF Worlds
<1>2. /\ y \in ChannelRecords /\ Totals(y) /\ y.count = [k \in Circuits |-> Detached]
  BY <1>1, DetachAllCircuits
<1>3. circuit_unlink_all_from_channel(w, c) = a
  BY DEF circuit_unlink_all_from_channel, LoseCircuits
<1> HIDE DEF f, y
<1>4. /\ u \in Worlds /\ u.pending = w.pending /\ u.ev = w.ev
      /\ u.chan[c] = y /\ \A d \in Channels : d # c => u.chan[d] = w.chan[d]
  BY <1>2, SetRecord
<1> HIDE DEF u
<1>5. /\ a \in Worlds /\ a.circ = f /\ a.pending = u.pending /\ a.ev = u.ev
      /\ a.chan = u.chan
  BY <1>1, <1>4 DEF Worlds
<1> HIDE DEF a
<1>17. connection_or_about_to_close(w, c) =
         [scheduler_release_channel([a EXCEPT !.chan[c].state = "CLOSED"], c)
            EXCEPT !.chan[c].conn = "null"]
  BY <1>3 DEF connection_or_about_to_close, channel_closed, channel_change_state
<1>6. [a EXCEPT !.chan[c].state = "CLOSED"] = b
  BY <1>4, <1>5 DEF Worlds
<1>7. z \in ChannelRecords /\ z.state = "CLOSED" /\ SameMux(z, y)
  BY <1>2 DEF ChannelRecords, SameMux
<1> HIDE DEF z
<1>8. /\ b \in Worlds /\ b.circ = a.circ /\ b.pending = a.pending /\ b.ev = a.ev
      /\ b.chan[c] = z /\ \A d \in Channels : d # c => b.chan[d] = a.chan[d]
  BY <1>5, <1>7, SetRecord
<1> HIDE DEF b
<1>9. /\ r \in Worlds /\ r.circ = b.circ /\ r.ev = b.ev
      /\ r.pending = b.pending \ {c}
      /\ r.chan[c] = [b.chan[c] EXCEPT !.sched = "IDLE", !.limit = NoEntry]
      /\ \A d \in Channels : d # c => r.chan[d] = b.chan[d]
  BY <1>8, ReleaseIs
<1>10. /\ r.chan[c] \in ChannelRecords /\ r.chan[c].state = "CLOSED"
       /\ r.chan[c].sched = "IDLE" /\ r.chan[c].limit = NoEntry
       /\ SameMux(r.chan[c], y)
  BY <1>7, <1>8, <1>9, ZenonT(30) DEF ChannelRecords, SameMux
<1> HIDE DEF r
<1>11. [r EXCEPT !.chan[c].conn = "null"] = v
  BY <1>9 DEF Worlds
<1>12. /\ s \in ChannelRecords /\ s.state = "CLOSED" /\ s.sched = "IDLE"
       /\ s.limit = NoEntry /\ s.conn = "null" /\ SameMux(s, y)
  BY <1>10 DEF ChannelRecords, SameMux
<1> HIDE DEF s
<1>13. /\ v \in Worlds /\ v.circ = r.circ /\ v.pending = r.pending /\ v.ev = r.ev
       /\ v.chan[c] = s /\ \A d \in Channels : d # c => v.chan[d] = r.chan[d]
  BY <1>9, <1>12, SetRecord
<1> HIDE DEF v
<1>14. Totals(s) /\ s.count = [k \in Circuits |-> Detached]
  BY <1>2, <1>12, TotalsDepend DEF SameMux
<1>15. connection_or_about_to_close(w, c) = v
  BY <1>17, <1>6, <1>11 DEF r
<1>16. /\ v.ev = w.ev /\ v.pending = w.pending \ {c} /\ v.circ = f
       /\ \A d \in Channels : d # c => v.chan[d] = w.chan[d]
  BY <1>4, <1>5, <1>8, <1>9, <1>13
<1> QED
  BY <1>12, <1>13, <1>14, <1>15, <1>16 DEF f

LEMMA AboutToCloseKeeps ==
  ASSUME NEW w, NEW l, Good(w, l), l.at = "connections", NEW c \in Channels,
         c \notin l.todo
  PROVE  Good(connection_or_about_to_close(w, c), l)
<1> DEFINE v == connection_or_about_to_close(w, c)
<1>1. w \in Worlds /\ l \in Loops /\ c # None
  BY IdleFacts DEF Good
<1>2. /\ v \in Worlds /\ v.ev = w.ev /\ v.pending = w.pending \ {c}
      /\ v.circ = LoseCircuits(w, c)
      /\ \A d \in Channels : d # c => v.chan[d] = w.chan[d]
      /\ v.chan[c].state = "CLOSED" /\ v.chan[c].conn = "null"
      /\ v.chan[c].sched = "IDLE" /\ v.chan[c].limit = NoEntry
      /\ v.chan[c].count = [k \in Circuits |-> Detached] /\ Totals(v.chan[c])
  BY <1>1, AboutToCloseIs
<1> HIDE DEF v
<1>3. \A k \in Circuits :
        IF c \in w.circ[k].on
        THEN /\ v.circ[k].state = "marked" /\ v.circ[k].on = w.circ[k].on \ {c}
             /\ v.circ[k].queue[c] = 0
             /\ \A d \in Channels : d # c => v.circ[k].queue[d] = w.circ[k].queue[d]
        ELSE v.circ[k] = w.circ[k]
  BY <1>1, <1>2, LoseCircuitsIs
<1>4. \A k \in Circuits : c \notin v.circ[k].on /\ v.circ[k].queue[c] = 0
  <2>1. \A k \in Circuits : Entry(w, c, k)
    BY DEF Good, ChannelGood, Mux
  <2> QED
    BY <1>3, <2>1 DEF Entry
<1>5. Mux(v, c)
  BY <1>2, <1>4 DEF Mux, Entry
<1>6. Life(v, c) /\ Wake(v, c)
  BY <1>2, <1>4 DEF Life, Wake
<1>7. /\ l.chan = None /\ l.left = 0 /\ l.short = FALSE /\ l.prev = None
      /\ l.outbufs = {} /\ l.readd = {} /\ ~Running(l)
      /\ w.pending # {} => w.ev
  BY AtConnections
<1>8. Heap(v, l, c)
  BY <1>1, <1>2, <1>7 DEF Heap, Running
<1>9. Shape(v, l)
  BY <1>2, <1>7 DEF Shape, Good, Running
<1>10. \A d \in Channels : d # c => Elsewhere(w, v, d)
  BY <1>2, <1>3 DEF Elsewhere, Settled
<1>11. ChannelGood(v, l, c) /\ LoopTouches(l, l, c)
  BY <1>1, <1>5, <1>6, <1>8, LoopSame DEF ChannelGood
<1>12. Good(v, l)
  BY <1>2, <1>9, <1>10, <1>11, WorldStep
<1> QED
  BY <1>12 DEF v

LEMMA ConnectionCloses ==
  ASSUME Inv, NEW c \in Channels, conn_close_if_marked(c)
  PROVE  Inv'
<1> DEFINE w == World
           m == [loop EXCEPT !.todo = @ \ {c}]
<1>1. /\ Good(w, loop) /\ w \in Worlds /\ w.chan = chan /\ loop \in Loops
      /\ chan[c] \in ChannelRecords
  BY WorldFacts
<1>2. loop.at = "connections"
  BY <1>1 DEF conn_close_if_marked, Good, Shape
<1> HIDE DEF w
<1>3. Good(w, m)
  BY <1>1, <1>2, LessTodo
<1>4. m.at = "connections" /\ c \notin m.todo
  BY <1>1, <1>2 DEF Loops
<1>5. CASE InRun(connection_or_about_to_close(World, c), m)
  <2> HIDE DEF m
  <2>1. Good(connection_or_about_to_close(World, c), m)
    BY <1>3, <1>4, AboutToCloseKeeps DEF w
  <2> QED
    BY <1>5, <2>1, RunKeeps
<1>6. ASSUME NEW n \in 1..chan[c].outbuf, InRun([World EXCEPT !.chan[c].outbuf = n], m)
      PROVE  Inv'
  <2> DEFINE y == [chan[c] EXCEPT !.outbuf = n]
  <2>1. [World EXCEPT !.chan[c].outbuf = n] = [w EXCEPT !.chan[c] = y]
    BY <1>1 DEF Worlds, w
  <2>2. n \in Nat /\ n > 0
    BY <1>1, <1>6 DEF ChannelRecords
  <2>3. /\ y \in ChannelRecords /\ SameMux(y, w.chan[c])
        /\ y.conn = w.chan[c].conn /\ y.state = w.chan[c].state
        /\ y.sched = w.chan[c].sched /\ y.limit = w.chan[c].limit
        /\ y.destroys = w.chan[c].destroys /\ y.outbuf > 0
    BY <1>1, <2>2 DEF ChannelRecords, SameMux
  <2> HIDE DEF y, m
  <2>4. Good([w EXCEPT !.chan[c] = y], m)
    BY <1>3, <2>3, OutbufChanges
  <2> QED
    BY <1>6, <2>1, <2>4, RunKeeps
<1> QED
  BY <1>5, <1>6 DEF conn_close_if_marked

(* The channels that are closed are freed.                                 *)
LEMMA ChannelsFreed ==
  ASSUME Inv, channel_run_cleanup
  PROVE  Inv'
<1> DEFINE w == World
           F == {c \in Channels : chan[c].state = "CLOSED"}
           f == [c \in Channels |->
                   IF c \in F THEN [chan[c] EXCEPT !.state = "freed", !.sched = "IDLE"]
                   ELSE chan[c]]
           v == [chan |-> f, circ |-> circ, pending |-> channels_pending \ F,
                 ev |-> run_sched_ev]
<1>1. /\ Good(w, loop) /\ w \in Worlds /\ w.chan = chan /\ w.circ = circ
      /\ w.pending = channels_pending /\ w.ev = run_sched_ev
      /\ chan \in [Channels -> ChannelRecords] /\ circ \in [Circuits -> CircuitRecords]
      /\ channels_pending \in SUBSET Channels /\ loop.at = "connections"
      /\ run_sched_ev \in BOOLEAN
  BY WorldFacts DEF channel_run_cleanup, Worlds
<1>2. InRun(v, Idle)
  BY DEF channel_run_cleanup, InRun, Becomes, World
<1>3. \A c \in Channels :
        /\ f[c] \in ChannelRecords /\ SameMux(f[c], chan[c]) /\ f[c].conn = chan[c].conn
        /\ f[c].limit = chan[c].limit
        /\ IF c \in F THEN f[c].state = "freed" /\ f[c].sched = "IDLE"
           ELSE f[c] = chan[c]
  <2> SUFFICES ASSUME NEW c \in Channels
               PROVE  /\ f[c] \in ChannelRecords /\ SameMux(f[c], chan[c])
                      /\ f[c].conn = chan[c].conn /\ f[c].limit = chan[c].limit
                      /\ IF c \in F THEN f[c].state = "freed" /\ f[c].sched = "IDLE"
                         ELSE f[c] = chan[c]
    OBVIOUS
  <2>1. chan[c] \in ChannelRecords
    BY <1>1
  <2> QED
    BY <2>1, ZenonT(30) DEF ChannelRecords, SameMux
<1>4. f \in [Channels -> ChannelRecords]
  BY <1>3
<1>5. \A c \in F : c \in Channels /\ chan[c].state = "CLOSED"
  OBVIOUS
<1> HIDE DEF f, F, w
<1>6. /\ v \in Worlds /\ v.chan = f /\ v.circ = circ
      /\ v.pending = channels_pending \ F /\ v.ev = run_sched_ev
  BY <1>1, <1>4 DEF Worlds
<1> HIDE DEF v
<1>7. /\ loop.chan = None /\ loop.prev = None /\ loop.outbufs = {} /\ loop.readd = {}
      /\ ~Running(loop) /\ (w.pending # {} => w.ev)
  BY <1>1, AtConnections
<1>8. ASSUME NEW c \in Channels
      PROVE  ChannelGood(v, Idle, c)
  <2>1. Life(w, c) /\ Mux(w, c) /\ Heap(w, loop, c) /\ Wake(w, c)
    BY <1>1 DEF Good, ChannelGood
  <2>2. Mux(v, c)
    BY <1>1, <1>3, <1>6, <2>1, MuxDepends DEF SameMux
  <2>3. Life(v, c)
    BY <1>1, <1>3, <1>5, <1>6, <2>1 DEF Life
  <2>4. Wake(v, c)
    BY <1>1, <1>3, <1>6, <2>1 DEF Wake
  <2>5. Heap(v, Idle, c)
    BY <1>1, <1>3, <1>6, <1>7, <2>1, IdleFacts DEF Heap, Running
  <2> QED
    BY <2>2, <2>3, <2>4, <2>5 DEF ChannelGood
<1>9. Shape(v, Idle)
  BY <1>1, <1>6, <1>7, IdleFacts DEF Shape
<1>10. Good(v, Idle)
  BY <1>6, <1>8, <1>9, IdleFacts DEF Good
<1> QED
  BY <1>2, <1>10, RunKeeps
-----------------------------------------------------------------------------
(* Initially every channel is on a connection whose handshake is under     *)
(* way, and there are no circuits.                                         *)
LEMMA NewRecords ==
  /\ \A c \in Channels :
       LET x == NewChannel(c) IN
       /\ x \in ChannelRecords /\ Totals(x) /\ x.state = "OPENING" /\ x.conn = "ok"
       /\ x.sched = "IDLE" /\ x.count = [k \in Circuits |-> Detached]
  /\ NewCircuit \in CircuitRecords /\ NewCircuit.on = {}
  /\ NewCircuit.queue = [c \in Channels |-> 0]
<1>1. ASSUME NEW c \in Channels
      PROVE  LET x == NewChannel(c) IN
             /\ x \in ChannelRecords /\ Totals(x) /\ x.state = "OPENING"
             /\ x.conn = "ok" /\ x.sched = "IDLE"
             /\ x.count = [k \in Circuits |-> Detached]
  <2> DEFINE x == NewChannel(c)
  <2>1. /\ x.count = [k \in Circuits |-> Detached] /\ x.n_cells = 0
        /\ x.n_active_circuits = 0 /\ x.state = "OPENING" /\ x.conn = "ok"
        /\ x.sched = "IDLE"
    BY DEF NewChannel
  <2>2. x \in ChannelRecords
    BY DEF NewChannel, ChannelRecords, Counts
  <2> HIDE DEF x
  <2>3. CountedCells(x) = {} /\ active_circuits(x) = {}
    BY <2>1 DEF CountedCells, active_circuits, Detached
  <2>4. Totals(x)
    BY <2>1, <2>3, FS_EmptySet DEF Totals
  <2> QED
    BY <2>1, <2>2, <2>4 DEF x
<1>2. /\ NewCircuit \in CircuitRecords /\ NewCircuit.on = {}
      /\ NewCircuit.queue = [c \in Channels |-> 0]
  BY DEF NewCircuit, CircuitRecords
<1> QED
  BY <1>1, <1>2

LEMMA InitInv == Init => Inv
<1> SUFFICES ASSUME Init
             PROVE  Inv
  OBVIOUS
<1> DEFINE w == World
<1>1. /\ w.chan = [c \in Channels |-> NewChannel(c)]
      /\ w.circ = [k \in Circuits |-> NewCircuit] /\ w.pending = {} /\ w.ev = FALSE
      /\ loop = Idle /\ the_scheduler \in Schedulers
  BY DEF Init, World
<1>2. w \in Worlds
  <2>1. w = [chan |-> w.chan, circ |-> w.circ, pending |-> w.pending, ev |-> w.ev]
    BY DEF World
  <2> HIDE DEF w
  <2>2. /\ w.chan \in [Channels -> ChannelRecords]
        /\ w.circ \in [Circuits -> CircuitRecords]
    BY <1>1, NewRecords
  <2> QED
    BY <1>1, <2>1, <2>2 DEF Worlds
<1> HIDE DEF w
<1>3. ASSUME NEW c \in Channels
      PROVE  ChannelGood(w, Idle, c)
  <2>1. /\ Totals(w.chan[c]) /\ w.chan[c].state = "OPENING" /\ w.chan[c].conn = "ok"
        /\ w.chan[c].sched = "IDLE"
        /\ \A k \in Circuits : w.chan[c].count[k] = Detached
    BY <1>1, NewRecords
  <2>2. \A k \in Circuits : w.circ[k].on = {} /\ w.circ[k].queue[c] = 0
    BY <1>1, NewRecords
  <2>3. Life(w, c)
    BY <2>1, <2>2 DEF Life
  <2>4. Mux(w, c)
    BY <2>1, <2>2 DEF Mux, Entry
  <2>5. Heap(w, Idle, c)
    BY <1>1, <2>1, IdleFacts DEF Heap
  <2>6. Wake(w, c)
    BY <2>1 DEF Wake
  <2> QED
    BY <2>3, <2>4, <2>5, <2>6 DEF ChannelGood
<1>4. Shape(w, Idle)
  BY <1>1, IdleFacts DEF Shape
<1>5. Good(w, Idle)
  BY <1>2, <1>3, <1>4, IdleFacts DEF Good
<1> QED
  BY <1>1, <1>5 DEF Inv, w

LEMMA RunStepInv ==
  ASSUME Inv, RunStep
  PROVE  Inv'
<1>1. CASE kist_pop
  BY <1>1, KistPops
<1>2. CASE kist_serve
  BY <1>2, KistServes
<1>3. CASE kist_write_outbuf
  BY <1>3, KistWrites
<1>4. CASE kist_run_ends \/ vanilla_run_ends
  BY <1>4, RunEnds
<1>5. CASE vanilla_pop
  BY <1>5, VanillaPops
<1>6. CASE vanilla_decide
  BY <1>6, VanillaDecides
<1>7. CASE channel_flush_from_first_active_circuit
  BY <1>7, CellFlushed
<1> QED
  BY <1>1, <1>2, <1>3, <1>4, <1>5, <1>6, <1>7 DEF RunStep

LEMMA CleanupStepInv ==
  ASSUME Inv, CleanupStep
  PROVE  Inv'
<1>1. ASSUME NEW k \in Circuits, circuit_free(k)
      PROVE  Inv'
  BY <1>1, CircuitFreed
<1>2. ASSUME NEW k \in Circuits, NEW c \in Channels, circuit_about_to_free(k, c)
      PROVE  Inv'
  BY <1>2, CircuitDetached
<1>3. CASE circuits_are_closed
  BY <1>3, CircuitsClosed
<1>4. ASSUME NEW c \in Channels, conn_close_if_marked(c)
      PROVE  Inv'
  BY <1>4, ConnectionCloses
<1>5. CASE channel_run_cleanup
  BY <1>5, ChannelsFreed
<1> QED
  BY <1>1, <1>2, <1>3, <1>4, <1>5 DEF CleanupStep

LEMMA NextInv ==
  ASSUME Inv, [Next]_vars
  PROVE  Inv'
<1>1. ASSUME NEW c \in Channels, channel_tls_handle_state_change_on_orconn(c)
      PROVE  Inv'
  BY <1>1, ChannelOpens
<1>2. ASSUME NEW c \in Channels, close_channel(c)
      PROVE  Inv'
  BY <1>2, ChannelCloses
<1>3. ASSUME NEW c \in Channels, conn_write_callback(c)
      PROVE  Inv'
  BY <1>3, ConnectionWrites
<1>4. ASSUME NEW c \in Channels, \/ channelpadding_send_padding_cell_for_callback(c)
                                 \/ channelpadding_disable_padding_on_channel(c)
      PROVE  Inv'
  BY <1>4, Padding
<1>5. ASSUME NEW c \in Channels, NEW k \in Circuits, attach_circuit(k, c)
      PROVE  Inv'
  BY <1>5, CircuitAttaches
<1>6. ASSUME NEW c \in Channels, NEW k \in Circuits, relay_cell(k, c)
      PROVE  Inv'
  BY <1>6, CellArrives
<1>7. ASSUME NEW k \in Circuits, close_circuit(k)
      PROVE  Inv'
  BY <1>7, CircuitCloses
<1>8. CASE scheduler_conf_changed
  BY <1>8, ConfChanges
<1>9. CASE KistRunBegins
  BY <1>9, KistBegins
<1>10. CASE vanilla_run_begins
  BY <1>10, VanillaBegins
<1>11. CASE RunStep
  BY <1>11, RunStepInv
<1>12. CASE postloop_begins
  BY <1>12, CleanupBegins
<1>13. CASE CleanupStep
  BY <1>13, CleanupStepInv
<1>14. CASE UNCHANGED vars
  <2>1. World' = World /\ loop' = loop /\ the_scheduler' = the_scheduler
    BY <1>14 DEF vars, World
  <2> QED
    BY <2>1 DEF Inv
<1> QED
  BY <1>1, <1>2, <1>3, <1>4, <1>5, <1>6, <1>7, <1>8, <1>9, <1>10, <1>11, <1>12,
     <1>13, <1>14 DEF Next

LEMMA AlwaysInv == Spec => []Inv
BY InitInv, NextInv, PTL DEF Spec
-----------------------------------------------------------------------------
(* What the invariant says.                                                *)
LEMMA InvType == Inv => SchedulerTypeOK
<1> SUFFICES ASSUME Inv
             PROVE  SchedulerTypeOK
  OBVIOUS
<1>1. /\ chan \in [Channels -> ChannelRecords] /\ circ \in [Circuits -> CircuitRecords]
      /\ channels_pending \in SUBSET Channels /\ run_sched_ev \in BOOLEAN
      /\ the_scheduler \in Schedulers
  <2>1. World.ev \in BOOLEAN
    BY WorldFacts DEF Worlds
  <2> QED
    BY <2>1, WorldFacts DEF Inv
<1>2. ASSUME NEW c \in Channels
      PROVE  LET x == chan[c] IN
             /\ x.state \in {"OPENING", "OPEN", "CLOSING", "CLOSED", "freed"}
             /\ x.sched \in {"IDLE", "WAITING_FOR_CELLS", "WAITING_TO_WRITE", "PENDING"}
             /\ x.conn \in {"ok", "held", "dead", "null"}
             /\ {x.outbuf, x.n_cells, x.n_active_circuits, x.destroys} \subseteq Nat
             /\ x.limit \in {NoEntry} \cup Nat
             /\ x.count \in [Circuits -> {Detached} \cup Nat]
  <2>1. chan[c] \in ChannelRecords
    BY <1>1
  <2> QED
    BY <2>1 DEF ChannelRecords, Counts
<1>3. ASSUME NEW k \in Circuits
      PROVE  /\ circ[k].state \in {"unused", "open", "marked", "freed"}
             /\ circ[k].on \subseteq Channels
             /\ circ[k].queue \in [Channels -> Nat]
  <2>1. circ[k] \in CircuitRecords
    BY <1>1
  <2> QED
    BY <2>1 DEF CircuitRecords
<1> QED
  BY <1>1, <1>2, <1>3 DEF SchedulerTypeOK

LEMMA InvHeap == Inv => HeapAgrees
<1> SUFFICES ASSUME Inv
             PROVE  HeapAgrees
  OBVIOUS
<1>1. /\ World.chan = chan /\ World.pending = channels_pending
      /\ channels_pending \in SUBSET Channels /\ loop \in Loops
  BY WorldFacts
<1>2. \A c \in Channels : Heap(World, loop, c)
  BY WorldFacts DEF Good, ChannelGood
<1>3. \A c \in channels_pending : chan[c].sched = "PENDING"
  BY <1>1, <1>2 DEF Heap
<1>4. \A c \in Channels : chan[c].sched = "PENDING" =>
        c \in channels_pending \cup loop.readd \cup {loop.chan}
  BY <1>1, <1>2 DEF Heap
<1>5. \A c \in Channels : chan[c].conn = "null" =>
        /\ c \notin channels_pending \cup loop.readd \cup loop.outbufs
                    \cup ({loop.chan, loop.prev} \ {None})
        /\ chan[c].limit = NoEntry
  BY <1>1, <1>2 DEF Heap
<1>6. loop.at = "kist" /\ loop.chan # None => chan[loop.chan].limit # NoEntry
  BY <1>1, <1>2 DEF Heap, Loops
<1> QED
  BY <1>3, <1>4, <1>5, <1>6 DEF HeapAgrees

LEMMA InvWake == Inv => CellsAreScheduled
<1> SUFFICES ASSUME Inv
             PROVE  CellsAreScheduled
  OBVIOUS
<1>1. /\ World.chan = chan /\ World.circ = circ /\ World.pending = channels_pending
      /\ World.ev = run_sched_ev /\ Shape(World, loop)
      /\ chan \in [Channels -> ChannelRecords]
  BY WorldFacts DEF Good
<1>2. ASSUME NEW c \in Channels, chan[c].state = "OPEN",
             NEW k \in Circuits, circ[k].queue[c] > 0
      PROVE  \/ chan[c].sched = "PENDING"
             \/ chan[c].sched = "WAITING_TO_WRITE" /\ chan[c].outbuf > 0
  <2>1. Wake(World, c)
    BY WorldFacts DEF Good, ChannelGood
  <2>2. chan[c].sched \in {"IDLE", "WAITING_FOR_CELLS", "WAITING_TO_WRITE", "PENDING"}
    BY <1>1 DEF ChannelRecords
  <2>3. circ[k].queue[c] # 0
    BY <1>2
  <2> QED
    BY <1>1, <1>2, <2>1, <2>2, <2>3 DEF Wake
<1>3. channels_pending # {} => run_sched_ev \/ loop.at \in {"kist", "vanilla"}
  BY <1>1 DEF Shape, Running
<1> QED
  BY <1>2, <1>3 DEF CellsAreScheduled

LEMMA InvMux == Inv => MuxAgrees
<1> SUFFICES ASSUME Inv, NEW c \in Channels
             PROVE  LET x == chan[c]
                        attached == {k \in Circuits : x.count[k] # Detached}
                    IN
                    /\ attached = {k \in Circuits : c \in circ[k].on}
                    /\ x.n_cells = Cardinality(CountedCells(x))
                    /\ x.n_active_circuits = Cardinality({k \in attached : x.count[k] > 0})
                    /\ \A k \in attached :
                         \/ x.count[k] = circ[k].queue[c]
                         \/ circ[k].state = "marked" /\ x.count[k] > circ[k].queue[c]
  BY DEF MuxAgrees
<1> DEFINE x == chan[c]
           attached == {k \in Circuits : x.count[k] # Detached}
<1>1. World.chan = chan /\ World.circ = circ /\ chan[c] \in ChannelRecords
  BY WorldFacts
<1>2. Totals(x) /\ \A k \in Circuits : Entry(World, c, k)
  BY <1>1, WorldFacts DEF Good, ChannelGood, Mux
<1>3. \A k \in Circuits : k \in attached <=> c \in circ[k].on
  BY <1>1, <1>2 DEF Entry
<1>4. \A k \in attached :
        \/ x.count[k] = circ[k].queue[c]
        \/ circ[k].state = "marked" /\ x.count[k] > circ[k].queue[c]
  BY <1>1, <1>2, <1>3 DEF Entry
<1>5. active_circuits(x) = {k \in attached : x.count[k] > 0}
  <2>1. \A k \in Circuits : x.count[k] > 0 => x.count[k] # Detached
    BY <1>1 DEF ChannelRecords, Counts, Detached
  <2> QED
    BY <2>1 DEF active_circuits
<1>6. attached = {k \in Circuits : c \in circ[k].on}
  BY <1>3
<1> HIDE DEF x, attached
<1>7. /\ x.n_cells = Cardinality(CountedCells(x))
      /\ x.n_active_circuits = Cardinality({k \in attached : x.count[k] > 0})
  BY <1>2, <1>5 DEF Totals
<1> QED
  BY <1>4, <1>6, <1>7 DEF x, attached
-----------------------------------------------------------------------------
(* The channels, the circuits and what the scheduler holds always have     *)
(* their types: no counter of a circuitmux, no outbuf and no limit of a    *)
(* socket ever becomes negative (the subtractions of circuitmux.c and of   *)
(* update_socket_written).                                                 *)
THEOREM SchedulerTypeCorrect == Spec => []SchedulerTypeOK
BY AlwaysInv, InvType, PTL

(* The heap of the scheduler and the states of the channels always agree,  *)
(* and nothing the scheduler holds names a channel that has lost its       *)
(* connection (scheduler_release_channel).                                 *)
THEOREM HeapAlwaysAgrees == Spec => []HeapAgrees
BY AlwaysInv, InvHeap, PTL

(* No wakeup is lost, in any order of the handlers, with either scheduler  *)
(* or a change from one to the other: an open channel with relay cells is  *)
(* pending, or waits for an outbuf that has cells.                         *)
THEOREM NoWakeupIsLost == Spec => []CellsAreScheduled
BY AlwaysInv, InvWake, PTL

(* The counters of every circuitmux are always exact (the assertions of    *)
(* circuitmux_get_first_active_circuit).                                   *)
THEOREM MuxStaysExact == Spec => []MuxAgrees
BY AlwaysInv, InvMux, PTL
=============================================================================
