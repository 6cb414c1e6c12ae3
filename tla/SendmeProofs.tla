---------------------------- MODULE SendmeProofs ----------------------------
(***************************************************************************)
(* Proofs about Sendme, for any windows, increments, water marks and       *)
(* number of streams: windows stay in range, credit is conserved, no       *)
(* stream sleeps; and, when the windows are in step, every SENDME is       *)
(* predicted, matches its digest and is accepted.                          *)
(*                                                                         *)
(* All but the last part looks at one direction at a time: the edge that   *)
(* sends, the edge that receives, and what is on the way between them.     *)
(***************************************************************************)
EXTENDS Sendme, SequenceTheorems, FiniteSetTheorems, TLAPS

-----------------------------------------------------------------------------
(* Counting the cells of a pipe.                                           *)

(* Members of S among the first n elements of q.                           *)
Count(q, n, S) == Cardinality({i \in 1..n : q[i] \in S})

LEMMA CountIsNat ==
  ASSUME NEW q, NEW n \in Nat, NEW S
  PROVE  /\ IsFiniteSet({i \in 1..n : q[i] \in S})
         /\ Count(q, n, S) \in Nat /\ Count(q, n, S) <= n
<1>1. IsFiniteSet(1..n) /\ Cardinality(1..n) = n
  <2>1. \A a, b \in Int : /\ IsFiniteSet(a..b)
                          /\ Cardinality(a..b) = IF a > b THEN 0 ELSE b - a + 1
    BY FS_Interval
  <2> QED
    BY <2>1
<1>2. {i \in 1..n : q[i] \in S} \in SUBSET (1..n)
  OBVIOUS
<1> QED
  BY <1>1, <1>2, FS_Subset, FS_CardinalityType DEF Count

LEMMA CountNone ==
  ASSUME NEW q, NEW S
  PROVE  Count(q, 0, S) = 0
<1>1. {i \in 1..0 : q[i] \in S} = {}
  OBVIOUS
<1> QED
  BY <1>1, FS_EmptySet DEF Count

(* Only the elements that are counted matter.                              *)
LEMMA CountSame ==
  ASSUME NEW q, NEW r, NEW n, \A i \in 1..n : q[i] = r[i], NEW S
  PROVE  Count(q, n, S) = Count(r, n, S)
<1>1. {i \in 1..n : q[i] \in S} = {i \in 1..n : r[i] \in S}
  OBVIOUS
<1> QED
  BY <1>1 DEF Count

LEMMA CountNext ==
  ASSUME NEW q, NEW n \in Nat, NEW S
  PROVE  Count(q, n + 1, S) = Count(q, n, S) + (IF q[n + 1] \in S THEN 1 ELSE 0)
<1> DEFINE A == {i \in 1..n : q[i] \in S}
           B == {i \in 1..(n + 1) : q[i] \in S}
<1>1. IsFiniteSet(A) /\ Cardinality(A) \in Nat
  BY CountIsNat DEF Count
<1>2. n + 1 \notin A
  OBVIOUS
<1>3. CASE q[n + 1] \in S
  <2>1. B = A \cup {n + 1}
    BY <1>3
  <2> HIDE DEF A, B
  <2>2. Cardinality(B) = Cardinality(A) + 1
    BY <1>1, <1>2, <2>1, FS_AddElement
  <2> QED
    BY <1>3, <2>2 DEF A, B, Count
<1>4. CASE q[n + 1] \notin S
  <2>1. B = A
    BY <1>4
  <2> HIDE DEF A, B
  <2>2. Cardinality(B) = Cardinality(A) + 0
    BY <1>1, <2>1
  <2> QED
    BY <1>4, <2>2 DEF A, B, Count
<1> QED
  BY <1>3, <1>4

(* Without its first element.                                              *)
LEMMA CountRest ==
  ASSUME NEW q, NEW r, NEW n \in Nat, \A i \in 1..n : r[i] = q[i + 1], NEW S
  PROVE  Count(q, n + 1, S) = Count(r, n, S) + (IF q[1] \in S THEN 1 ELSE 0)
<1> DEFINE A == {i \in 1..n : r[i] \in S}
           B == {i \in 1..(n + 1) : q[i] \in S}
           C == {i \in 2..(n + 1) : q[i] \in S}
           f == [i \in A |-> i + 1]
<1>1. IsFiniteSet(A) /\ Cardinality(A) \in Nat
  BY CountIsNat DEF Count
<1>2. f \in Bijection(A, C)
  <2>1. f \in [A -> C]
    <3>1. \A i \in A : i + 1 \in C
      OBVIOUS
    <3> QED
      BY <3>1
  <2>2. \A i, j \in A : f[i] = f[j] => i = j
    OBVIOUS
  <2>3. \A k \in C : k - 1 \in A /\ f[k - 1] = k
    <3> SUFFICES ASSUME NEW k \in C PROVE k - 1 \in A /\ f[k - 1] = k
      OBVIOUS
    <3>1. k \in Int /\ k - 1 \in 1..n /\ (k - 1) + 1 = k /\ q[k] \in S
      OBVIOUS
    <3>2. r[k - 1] = q[k]
      BY <3>1
    <3>3. k - 1 \in A
      BY <3>1, <3>2
    <3> QED
      BY <3>1, <3>3
  <2> QED
    BY <2>1, <2>2, <2>3 DEF Bijection, Injection, Surjection, IsInjective
<1>3. IsFiniteSet(C) /\ Cardinality(C) = Cardinality(A)
  BY <1>1, <1>2, FS_Bijection DEF ExistsBijection
<1>4. 1 \notin C
  OBVIOUS
<1>5. CASE q[1] \in S
  <2>1. B = C \cup {1}
    BY <1>5
  <2> HIDE DEF A, B, C
  <2>2. Cardinality(B) = Cardinality(A) + 1
    BY <1>1, <1>3, <1>4, <2>1, FS_AddElement
  <2> QED
    BY <1>5, <2>2 DEF A, B, Count
<1>6. CASE q[1] \notin S
  <2>1. B = C
    BY <1>6
  <2> HIDE DEF A, B, C
  <2>2. Cardinality(B) = Cardinality(A) + 0
    BY <1>1, <1>3, <2>1
  <2> QED
    BY <1>6, <2>2 DEF A, B, Count
<1> QED
  BY <1>5, <1>6

(* Counting further never counts less.                                     *)
LEMMA CountGrows ==
  ASSUME NEW q, NEW n \in Nat, NEW m \in Nat, n <= m, NEW S
  PROVE  Count(q, n, S) <= Count(q, m, S)
<1> DEFINE A == {i \in 1..n : q[i] \in S}
           B == {i \in 1..m : q[i] \in S}
<1>1. A \in SUBSET B
  OBVIOUS
<1>2. IsFiniteSet(B)
  BY CountIsNat
<1>3. Cardinality(A) <= Cardinality(B)
  <2> HIDE DEF A, B
  <2> QED
    BY <1>1, <1>2, FS_Subset
<1> QED
  BY <1>3 DEF Count

(* All of q.                                                               *)
Total(q, S) == Count(q, Len(q), S)

LEMMA TotalAppend ==
  ASSUME NEW C, NEW q \in Seq(C), NEW c \in C, NEW S
  PROVE  /\ Total(Append(q, c), S) = Total(q, S) + (IF c \in S THEN 1 ELSE 0)
         /\ \A n \in 0..Len(q) : Count(Append(q, c), n, S) = Count(q, n, S)
         /\ Total(q, S) \in Nat
<1> DEFINE r == Append(q, c)
           n == Len(q)
<1>1. n \in Nat /\ Len(r) = n + 1 /\ r[n + 1] = c /\ \A i \in 1..n : r[i] = q[i]
  OBVIOUS
<1> HIDE DEF r, n
<1>2. ASSUME NEW m \in 0..n
      PROVE  Count(r, m, S) = Count(q, m, S)
  <2>1. \A i \in 1..m : r[i] = q[i]
    BY <1>1
  <2> QED
    BY <2>1, CountSame
<1>3. Count(r, n + 1, S) = Count(r, n, S) + (IF c \in S THEN 1 ELSE 0)
  BY <1>1, CountNext
<1>4. Count(r, n, S) = Count(q, n, S)
  BY <1>1, <1>2
<1>5. Total(r, S) = Total(q, S) + (IF c \in S THEN 1 ELSE 0)
  BY <1>1, <1>3, <1>4 DEF Total, n
<1>6. Total(q, S) \in Nat
  BY <1>1, CountIsNat DEF Total, n
<1> QED
  BY <1>2, <1>5, <1>6 DEF r, n

LEMMA TotalTail ==
  ASSUME NEW C, NEW q \in Seq(C), q # << >>, NEW S
  PROVE  /\ Total(q, S) = Total(Tail(q), S) + (IF Head(q) \in S THEN 1 ELSE 0)
         /\ \A n \in 0..Len(Tail(q)) :
              Count(q, n + 1, S) = Count(Tail(q), n, S) + (IF Head(q) \in S THEN 1 ELSE 0)
         /\ Total(q, S) \in Nat /\ Total(Tail(q), S) \in Nat
<1> DEFINE r == Tail(q)
           n == Len(r)
<1>1. n \in Nat /\ Len(q) = n + 1 /\ q[1] = Head(q) /\ \A i \in 1..n : r[i] = q[i + 1]
  OBVIOUS
<1> HIDE DEF r, n
<1>2. ASSUME NEW m \in 0..n
      PROVE  Count(q, m + 1, S) = Count(r, m, S) + (IF Head(q) \in S THEN 1 ELSE 0)
  <2>1. m \in Nat /\ \A i \in 1..m : r[i] = q[i + 1]
    BY <1>1
  <2>2. Count(q, m + 1, S) = Count(r, m, S) + (IF q[1] \in S THEN 1 ELSE 0)
    BY <2>1, CountRest, SMTT(40)
  <2> QED
    BY <1>1, <2>2
<1>3. Total(q, S) = Total(r, S) + (IF Head(q) \in S THEN 1 ELSE 0)
  BY <1>1, <1>2 DEF Total, n
<1>4. Total(q, S) \in Nat /\ Total(r, S) \in Nat
  <2>1. Count(r, n, S) \in Nat
    BY <1>1, CountIsNat
  <2>2. n + 1 \in Nat
    BY <1>1
  <2>3. Count(q, n + 1, S) \in Nat
    BY <2>2, CountIsNat
  <2> QED
    BY <1>1, <2>1, <2>3 DEF Total, n
<1> QED
  BY <1>2, <1>3, <1>4 DEF r, n

(* The cells an edge sends.                                                *)
Digests == Ends \X Nat

Cells ==
  {c \in [command : {"DATA", "SENDME", "OTHER"}, stream : Streams \cup {"circuit"},
          digest : Digests \cup {<< >>}] :
     /\ c.command = "DATA" => c.stream \in Streams
     /\ c.command = "OTHER" => c.stream = "circuit"}

Kind(command, s) == {c \in Cells : c.command = command /\ c.stream = s}
DataCells == {c \in Cells : c.command = "DATA"}
Sendmes == Kind("SENDME", "circuit")
Others == Kind("OTHER", "circuit")

LEMMA CellTypes ==
  /\ "circuit" \notin Streams
  /\ \A s \in Streams :
       /\ Data(s) \in DataCells /\ Data(s) \in Kind("DATA", s)
       /\ StreamSendme(s) \in Kind("SENDME", s)
       /\ Data(s) \in Cells /\ StreamSendme(s) \in Cells
  /\ Other \in Cells /\ Other \in Kind("OTHER", "circuit")
  /\ \A d \in Digests \cup {<< >>} : CircSendme(d) \in Cells /\ CircSendme(d) \in Sendmes
BY SendmeAssumption DEF Data, StreamSendme, Other, CircSendme, Cells, Kind, DataCells, Sendmes

(* The counts of the properties are totals.                                *)
LEMMA CellsInIsTotal ==
  ASSUME NEW q \in Seq(Cells)
  PROVE  /\ DataIn(q) = Total(q, DataCells)
         /\ \A command, s : CellsIn(q, command, s) = Total(q, Kind(command, s))
         /\ SendmesIn(q) = Total(q, Sendmes)
         /\ \A n \in 0..Len(q) : SendmesUpTo(q, n) = Count(q, n, Sendmes)
<1>1. Len(q) \in Nat /\ DOMAIN q = 1..Len(q) /\ \A i \in 1..Len(q) : q[i] \in Cells
  OBVIOUS
<1>2. ASSUME NEW n \in 0..Len(q), NEW command, NEW s
      PROVE  CellsUpTo(q, n, command, s) = Count(q, n, Kind(command, s))
  <2>1. {i \in 1..n : q[i].command = command /\ q[i].stream = s}
          = {i \in 1..n : q[i] \in Kind(command, s)}
    BY <1>1 DEF Kind
  <2> QED
    BY <2>1 DEF CellsUpTo, Count
<1>3. {i \in DOMAIN q : q[i].command = "DATA"} = {i \in 1..Len(q) : q[i] \in DataCells}
  BY <1>1 DEF DataCells
<1>4. DataIn(q) = Total(q, DataCells)
  BY <1>3 DEF DataIn, Total, Count
<1>5. Len(q) \in 0..Len(q)
  BY <1>1
<1>6. \A command, s : CellsIn(q, command, s) = Total(q, Kind(command, s))
  BY <1>2, <1>5 DEF CellsIn, Total
<1>7. \A n \in 0..Len(q) : SendmesUpTo(q, n) = Count(q, n, Sendmes)
  BY <1>2 DEF SendmesUpTo, Sendmes
<1>8. SendmesIn(q) = Total(q, Sendmes)
  BY <1>5, <1>7 DEF SendmesIn, Total
<1> QED
  BY <1>4, <1>6, <1>7, <1>8

-----------------------------------------------------------------------------
(* Division by an increment.                                               *)

LEMMA Larger ==
  ASSUME NEW n \in Nat, NEW p \in Int, NEW q \in Int, p < q
  PROVE  n * p + n <= n * q
<1> DEFINE k == q - p - 1
<1>1. k \in Nat /\ q = p + 1 + k
  OBVIOUS
<1> HIDE DEF k
<1>2. n * q = n * p + n + n * k /\ n * k \in Nat /\ n * p \in Int
  BY <1>1
<1> QED
  BY <1>2

(* Quotient and remainder are unique.                                      *)
LEMMA Division ==
  ASSUME NEW n \in Nat, n > 0, NEW a \in Nat
  PROVE  /\ a \div n \in Nat /\ a % n \in 0..(n - 1) /\ a = n * (a \div n) + (a % n)
         /\ \A q \in Int, r \in 0..(n - 1) : a = n * q + r => a \div n = q /\ a % n = r
<1> DEFINE d == a \div n
           m == a % n
<1>1. m \in 0..(n - 1) /\ d \in Int
  OBVIOUS
<1>2. a = n * d + m
  OBVIOUS
<1> HIDE DEF d, m
<1>3. d >= 0
  <2> SUFFICES ASSUME d < 0 PROVE FALSE
    BY <1>1
  <2>1. n * d + n <= n * 0
    BY <1>1, Larger
  <2>2. n * d \in Int
    BY <1>1
  <2> QED
    BY <1>1, <1>2, <2>1, <2>2
<1>4. ASSUME NEW q \in Int, NEW r \in 0..(n - 1), a = n * q + r
      PROVE  d = q /\ m = r
  <2>1. n * d \in Int /\ n * q \in Int
    BY <1>1
  <2>2. CASE q < d
    <3>1. n * q + n <= n * d
      BY <1>1, <2>2, Larger
    <3> QED
      BY <1>1, <1>2, <1>4, <2>1, <3>1
  <2>3. CASE d < q
    <3>1. n * d + n <= n * q
      BY <1>1, <2>3, Larger
    <3> QED
      BY <1>1, <1>2, <1>4, <2>1, <3>1
  <2>4. CASE d = q
    BY <1>1, <1>2, <1>4, <2>1, <2>4
  <2> QED
    BY <1>1, <2>2, <2>3, <2>4
<1> QED
  BY <1>1, <1>2, <1>3, <1>4 DEF d, m

(* One more: the quotient moves when the remainder comes round.            *)
LEMMA DivideNext ==
  ASSUME NEW n \in Nat, n > 0, NEW a \in Nat
  PROVE  (a + 1) \div n = (a \div n) + (IF (a + 1) % n = 0 THEN 1 ELSE 0)
<1> DEFINE d == a \div n
           m == a % n
           b == a + 1
<1>1. d \in Nat /\ m \in 0..(n - 1) /\ a = n * d + m /\ n * d \in Int
  BY Division
<1>2. b \in Nat
  OBVIOUS
<1>3. \A q \in Int, r \in 0..(n - 1) : b = n * q + r => b \div n = q /\ b % n = r
  BY <1>2, Division
<1> HIDE DEF d, m
<1>4. CASE m = n - 1
  <2>1. b = n * (d + 1) + 0
    BY <1>1, <1>4
  <2>2. d + 1 \in Int /\ 0 \in 0..(n - 1)
    BY <1>1
  <2> HIDE DEF b
  <2>3. b \div n = d + 1 /\ b % n = 0
    BY <1>3, <2>1, <2>2
  <2> QED
    BY <2>3 DEF d, b
<1>5. CASE m # n - 1
  <2>1. b = n * d + (m + 1)
    BY <1>1, <1>5
  <2>2. d \in Int /\ m + 1 \in 0..(n - 1) /\ m + 1 # 0
    BY <1>1, <1>5
  <2> HIDE DEF b
  <2>3. b \div n = d /\ b % n = m + 1
    BY <1>3, <2>1, <2>2
  <2>4. b % n # 0 /\ b \div n = d + 0
    BY <1>1, <2>2, <2>3
  <2> QED
    BY <2>4 DEF d, b
<1> QED
  BY <1>4, <1>5

(* Multiples of the increment do not change the remainder.                 *)
LEMMA DivideMore ==
  ASSUME NEW n \in Nat, n > 0, NEW a \in Nat, NEW k \in Nat
  PROVE  (a + k * n) \div n = (a \div n) + k /\ (a + k * n) % n = a % n
<1> DEFINE d == a \div n
           m == a % n
           b == a + k * n
<1>1. d \in Nat /\ m \in 0..(n - 1) /\ a = n * d + m
  BY Division
<1>2. b \in Nat
  OBVIOUS
<1>3. \A q \in Int, r \in 0..(n - 1) : b = n * q + r => b \div n = q /\ b % n = r
  BY <1>2, Division
<1> HIDE DEF d, m
<1>4. b = n * (d + k) + m /\ d + k \in Int
  BY <1>1
<1> HIDE DEF b
<1>5. b \div n = d + k /\ b % n = m
  BY <1>1, <1>3, <1>4
<1> QED
  BY <1>5 DEF b, d, m

LEMMA DivideSmall ==
  ASSUME NEW n \in Nat, n > 0, NEW a \in 0..(n - 1)
  PROVE  a \div n = 0 /\ a % n = a
<1>1. a \in Nat /\ a = n * 0 + a
  OBVIOUS
<1> QED
  BY <1>1, Division

(* What is missing to a multiple is a multiple exactly if the rest is.     *)
LEMMA DivideRest ==
  ASSUME NEW n \in Nat, n > 0, NEW c \in Nat, c % n = 0, NEW a \in Nat, a <= c
  PROVE  (c - a) % n = 0 <=> a % n = 0
<1> DEFINE b == c - a
<1>1. b \in Nat
  OBVIOUS
<1>2. PICK p \in Int : c = n * p
  BY Division
<1>3. \A x \in Nat : x % n = 0 <=> \E q \in Int : x = n * q
  <2> SUFFICES ASSUME NEW x \in Nat PROVE x % n = 0 <=> \E q \in Int : x = n * q
    OBVIOUS
  <2>1. x \div n \in Int /\ x = n * (x \div n) + (x % n)
    BY Division
  <2>2. ASSUME x % n = 0 PROVE \E q \in Int : x = n * q
    BY <2>1, <2>2
  <2>3. ASSUME NEW q \in Int, x = n * q PROVE x % n = 0
    <3>1. x = n * q + 0 /\ 0 \in 0..(n - 1)
      BY <2>3
    <3> QED
      BY <3>1, Division
  <2> QED
    BY <2>2, <2>3
<1>4. ASSUME NEW q \in Int, b = n * q
      PROVE  \E r \in Int : a = n * r
  <2>1. p - q \in Int /\ a = n * (p - q)
    BY <1>2, <1>4
  <2> QED
    BY <2>1
<1>5. ASSUME NEW q \in Int, a = n * q
      PROVE  \E r \in Int : b = n * r
  <2>1. p - q \in Int /\ b = n * (p - q)
    BY <1>2, <1>5
  <2> QED
    BY <2>1
<1> HIDE DEF b
<1>6. b % n = 0 <=> a % n = 0
  BY <1>1, <1>3, <1>4, <1>5
<1> QED
  BY <1>6 DEF b

-----------------------------------------------------------------------------
(* An edge, and what sending a cell does to it.                            *)

Fields ==
  {"package_window", "deliver_window", "inflight", "cwnd", "stream_package",
   "stream_deliver", "last_digests", "sendme_digest", "sent", "received", "queue",
   "blocked", "inbuf", "reading", "outbuf", "task", "closed"}

IsEdge(x) ==
  /\ DOMAIN x = Fields
  /\ x.package_window \in Int /\ x.deliver_window \in Int
  /\ x.inflight \in Int /\ x.cwnd \in Cwnds
  /\ x.stream_package \in [Streams -> Int] /\ x.stream_deliver \in [Streams -> Int]
  /\ x.last_digests \in Seq(Digests) /\ x.sendme_digest \in Digests
  /\ x.sent \in Nat /\ x.received \in Nat
  /\ x.queue \in Seq(Cells) /\ x.blocked \in BOOLEAN /\ x.closed \in BOOLEAN
  /\ x.inbuf \in [Streams -> Nat] /\ x.outbuf \in [Streams -> Nat]
  /\ x.reading \in [Streams -> BOOLEAN]
  /\ "op" \in DOMAIN x.task

SameWindows(x, z) ==
  /\ z.package_window = x.package_window /\ z.deliver_window = x.deliver_window
  /\ z.inflight = x.inflight /\ z.cwnd = x.cwnd
  /\ z.stream_package = x.stream_package /\ z.stream_deliver = x.stream_deliver

SameRest(x, z) ==
  /\ z.received = x.received /\ z.inbuf = x.inbuf /\ z.outbuf = x.outbuf /\ z.task = x.task

(* Reading stops only for a queue that is blocked.                         *)
StopsForQueue(x, z) ==
  /\ x.blocked => z.blocked
  /\ ~z.blocked => z.reading = x.reading

(* Cell c is on the queue, or the queue is full.                           *)
Queues(x, c, z) ==
  \/ z.closed = x.closed /\ z.queue = Append(x.queue, c)
  \/ z.closed /\ z.queue = x.queue /\ Len(x.queue) >= max_circuit_cell_queue_size

LEMMA AppendCell ==
  ASSUME NEW x, IsEdge(x), NEW c \in Cells
  PROVE  LET z == append_cell_to_circuit_queue(x, c)
         IN  /\ IsEdge(z) /\ SameWindows(x, z) /\ SameRest(x, z) /\ Queues(x, c, z)
             /\ StopsForQueue(x, z)
             /\ z.sent = x.sent /\ z.sendme_digest = x.sendme_digest
             /\ z.last_digests = x.last_digests
<1> DEFINE z == append_cell_to_circuit_queue(x, c)
           y == [x EXCEPT !.queue = Append(@, c)]
           b == [y EXCEPT !.blocked = TRUE]
           none == [s \in Streams |-> FALSE]
<1>1. CASE Len(x.queue) >= max_circuit_cell_queue_size
  <2>1. z = [x EXCEPT !.closed = TRUE]
    BY <1>1 DEF append_cell_to_circuit_queue, Close
  <2>2. /\ DOMAIN z = Fields /\ z.closed = TRUE
        /\ \A f \in Fields \ {"closed"} : z[f] = x[f]
    BY <2>1 DEF IsEdge, Fields
  <2> HIDE DEF z
  <2> QED
    BY <1>1, <2>2 DEF IsEdge, Fields, SameWindows, SameRest, Queues, StopsForQueue, z
<1>2. CASE ~(Len(x.queue) >= max_circuit_cell_queue_size)
  <2>1. z = block_streams(y, c.stream)
    BY <1>2 DEF append_cell_to_circuit_queue
  <2>2. /\ DOMAIN y = Fields /\ y.queue = Append(x.queue, c)
        /\ \A f \in Fields \ {"queue"} : y[f] = x[f]
    BY DEF IsEdge, Fields
  <2>3. y.queue \in Seq(Cells) /\ y.blocked = x.blocked /\ y.reading = x.reading
    BY <2>2 DEF IsEdge, Fields
  <2>4. /\ DOMAIN b = Fields /\ b.blocked = TRUE
        /\ \A f \in Fields \ {"blocked"} : b[f] = y[f]
    BY <2>2 DEF Fields
  <2> HIDE DEF y, b, z
  <2>5. \/ z = y
        \/ z = [b EXCEPT !.reading = none]
        \/ y.blocked /\ c.stream \in Streams /\ z = [y EXCEPT !.reading[c.stream] = FALSE]
    BY <2>1 DEF block_streams, stop_reading_all, b
  <2>6. \/ z = y
        \/ /\ DOMAIN z = Fields /\ z.blocked = TRUE /\ z.reading \in [Streams -> BOOLEAN]
           /\ \A f \in Fields \ {"blocked", "reading"} : z[f] = y[f]
    <3>1. CASE z = [b EXCEPT !.reading = none]
      BY <2>4, <3>1 DEF Fields
    <3>2. CASE y.blocked /\ c.stream \in Streams /\ z = [y EXCEPT !.reading[c.stream] = FALSE]
      <4>1. y.reading \in [Streams -> BOOLEAN] /\ y.blocked = TRUE
        BY <2>3, <3>2 DEF IsEdge
      <4>2. [y.reading EXCEPT ![c.stream] = FALSE] \in [Streams -> BOOLEAN]
        BY <4>1
      <4>3. z = [y EXCEPT !.reading = [y.reading EXCEPT ![c.stream] = FALSE]]
        BY <3>2
      <4> QED
        BY <2>2, <4>1, <4>2, <4>3 DEF Fields
    <3> QED
      BY <2>5, <3>1, <3>2
  <2>7. /\ DOMAIN z = Fields /\ z.blocked \in BOOLEAN /\ z.reading \in [Streams -> BOOLEAN]
        /\ z.queue = Append(x.queue, c) /\ z.queue \in Seq(Cells)
        /\ z.blocked = TRUE \/ (z.blocked = x.blocked /\ z.reading = x.reading)
        /\ \A f \in Fields \ {"blocked", "reading", "queue"} : z[f] = x[f]
    <3>1. CASE z = y
      BY <2>2, <2>3, <3>1 DEF IsEdge, Fields
    <3>2. CASE ~(z = y)
      BY <2>2, <2>3, <2>6, <3>2 DEF Fields
    <3> QED
      BY <3>1, <3>2
  <2>8. IsEdge(z)
    BY <2>7 DEF IsEdge, Fields
  <2> QED
    BY <2>7, <2>8 DEF Fields, SameWindows, SameRest, Queues, StopsForQueue, z
<1> QED
  BY <1>1, <1>2

LEMMA SendCell ==
  ASSUME NEW e \in Ends, NEW x, IsEdge(x), NEW c \in Cells
  PROVE  LET z == relay_send_command_from_edge(e, x, c)
         IN  /\ IsEdge(z) /\ SameWindows(x, z) /\ SameRest(x, z) /\ Queues(x, c, z)
             /\ StopsForQueue(x, z) /\ z.sent = x.sent + 1
             /\ z.last_digests = IF c.command = "DATA" /\ circuit_sent_cell_for_sendme(x)
                                 THEN Append(x.last_digests, <<e, x.sent + 1>>)
                                 ELSE x.last_digests
<1> DEFINE p(y) == circuit_sent_cell_for_sendme(y)
           y1 == [x EXCEPT !.sent = @ + 1]
           y2 == sendme_record_sending_cell_digest(e, y1)
           y3 == append_cell_to_circuit_queue(y2, c)
           z == relay_send_command_from_edge(e, x, c)
<1>1. \A u, v : SameWindows(u, v) => p(u) = p(v)
  BY DEF SameWindows, circuit_sent_cell_for_sendme
<1>2. /\ DOMAIN y1 = Fields /\ y1.sent = x.sent + 1
      /\ \A f \in Fields \ {"sent"} : y1[f] = x[f]
  BY DEF IsEdge, Fields
<1> HIDE DEF y1
<1>3. IsEdge(y1) /\ SameWindows(x, y1)
  BY <1>2 DEF IsEdge, Fields, SameWindows
<1>4. <<e, x.sent + 1>> \in Digests
  BY DEF IsEdge, Digests
<1>5. /\ DOMAIN y2 = Fields
      /\ y2.sendme_digest = IF p(x) THEN <<e, x.sent + 1>> ELSE x.sendme_digest
      /\ \A f \in Fields \ {"sendme_digest"} : y2[f] = y1[f]
  <2>1. y2 = IF p(x) THEN [y1 EXCEPT !.sendme_digest = <<e, y1.sent>>] ELSE y1
    BY <1>1, <1>3 DEF sendme_record_sending_cell_digest
  <2> HIDE DEF y2, p
  <2> QED
    BY <1>2, <2>1 DEF Fields
<1> HIDE DEF y2, p
<1>6. IsEdge(y2) /\ SameWindows(x, y2) /\ y2.sent = x.sent + 1 /\ y2.queue = x.queue
      /\ y2.closed = x.closed /\ y2.blocked = x.blocked /\ y2.reading = x.reading
      /\ SameRest(x, y2) /\ y2.last_digests = x.last_digests
  BY <1>2, <1>3, <1>4, <1>5 DEF IsEdge, Fields, SameWindows, SameRest
<1>7. /\ IsEdge(y3) /\ SameWindows(y2, y3) /\ SameRest(y2, y3) /\ Queues(y2, c, y3)
      /\ StopsForQueue(y2, y3) /\ y3.sent = y2.sent
      /\ y3.sendme_digest = y2.sendme_digest /\ y3.last_digests = y2.last_digests
  BY <1>6, AppendCell
<1> HIDE DEF y3
<1>8. IsEdge(y3) /\ SameWindows(x, y3) /\ SameRest(x, y3) /\ Queues(x, c, y3)
      /\ StopsForQueue(x, y3) /\ y3.sent = x.sent + 1 /\ y3.last_digests = x.last_digests
      /\ y3.sendme_digest = y2.sendme_digest
  BY <1>6, <1>7 DEF SameWindows, SameRest, Queues, StopsForQueue
<1>9. p(y3) = p(x)
  BY <1>1, <1>8
<1>10. z = IF c.command = "DATA" /\ p(x)
           THEN [y3 EXCEPT !.last_digests = Append(@, y3.sendme_digest)] ELSE y3
  BY <1>9 DEF relay_send_command_from_edge, sendme_record_cell_digest_on_circ, y1, y2, y3, p
<1> HIDE DEF z
<1>11. CASE c.command = "DATA" /\ p(x)
  <2>1. y3.sendme_digest = <<e, x.sent + 1>>
    BY <1>5, <1>8, <1>11
  <2>2. /\ DOMAIN z = Fields /\ z.last_digests = Append(x.last_digests, <<e, x.sent + 1>>)
        /\ \A f \in Fields \ {"last_digests"} : z[f] = y3[f]
    BY <1>8, <1>10, <1>11, <2>1 DEF IsEdge, Fields
  <2>3. Append(x.last_digests, <<e, x.sent + 1>>) \in Seq(Digests)
    BY <1>4 DEF IsEdge
  <2>4. IsEdge(z)
    BY <1>8, <2>2, <2>3 DEF IsEdge, Fields
  <2>5. SameWindows(x, z) /\ SameRest(x, z) /\ Queues(x, c, z) /\ StopsForQueue(x, z)
        /\ z.sent = x.sent + 1
    BY <1>8, <2>2 DEF Fields, SameWindows, SameRest, Queues, StopsForQueue
  <2> QED
    BY <1>11, <2>2, <2>4, <2>5 DEF z, p
<1>12. CASE ~(c.command = "DATA" /\ p(x))
  BY <1>8, <1>10, <1>12 DEF z, p
<1> QED
  BY <1>11, <1>12

-----------------------------------------------------------------------------
(* One step of one edge.  The definitions take ccontrol as a parameter, so  *)
(* that they can speak about the state before and after a step.            *)

Inc(cc) == IF cc THEN cc_sendme_inc ELSE CIRCWINDOW_INCREMENT

Full(cc, x) == IF cc THEN x.inflight >= x.cwnd ELSE x.package_window <= 0

Predicts(cc, x) ==
  IF cc
  THEN x.inflight # 0 /\ (x.inflight + 1) % cc_sendme_inc = 0
  ELSE /\ x.package_window # CIRCWINDOW_START
       /\ (x.package_window - 1) % CIRCWINDOW_INCREMENT = 0

(* No stop of reading outlives its reason, in the middle of a loop either. *)
Awake(cc, x) ==
  \A s \in Streams :
    (~x.blocked /\ ~Full(cc, x) /\ x.stream_package[s] > 0) => x.reading[s]

(* An edge in the stream SENDME loop owes a whole increment.               *)
Owing(cc, x) ==
  x.task.op = "sendme" =>
    /\ ~cc /\ x.task.s \in Streams
    /\ x.stream_deliver[x.task.s] <= STREAMWINDOW_START - STREAMWINDOW_INCREMENT

Sound(cc, e, x) ==
  /\ IsEdge(x) /\ EdgeTypeOK(e, x) /\ Awake(cc, x) /\ Owing(cc, x)
  /\ x.deliver_window > CIRCWINDOW_START - Inc(cc)

NoCell == [command |-> "NONE"]
One(c, S) == IF c \in S THEN 1 ELSE 0
Worth(c, S, n) == IF c \in S THEN n ELSE 0

Credits(cc, x, z, c, r) ==
  /\ IF cc THEN z.inflight = x.inflight + One(c, DataCells) - Worth(r, Sendmes, Inc(cc))
     ELSE z.package_window = x.package_window - One(c, DataCells) + Worth(r, Sendmes, Inc(cc))
  /\ z.deliver_window = x.deliver_window - One(r, DataCells) + Worth(c, Sendmes, Inc(cc))
  /\ \A s \in Streams :
       /\ z.stream_package[s] = x.stream_package[s]
            - (IF cc THEN 0 ELSE One(c, Kind("DATA", s)))
            + Worth(r, Kind("SENDME", s), STREAMWINDOW_INCREMENT)
       /\ z.stream_deliver[s] = x.stream_deliver[s]
            - (IF cc THEN 0 ELSE One(r, Kind("DATA", s)))
            + Worth(c, Kind("SENDME", s), STREAMWINDOW_INCREMENT)

Remembers(cc, e, x, z, c, r) ==
  /\ z.sent = x.sent + One(c, Cells) /\ z.received = x.received + One(r, Cells)
  /\ c \in Sendmes =>
       /\ r \in DataCells
       /\ c.digest = IF emit_min_version[e] = 1 THEN <<Peer(e), x.received + 1>> ELSE << >>
  /\ (\A s \in Streams : c \in Kind("SENDME", s) => ~cc) /\ (c \in DataCells => ~Full(cc, x))
  /\ r \in Sendmes => /\ c = NoCell /\ x.last_digests # << >>
                      /\ z.last_digests = Tail(x.last_digests)
  /\ r \notin Sendmes =>
       z.last_digests = IF c \in DataCells /\ Predicts(cc, x)
                        THEN Append(x.last_digests, <<e, x.sent + 1>>)
                        ELSE x.last_digests

Queued(x, z, c) == z.queue = IF c = NoCell THEN x.queue ELSE Append(x.queue, c)

(* The step sends c, or nothing, and receives r, or nothing.               *)
Moves(cc, e, x, z, c, r) ==
  Queued(x, z, c) /\ Credits(cc, x, z, c, r) /\ Remembers(cc, e, x, z, c, r)

(* Why an edge closes the circuit.                                         *)
Refuses(cc, e, x, r) ==
  \/ Len(x.queue) >= max_circuit_cell_queue_size
  \/ r \in Sendmes /\ ~sendme_is_valid(e, x, r)
  \/ r \in Sendmes /\ ~cc /\ x.package_window + CIRCWINDOW_INCREMENT > CIRCWINDOW_START
  \/ \E s \in Streams :
       /\ r \in Kind("SENDME", s)
       /\ cc \/ x.stream_package[s] + STREAMWINDOW_INCREMENT > STREAMWINDOW_START

(* other tells whether the cell is one that no window counts.              *)
Outcome(cc, e, x, z, r, other) ==
  /\ Sound(cc, e, z)
  /\ IF z.closed THEN Refuses(cc, e, x, r)
     ELSE \E c \in Cells \cup {NoCell} :
            Moves(cc, e, x, z, c, r) /\ (c \in Others <=> other)

LEMMA Constants ==
  /\ CIRCWINDOW_START \in Nat /\ CIRCWINDOW_INCREMENT \in Nat /\ CIRCWINDOW_INCREMENT > 0
  /\ STREAMWINDOW_START \in Nat /\ STREAMWINDOW_INCREMENT \in Nat
  /\ STREAMWINDOW_INCREMENT > 0 /\ STREAMWINDOW_INCREMENT <= STREAMWINDOW_START
  /\ circwindow \in Nat /\ CIRCWINDOW_INCREMENT <= circwindow
  /\ circwindow <= CIRCWINDOW_START
  /\ cc_sendme_inc \in Nat /\ cc_sendme_inc > 0
  /\ \A cc \in BOOLEAN : Inc(cc) \in Nat /\ Inc(cc) > 0 /\ Inc(cc) <= CIRCWINDOW_START
  /\ max_circuit_cell_queue_size \in Nat /\ Cwnds \subseteq Nat
BY SendmeAssumption DEF Inc

(* The parts of a record a step leaves alone.                              *)
Same(x, z, F) == \A f \in Fields \ F : z[f] = x[f]

LEMMA FullIsFull ==
  ASSUME NEW x, x.inflight \in Int, x.cwnd \in Cwnds, x.package_window \in Int
  PROVE  circuit_is_full(x) <=> Full(ccontrol, x)
<1>1. x.cwnd \in Nat
  BY Constants
<1> QED
  BY <1>1 DEF circuit_is_full, congestion_control_get_package_window, Full

LEMMA OthersApart ==
  /\ NoCell \notin Others /\ Other \in Others
  /\ \A c \in DataCells : c \notin Others
  /\ \A s, c : c \in Kind("SENDME", s) => c \notin Others
  /\ \A c \in Sendmes : c \notin Others
BY CellTypes DEF NoCell, Others, DataCells, Kind, Sendmes, Cells

LEMMA NoCellIsNone ==
  /\ NoCell \notin Cells /\ NoCell \notin DataCells /\ NoCell \notin Sendmes
  /\ \A command, s : NoCell \notin Kind(command, s)
BY DEF NoCell, Cells, DataCells, Sendmes, Kind

(* Kinds are disjoint.                                                     *)
LEMMA Kinds ==
  ASSUME NEW c \in Cells
  PROVE  /\ c \in DataCells <=> c.command = "DATA"
         /\ c \in Sendmes <=> c.command = "SENDME" /\ c.stream = "circuit"
         /\ \A k, s : c \in Kind(k, s) <=> c.command = k /\ c.stream = s
BY DEF DataCells, Sendmes, Kind

(* Steps that neither send nor receive.                                    *)
LEMMA QuietMoves ==
  ASSUME NEW cc \in BOOLEAN, NEW e \in Ends, NEW x, IsEdge(x), NEW z, SameWindows(x, z),
         z.last_digests = x.last_digests, z.sent = x.sent, z.received = x.received
  PROVE  Credits(cc, x, z, NoCell, NoCell) /\ Remembers(cc, e, x, z, NoCell, NoCell)
<1>1. Credits(cc, x, z, NoCell, NoCell)
  <2>1. /\ x.inflight \in Int /\ x.package_window \in Int /\ x.deliver_window \in Int
        /\ \A s \in Streams : x.stream_package[s] \in Int /\ x.stream_deliver[s] \in Int
    BY DEF IsEdge
  <2>2. \A k : /\ One(NoCell, DataCells) = 0 /\ Worth(NoCell, Sendmes, k) = 0
               /\ \A d, s : One(NoCell, Kind(d, s)) = 0 /\ Worth(NoCell, Kind(d, s), k) = 0
    BY NoCellIsNone DEF One, Worth
  <2> QED
    BY <2>1, <2>2 DEF Credits, SameWindows
<1>2. Remembers(cc, e, x, z, NoCell, NoCell)
  BY NoCellIsNone DEF Remembers, One, IsEdge
<1> QED
  BY <1>1, <1>2

LEMMA QuietOutcome ==
  ASSUME NEW cc \in BOOLEAN, NEW e \in Ends, NEW x, Sound(cc, e, x), ~x.closed,
         NEW z, IsEdge(z), Awake(cc, z), Owing(cc, z),
         Same(x, z, {"inbuf", "outbuf", "reading", "blocked", "task"})
  PROVE  Outcome(cc, e, x, z, NoCell, FALSE)
<1>1. /\ SameWindows(x, z) /\ z.last_digests = x.last_digests /\ z.closed = x.closed
      /\ z.sent = x.sent /\ z.received = x.received /\ z.queue = x.queue
  BY DEF Same, Fields, SameWindows
<1>2. EdgeTypeOK(e, z)
  BY <1>1 DEF Sound, EdgeTypeOK, SameWindows, IsEdge
<1>3. Sound(cc, e, z)
  BY <1>1, <1>2 DEF Sound, SameWindows
<1>4. Credits(cc, x, z, NoCell, NoCell) /\ Remembers(cc, e, x, z, NoCell, NoCell)
  BY <1>1, QuietMoves DEF Sound
<1> QED
  BY <1>1, <1>3, <1>4, OthersApart DEF Outcome, Moves, Queued

(* A turn of a loop that changes the task only.                            *)
LEMMA TaskOutcome ==
  ASSUME NEW cc \in BOOLEAN, NEW e \in Ends, NEW x, Sound(cc, e, x), ~x.closed,
         NEW t, "op" \in DOMAIN t, t.op # "sendme",
         NEW z, z = [x EXCEPT !.task = t]
  PROVE  Outcome(cc, e, x, z, NoCell, FALSE)
<1>1. DOMAIN z = Fields /\ z.task = t /\ \A f \in Fields \ {"task"} : z[f] = x[f]
  BY DEF Sound, IsEdge, Fields
<1>2. IsEdge(z) /\ Same(x, z, {"inbuf", "outbuf", "reading", "blocked", "task"})
  BY <1>1 DEF Sound, IsEdge, Fields, Same
<1>3. Awake(cc, z) /\ Owing(cc, z)
  BY <1>1 DEF Sound, Awake, Owing, Full, Fields
<1> QED
  BY <1>2, <1>3, QuietOutcome

(* The early returns of the packaging loop stop reading for a reason.      *)
LEMMA LoopEnds ==
  ASSUME NEW e \in Ends, NEW x, Sound(ccontrol, e, x), NEW s \in Streams,
         ccontrol \in BOOLEAN, NEW z,
         \/ z = package_loop_ends(x, s)
         \/ z = circuit_consider_stop_edge_reading(package_loop_ends(x, s))
  PROVE  /\ DOMAIN z = Fields /\ \A f \in Fields \ {"reading"} : z[f] = x[f]
         /\ z.reading \in [Streams -> BOOLEAN] /\ Awake(ccontrol, z)
<1> DEFINE Good(y) == /\ DOMAIN y = Fields /\ \A f \in Fields \ {"reading"} : y[f] = x[f]
                      /\ y.reading \in [Streams -> BOOLEAN] /\ Awake(ccontrol, y)
           none == [t \in Streams |-> FALSE]
<1>1. Good(x)
  BY DEF Sound, IsEdge
<1>2. ASSUME NEW y, Good(y), circuit_is_full(y) \/ circuit_is_full(x)
      PROVE  Good(stop_reading_all(y))
  <2> DEFINE w == stop_reading_all(y)
  <2>1. DOMAIN w = Fields /\ w.reading = none /\ \A f \in Fields \ {"reading"} : w[f] = y[f]
    BY <1>2 DEF stop_reading_all, Fields
  <2> HIDE DEF w
  <2>2. y.inflight = x.inflight /\ y.cwnd = x.cwnd /\ y.package_window = x.package_window
    BY <1>2 DEF Fields
  <2>3. Full(ccontrol, y)
    <3>1. x.inflight \in Int /\ x.cwnd \in Cwnds /\ x.package_window \in Int
      BY DEF Sound, IsEdge
    <3>2. circuit_is_full(x) <=> Full(ccontrol, x)
      BY <3>1, FullIsFull
    <3>3. circuit_is_full(y) <=> Full(ccontrol, y)
      BY <2>2, <3>1, FullIsFull
    <3> QED
      BY <1>2, <2>2, <3>2, <3>3 DEF Full
  <2>4. Awake(ccontrol, w)
    BY <2>1, <2>3 DEF Awake, Full, Fields
  <2>5. none \in [Streams -> BOOLEAN]
    OBVIOUS
  <2> QED
    BY <1>2, <2>1, <2>4, <2>5 DEF w, Fields
<1>3. ASSUME x.stream_package[s] <= 0
      PROVE  Good([x EXCEPT !.reading[s] = FALSE])
  <2> DEFINE w == [x EXCEPT !.reading[s] = FALSE]
             r == [x.reading EXCEPT ![s] = FALSE]
  <2>1. DOMAIN w = Fields /\ w.reading = r /\ \A f \in Fields \ {"reading"} : w[f] = x[f]
    BY DEF Sound, IsEdge, Fields
  <2> HIDE DEF w
  <2>2. r \in [Streams -> BOOLEAN] /\ \A t \in Streams \ {s} : r[t] = x.reading[t]
    BY DEF Sound, IsEdge
  <2> HIDE DEF r
  <2>3. \A t \in Streams : x.stream_package[t] > 0 => t # s
    BY <1>3 DEF Sound, IsEdge
  <2>4. Awake(ccontrol, w)
    BY <2>1, <2>2, <2>3 DEF Sound, Awake, Full, Fields
  <2> QED
    BY <2>1, <2>2, <2>4 DEF w
<1> HIDE DEF Good
<1>4. Good(package_loop_ends(x, s))
  BY <1>1, <1>2, <1>3 DEF package_loop_ends
<1>5. Good(circuit_consider_stop_edge_reading(package_loop_ends(x, s)))
  BY <1>2, <1>4 DEF circuit_consider_stop_edge_reading
<1>6. Good(z)
  BY <1>4, <1>5
<1> QED
  BY <1>6 DEF Good

LEMMA LoopEndsOutcome ==
  ASSUME NEW e \in Ends, NEW x, Sound(ccontrol, e, x), ~x.closed, NEW s \in Streams,
         ccontrol \in BOOLEAN, NEW y,
         \/ y = package_loop_ends(x, s)
         \/ y = circuit_consider_stop_edge_reading(package_loop_ends(x, s)),
         NEW t, "op" \in DOMAIN t, t.op # "sendme",
         NEW z, z = [y EXCEPT !.task = t]
  PROVE  Outcome(ccontrol, e, x, z, NoCell, FALSE)
<1>1. /\ DOMAIN y = Fields /\ \A f \in Fields \ {"reading"} : y[f] = x[f]
      /\ y.reading \in [Streams -> BOOLEAN] /\ Awake(ccontrol, y)
  BY LoopEnds
<1>2. DOMAIN z = Fields /\ z.task = t /\ \A f \in Fields \ {"task"} : z[f] = y[f]
  BY <1>1 DEF Fields
<1>3. IsEdge(z) /\ Same(x, z, {"inbuf", "outbuf", "reading", "blocked", "task"})
  BY <1>1, <1>2 DEF Sound, IsEdge, Fields, Same
<1>4. Awake(ccontrol, z) /\ Owing(ccontrol, z)
  BY <1>1, <1>2 DEF Awake, Owing, Full, Fields
<1> QED
  BY <1>3, <1>4, QuietOutcome

(* A read event.                                                           *)
LEMMA ReadOutcome ==
  ASSUME NEW cc \in BOOLEAN, NEW e \in Ends, NEW x, Sound(cc, e, x), ~x.closed,
         NEW s \in Streams, NEW k \in Nat, NEW y, y = [x EXCEPT !.inbuf[s] = @ + k],
         NEW z, z = [y EXCEPT !.task = PackageTask(y, s)]
  PROVE  Outcome(cc, e, x, z, NoCell, FALSE)
<1> DEFINE t == PackageTask(y, s)
           b == [x.inbuf EXCEPT ![s] = @ + k]
<1>1. DOMAIN y = Fields /\ y.inbuf = b /\ \A f \in Fields \ {"inbuf"} : y[f] = x[f]
  BY DEF Sound, IsEdge, Fields
<1>2. b \in [Streams -> Nat]
  BY SMTT(40) DEF Sound, IsEdge
<1>3. "op" \in DOMAIN t /\ t.op = "package"
  BY DEF PackageTask
<1> HIDE DEF t, b
<1>4. DOMAIN z = Fields /\ z.task = t /\ \A f \in Fields \ {"task"} : z[f] = y[f]
  BY <1>1 DEF Fields, t
<1>5. IsEdge(z) /\ Same(x, z, {"inbuf", "outbuf", "reading", "blocked", "task"})
  BY <1>1, <1>2, <1>3, <1>4 DEF Sound, IsEdge, Fields, Same
<1>6. Awake(cc, z) /\ Owing(cc, z)
  BY <1>1, <1>3, <1>4 DEF Sound, Awake, Owing, Full, Fields
<1> QED
  BY <1>5, <1>6, QuietOutcome

(* Entering the stream SENDME loop, or not.                                *)
LEMMA ConsiderSending ==
  ASSUME NEW x, IsEdge(x), NEW s \in Streams, ccontrol \in BOOLEAN,
         x.task.op # "sendme",
         NEW z, z = sendme_connection_edge_consider_sending(x, s)
  PROVE  /\ IsEdge(z) /\ Same(x, z, {"task"}) /\ Owing(ccontrol, z)
<1> DEFINE t == SendmeTask(s)
<1>1. CASE stream_sendme_is_due(x, s)
  <2>1. "op" \in DOMAIN t /\ t.s = s
    BY DEF SendmeTask
  <2>2. z = [x EXCEPT !.task = t]
    BY <1>1 DEF sendme_connection_edge_consider_sending
  <2> HIDE DEF t
  <2>3. DOMAIN z = Fields /\ z.task = t /\ \A f \in Fields \ {"task"} : z[f] = x[f]
    BY <2>2 DEF IsEdge, Fields
  <2>4. Owing(ccontrol, z)
    BY <1>1, <2>1, <2>3 DEF Owing, Fields, stream_sendme_is_due
  <2> QED
    BY <2>1, <2>3, <2>4 DEF IsEdge, Same, Fields
<1>2. CASE ~stream_sendme_is_due(x, s)
  <2>1. z = x
    BY <1>2 DEF sendme_connection_edge_consider_sending
  <2> QED
    BY <2>1 DEF Same, Owing
<1> QED
  BY <1>1, <1>2

(* The application reads.                                                  *)
LEMMA DrainOutcome ==
  ASSUME NEW e \in Ends, NEW x, Sound(ccontrol, e, x), ~x.closed, x.task.op # "sendme",
         NEW s \in Streams, NEW k \in 1..x.outbuf[s], ccontrol \in BOOLEAN,
         NEW z, z = sendme_connection_edge_consider_sending(
                      [x EXCEPT !.outbuf[s] = @ - k], s)
  PROVE  Outcome(ccontrol, e, x, z, NoCell, FALSE)
<1> DEFINE y == [x EXCEPT !.outbuf[s] = @ - k]
           b == [x.outbuf EXCEPT ![s] = @ - k]
<1>1. DOMAIN y = Fields /\ y.outbuf = b /\ \A f \in Fields \ {"outbuf"} : y[f] = x[f]
  BY DEF Sound, IsEdge, Fields
<1>2. b \in [Streams -> Nat]
  <2>1. x.outbuf \in [Streams -> Nat] /\ x.outbuf[s] - k \in Nat
    BY SMTT(40) DEF Sound, IsEdge
  <2> QED
    BY <2>1
<1> HIDE DEF y, b
<1>3. IsEdge(y) /\ y.task.op # "sendme"
  BY <1>1, <1>2 DEF Sound, IsEdge, Fields
<1>4. IsEdge(z) /\ Same(y, z, {"task"}) /\ Owing(ccontrol, z)
  BY <1>3, ConsiderSending DEF y
<1>5. Same(x, z, {"inbuf", "outbuf", "reading", "blocked", "task"}) /\ Awake(ccontrol, z)
  BY <1>1, <1>4 DEF Same, Sound, Awake, Full, Fields
<1> QED
  BY <1>4, <1>5, QuietOutcome

(* The channel takes a cell: the windows do not change, and the streams of *)
(* a queue that is unblocked are read from.                                *)
LEMMA Flushed ==
  ASSUME NEW cc \in BOOLEAN, NEW e \in Ends, NEW x, Sound(cc, e, x), x.queue # << >>,
         NEW z, z = flushed(x)
  PROVE  /\ Sound(cc, e, z) /\ z.queue = Tail(x.queue)
         /\ Same(x, z, {"queue", "blocked", "reading"})
<1> DEFINE y == [x EXCEPT !.queue = Tail(@)]
           b == [y EXCEPT !.blocked = FALSE]
           all == [s \in Streams |-> TRUE]
<1>1. DOMAIN y = Fields /\ y.queue = Tail(x.queue) /\ \A f \in Fields \ {"queue"} : y[f] = x[f]
  BY DEF Sound, IsEdge, Fields
<1>2. DOMAIN b = Fields /\ b.blocked = FALSE /\ \A f \in Fields \ {"blocked"} : b[f] = y[f]
  BY <1>1 DEF Fields
<1>3. z = y \/ z = [b EXCEPT !.reading = all]
  BY DEF flushed, start_reading_all
<1>4. all \in [Streams -> BOOLEAN] /\ \A s \in Streams : all[s]
  OBVIOUS
<1>5. Tail(x.queue) \in Seq(Cells)
  BY DEF Sound, IsEdge
<1> HIDE DEF y, b, all
<1>6. /\ DOMAIN z = Fields /\ z.queue = Tail(x.queue)
      /\ \/ z.blocked = x.blocked /\ z.reading = x.reading
         \/ z.blocked = FALSE /\ z.reading = all
      /\ \A f \in Fields \ {"queue", "blocked", "reading"} : z[f] = x[f]
  <2>1. CASE z = y
    BY <1>1, <2>1 DEF Fields
  <2>2. CASE z = [b EXCEPT !.reading = all]
    BY <1>1, <1>2, <2>2 DEF Fields
  <2> QED
    BY <1>3, <2>1, <2>2
<1>7. IsEdge(z)
  BY <1>4, <1>5, <1>6 DEF Sound, IsEdge, Fields
<1>8. EdgeTypeOK(e, z) /\ Owing(cc, z) /\ z.deliver_window = x.deliver_window
  BY <1>6, <1>7 DEF Sound, EdgeTypeOK, IsEdge, Owing, Fields
<1>9. Awake(cc, z)
  BY <1>4, <1>6 DEF Sound, Awake, Full, Fields
<1> QED
  BY <1>6, <1>7, <1>8, <1>9 DEF Sound, Same

(* What each cell counts for: DATA, circuit SENDME, DATA of stream d,      *)
(* SENDME of stream m.                                                     *)
Counts(c, data, sendme, d, m) ==
  /\ c \in DataCells <=> data
  /\ c \in Sendmes <=> sendme
  /\ \A s \in Streams : /\ c \in Kind("DATA", s) <=> s = d
                        /\ c \in Kind("SENDME", s) <=> s = m

LEMMA CountsFor ==
  /\ \A s \in Streams : Counts(Data(s), TRUE, FALSE, s, "circuit")
  /\ \A s \in Streams : Counts(StreamSendme(s), FALSE, FALSE, "circuit", s)
  /\ Counts(Other, FALSE, FALSE, "circuit", "circuit")
  /\ \A d \in Digests \cup {<< >>} : Counts(CircSendme(d), FALSE, TRUE, "circuit", "circuit")
  /\ Counts(NoCell, FALSE, FALSE, "circuit", "circuit")
  /\ \A c \in Cells : One(c, Cells) = 1 /\ c # NoCell
  /\ One(NoCell, Cells) = 0
<1> USE CellTypes
<1>1. ASSUME NEW s \in Streams PROVE Counts(Data(s), TRUE, FALSE, s, "circuit")
  <2>1. Data(s) \in Cells /\ Data(s).command = "DATA" /\ Data(s).stream = s
    BY DEF Data
  <2> QED
    BY <2>1, Kinds DEF Counts
<1>2. ASSUME NEW s \in Streams PROVE Counts(StreamSendme(s), FALSE, FALSE, "circuit", s)
  <2>1. /\ StreamSendme(s) \in Cells /\ StreamSendme(s).command = "SENDME"
        /\ StreamSendme(s).stream = s
    BY DEF StreamSendme
  <2> QED
    BY <2>1, Kinds DEF Counts
<1>3. Counts(Other, FALSE, FALSE, "circuit", "circuit")
  <2>1. Other \in Cells /\ Other.command = "OTHER" /\ Other.stream = "circuit"
    BY DEF Other
  <2> QED
    BY <2>1, Kinds DEF Counts
<1>4. ASSUME NEW d \in Digests \cup {<< >>}
      PROVE  Counts(CircSendme(d), FALSE, TRUE, "circuit", "circuit")
  <2>1. /\ CircSendme(d) \in Cells /\ CircSendme(d).command = "SENDME"
        /\ CircSendme(d).stream = "circuit"
    BY DEF CircSendme
  <2> QED
    BY <2>1, Kinds DEF Counts
<1>5. Counts(NoCell, FALSE, FALSE, "circuit", "circuit") /\ One(NoCell, Cells) = 0
  BY NoCellIsNone DEF Counts, One
<1>6. ASSUME NEW c \in Cells PROVE One(c, Cells) = 1 /\ c # NoCell
  BY NoCellIsNone DEF One
<1> QED
  BY <1>1, <1>2, <1>3, <1>4, <1>5, <1>6

(* A BEGIN, CONNECTED, END or DROP cell.                                   *)
LEMMA OtherOutcome ==
  ASSUME NEW e \in Ends, NEW x, Sound(ccontrol, e, x), ~x.closed, ccontrol \in BOOLEAN,
         NEW z, z = relay_send_command_from_edge(e, x, Other)
  PROVE  Outcome(ccontrol, e, x, z, NoCell, TRUE)
<1>1. /\ IsEdge(z) /\ SameWindows(x, z) /\ SameRest(x, z) /\ Queues(x, Other, z)
      /\ StopsForQueue(x, z) /\ z.sent = x.sent + 1 /\ z.last_digests = x.last_digests
  <2>1. IsEdge(x) /\ Other \in Cells /\ ~(Other.command = "DATA")
    BY CellTypes DEF Sound, Other
  <2> QED
    BY <2>1, SendCell
<1>2. EdgeTypeOK(e, z) /\ Owing(ccontrol, z) /\ z.deliver_window = x.deliver_window
  BY <1>1 DEF Sound, EdgeTypeOK, IsEdge, Owing, SameWindows, SameRest
<1>3. Awake(ccontrol, z)
  BY <1>1 DEF Sound, Awake, Full, SameWindows, StopsForQueue, IsEdge
<1>4. Sound(ccontrol, e, z)
  BY <1>1, <1>2, <1>3 DEF Sound
<1>5. CASE z.closed
  BY <1>1, <1>4, <1>5 DEF Outcome, Queues, Refuses, IsEdge, Sound
<1>6. CASE ~z.closed
  <2>1. /\ Counts(Other, FALSE, FALSE, "circuit", "circuit") /\ One(Other, Cells) = 1
        /\ Other # NoCell /\ Counts(NoCell, FALSE, FALSE, "circuit", "circuit")
        /\ One(NoCell, Cells) = 0 /\ "circuit" \notin Streams /\ Other \in Cells
        /\ Inc(ccontrol) \in Nat /\ STREAMWINDOW_INCREMENT \in Nat
    BY CountsFor, CellTypes, Constants
  <2>2. Credits(ccontrol, x, z, Other, NoCell)
    BY <1>1, <2>1, SMTT(40) DEF Credits, Counts, One, Worth, SameWindows, Sound, IsEdge
  <2>3. Remembers(ccontrol, e, x, z, Other, NoCell)
    BY <1>1, <2>1, NoCellIsNone, SMTT(40) DEF Remembers, Counts, SameRest, Sound, IsEdge
  <2>4. Queued(x, z, Other)
    BY <1>1, <1>6, <2>1 DEF Queues, Queued
  <2> QED
    BY <1>4, <1>6, <2>1, <2>2, <2>3, <2>4, OthersApart DEF Outcome, Moves
<1> QED
  BY <1>5, <1>6

(* A turn of the stream SENDME loop.                                       *)
LEMMA StreamSendmeOutcome ==
  ASSUME NEW e \in Ends, NEW x, Sound(ccontrol, e, x), ~x.closed, ccontrol \in BOOLEAN,
         x.task.op = "sendme", NEW z,
         z = sendme_connection_edge_consider_sending(
               send_stream_sendme(e, [x EXCEPT !.task = Idle], x.task.s), x.task.s)
  PROVE  Outcome(ccontrol, e, x, z, NoCell, FALSE)
<1> DEFINE s == x.task.s
           c == StreamSendme(s)
           x0 == [x EXCEPT !.task = Idle]
           x1 == [x0 EXCEPT !.stream_deliver[s] = @ + STREAMWINDOW_INCREMENT]
           d == [x.stream_deliver EXCEPT ![s] = @ + STREAMWINDOW_INCREMENT]
           y == relay_send_command_from_edge(e, x1, c)
<1>1. /\ s \in Streams /\ ~ccontrol
      /\ x.stream_deliver[s] <= STREAMWINDOW_START - STREAMWINDOW_INCREMENT
  BY DEF Sound, Owing
<1>2. DOMAIN x0 = Fields /\ x0.task = Idle /\ \A f \in Fields \ {"task"} : x0[f] = x[f]
  BY DEF Sound, IsEdge, Fields
<1> HIDE DEF x0
<1>3. /\ DOMAIN x1 = Fields /\ x1.stream_deliver = d
      /\ \A f \in Fields \ {"stream_deliver"} : x1[f] = x0[f]
  BY <1>2 DEF Fields
<1>4. /\ d \in [Streams -> 0..STREAMWINDOW_START] /\ d[s] = x.stream_deliver[s] + STREAMWINDOW_INCREMENT
      /\ \A t \in Streams : t # s => d[t] = x.stream_deliver[t]
  <2>1. /\ x.stream_deliver \in [Streams -> 0..STREAMWINDOW_START]
        /\ x.stream_deliver[s] + STREAMWINDOW_INCREMENT \in 0..STREAMWINDOW_START
    BY <1>1, Constants DEF Sound, EdgeTypeOK
  <2> HIDE DEF s
  <2> QED
    BY <1>1, <2>1
<1>5. d \in [Streams -> Int]
  BY <1>4
<1> HIDE DEF x1, d, s
<1>6. Idle.op = "idle" /\ "op" \in DOMAIN Idle
  BY DEF Idle
<1>7. IsEdge(x1) /\ c \in Cells /\ ~(c.command = "DATA")
  <2>1. IsEdge(x1)
    BY <1>2, <1>3, <1>5, <1>6, ZenonT(60) DEF Sound, IsEdge, Fields
  <2> QED
    BY <1>1, <2>1, CellTypes DEF StreamSendme
<1>8. /\ IsEdge(y) /\ SameWindows(x1, y) /\ SameRest(x1, y) /\ Queues(x1, c, y)
      /\ StopsForQueue(x1, y) /\ y.sent = x1.sent + 1 /\ y.last_digests = x1.last_digests
  BY <1>7, SendCell
<1> HIDE DEF y, c
<1>9. /\ y.stream_deliver = d /\ y.stream_package = x.stream_package
      /\ y.package_window = x.package_window /\ y.inflight = x.inflight /\ y.cwnd = x.cwnd
      /\ y.deliver_window = x.deliver_window /\ y.sent = x.sent + 1
      /\ y.received = x.received /\ y.last_digests = x.last_digests /\ y.task = Idle
      /\ Queues(x, c, y) /\ StopsForQueue(x, y)
  BY <1>2, <1>3, <1>8 DEF Fields, SameWindows, SameRest, Queues, StopsForQueue
<1>10. IsEdge(z) /\ Same(y, z, {"task"}) /\ Owing(ccontrol, z)
  <2>1. y.task.op # "sendme"
    BY <1>6, <1>9
  <2>2. z = sendme_connection_edge_consider_sending(y, s)
    BY DEF send_stream_sendme, x0, x1, y, c, s
  <2> QED
    BY <1>1, <1>8, <2>1, <2>2, ConsiderSending
<1>11. /\ z.stream_deliver = d /\ z.stream_package = x.stream_package
       /\ z.package_window = x.package_window /\ z.inflight = x.inflight /\ z.cwnd = x.cwnd
       /\ z.deliver_window = x.deliver_window /\ z.sent = x.sent + 1
       /\ z.received = x.received /\ z.last_digests = x.last_digests
       /\ Queues(x, c, z) /\ StopsForQueue(x, z)
  BY <1>9, <1>10 DEF Same, Fields, Queues, StopsForQueue
<1>12. EdgeTypeOK(e, z)
  BY <1>4, <1>10, <1>11 DEF Sound, EdgeTypeOK, IsEdge
<1>13. Awake(ccontrol, z)
  BY <1>10, <1>11 DEF Sound, Awake, Full, StopsForQueue, IsEdge
<1>14. Sound(ccontrol, e, z)
  BY <1>10, <1>11, <1>12, <1>13 DEF Sound
<1>15. CASE z.closed
  BY <1>11, <1>14, <1>15 DEF Outcome, Queues, Refuses, IsEdge, Sound
<1>16. CASE ~z.closed
  <2>1. /\ Counts(c, FALSE, FALSE, "circuit", s) /\ One(c, Cells) = 1 /\ c # NoCell
        /\ Counts(NoCell, FALSE, FALSE, "circuit", "circuit") /\ One(NoCell, Cells) = 0
        /\ "circuit" \notin Streams /\ c \in Cells
    BY <1>1, <1>7, CountsFor, CellTypes DEF c
  <2>2. Credits(ccontrol, x, z, c, NoCell)
    <3>1. /\ x.inflight \in Int /\ x.package_window \in Int /\ x.deliver_window \in Int
          /\ \A t \in Streams : x.stream_package[t] \in Int /\ x.stream_deliver[t] \in Int
          /\ STREAMWINDOW_INCREMENT \in Nat
      BY Constants DEF Sound, IsEdge
    <3> QED
      BY <1>1, <1>4, <1>11, <2>1, <3>1 DEF Credits, Counts, One, Worth
  <2>3. Remembers(ccontrol, e, x, z, c, NoCell)
    <3>1. x.sent \in Nat /\ x.received \in Nat
      BY DEF Sound, IsEdge
    <3> QED
      BY <1>1, <1>11, <2>1, <3>1 DEF Remembers, Counts
  <2>4. Queued(x, z, c)
    BY <1>11, <1>16, <2>1 DEF Queues, Queued
  <2> QED
    <3>1. c \notin Others
      BY <1>1, <2>1, OthersApart DEF Counts
    <3> QED
      BY <1>14, <1>16, <2>1, <2>2, <2>3, <2>4, <3>1 DEF Outcome, Moves
<1> QED
  BY <1>15, <1>16

(* One turn of connection_edge_package_raw_inbuf.                          *)
LEMMA PackageOutcome ==
  ASSUME NEW e \in Ends, NEW x, Sound(ccontrol, e, x), ~x.closed, ccontrol \in BOOLEAN,
         x.task.op # "sendme", NEW s \in Streams, can_package(x, s), NEW z,
         z = package_one_cell(e, [x EXCEPT !.task.n = @ - 1], s)
  PROVE  Outcome(ccontrol, e, x, z, NoCell, FALSE)
<1> DEFINE c == Data(s)
           t == [x.task EXCEPT !.n = @ - 1]
           x0 == [x EXCEPT !.task.n = @ - 1]
           b == [x.inbuf EXCEPT ![s] = @ - 1]
           x1 == [x0 EXCEPT !.inbuf[s] = @ - 1]
           y == relay_send_command_from_edge(e, x1, c)
           w == sendme_note_circuit_data_packaged(y)
           p == IF ccontrol THEN x.stream_package
                ELSE [x.stream_package EXCEPT ![s] = @ - 1]
           P == circuit_sent_cell_for_sendme(x)
<1>1. "op" \in DOMAIN t /\ t.op = x.task.op
  BY DEF Sound, IsEdge
<1>2. DOMAIN x0 = Fields /\ x0.task = t /\ \A f \in Fields \ {"task"} : x0[f] = x[f]
  BY DEF Sound, IsEdge, Fields
<1> HIDE DEF x0, t
<1>3. DOMAIN x1 = Fields /\ x1.inbuf = b /\ \A f \in Fields \ {"inbuf"} : x1[f] = x0[f]
  BY <1>2 DEF Fields
<1>4. x.inbuf[s] > 0 /\ x.stream_package[s] > 0 /\ ~Full(ccontrol, x)
  <2>1. x.inflight \in Int /\ x.cwnd \in Cwnds /\ x.package_window \in Int
    BY DEF Sound, IsEdge
  <2> QED
    BY <2>1, FullIsFull DEF can_package
<1>5. b \in [Streams -> Nat]
  <2>1. x.inbuf \in [Streams -> Nat] /\ x.inbuf[s] - 1 \in Nat
    BY <1>4 DEF Sound, IsEdge
  <2> QED
    BY <2>1
<1> HIDE DEF x1, b
<1>6. IsEdge(x1) /\ SameWindows(x, x1)
  BY <1>1, <1>2, <1>3, <1>5 DEF Sound, IsEdge, Fields, SameWindows
<1>7. circuit_sent_cell_for_sendme(x1) <=> P
  BY <1>6 DEF SameWindows, circuit_sent_cell_for_sendme
<1>8. c \in Cells /\ c.command = "DATA"
  BY CellTypes DEF Data
<1> HIDE DEF P, c
<1>9. /\ IsEdge(y) /\ SameWindows(x1, y) /\ SameRest(x1, y) /\ Queues(x1, c, y)
      /\ StopsForQueue(x1, y) /\ y.sent = x1.sent + 1
      /\ y.last_digests = IF P THEN Append(x1.last_digests, <<e, x1.sent + 1>>)
                          ELSE x1.last_digests
  BY <1>6, <1>7, <1>8, SendCell
<1> HIDE DEF y
<1>10. /\ SameWindows(x, y) /\ y.sent = x.sent + 1 /\ y.received = x.received
       /\ y.last_digests = IF P THEN Append(x.last_digests, <<e, x.sent + 1>>)
                           ELSE x.last_digests
       /\ y.task = t /\ Queues(x, c, y) /\ StopsForQueue(x, y)
  BY <1>2, <1>3, <1>9, SMTT(40) DEF Fields, SameWindows, SameRest, Queues, StopsForQueue
<1>11. /\ DOMAIN w = Fields
       /\ w.inflight = IF ccontrol THEN x.inflight + 1 ELSE x.inflight
       /\ w.package_window = IF ccontrol THEN x.package_window ELSE x.package_window - 1
       /\ \A f \in Fields \ {"inflight", "package_window"} : w[f] = y[f]
  <2>1. CASE ccontrol
    BY <1>9, <1>10, <2>1
      DEF sendme_note_circuit_data_packaged, IsEdge, Fields, SameWindows
  <2>2. CASE ~ccontrol
    BY <1>9, <1>10, <2>2
      DEF sendme_note_circuit_data_packaged, IsEdge, Fields, SameWindows
  <2> QED
    BY <2>1, <2>2
<1> HIDE DEF w
<1>12. /\ DOMAIN z = Fields /\ z.stream_package = p
       /\ \A f \in Fields \ {"stream_package"} : z[f] = w[f]
  <2>1. z = sendme_note_stream_data_packaged(w, s)
    BY DEF package_one_cell, x0, x1, y, w, c
  <2>2. w.stream_package = x.stream_package
    BY <1>10, <1>11 DEF Fields, SameWindows
  <2>3. CASE ccontrol
    BY <1>11, <2>1, <2>2, <2>3 DEF sendme_note_stream_data_packaged
  <2>4. CASE ~ccontrol
    BY <1>11, <2>1, <2>2, <2>4 DEF sendme_note_stream_data_packaged, Fields
  <2> QED
    BY <2>3, <2>4
<1>13. /\ p \in [Streams -> 0..STREAMWINDOW_START]
       /\ p[s] = IF ccontrol THEN x.stream_package[s] ELSE x.stream_package[s] - 1
       /\ \A r \in Streams : r # s => p[r] = x.stream_package[r]
  <2>1. x.stream_package \in [Streams -> 0..STREAMWINDOW_START]
    BY DEF Sound, EdgeTypeOK
  <2>2. x.stream_package[s] - 1 \in 0..STREAMWINDOW_START
    BY <1>4, <2>1, Constants
  <2> QED
    BY <2>1, <2>2
<1> HIDE DEF p
<1>14. /\ z.inflight = IF ccontrol THEN x.inflight + 1 ELSE x.inflight
       /\ z.package_window = IF ccontrol THEN x.package_window ELSE x.package_window - 1
       /\ z.cwnd = x.cwnd /\ z.deliver_window = x.deliver_window
       /\ z.stream_deliver = x.stream_deliver /\ z.sent = x.sent + 1
       /\ z.received = x.received /\ z.task = t
       /\ z.last_digests = IF P THEN Append(x.last_digests, <<e, x.sent + 1>>)
                           ELSE x.last_digests
       /\ Queues(x, c, z) /\ StopsForQueue(x, z)
  BY <1>10, <1>11, <1>12 DEF Fields, SameWindows, Queues, StopsForQueue
<1>15. z.inflight \in Nat /\ z.package_window \in 0..CIRCWINDOW_START
  <2>1. /\ x.inflight \in Nat /\ x.package_window \in 0..CIRCWINDOW_START
        /\ CIRCWINDOW_START \in Nat /\ (~ccontrol => x.package_window > 0)
    BY <1>4, Constants DEF Sound, EdgeTypeOK, Full
  <2> QED
    BY <1>14, <2>1
<1>16. IsEdge(z)
  <2>1. p \in [Streams -> Int] /\ z.inflight \in Int /\ z.package_window \in Int
    BY <1>13, <1>15
  <2> QED
    BY <1>9, <1>11, <1>12, <2>1 DEF IsEdge, Fields
<1>17. EdgeTypeOK(e, z)
  BY <1>12, <1>13, <1>14, <1>15, <1>16 DEF Sound, EdgeTypeOK, IsEdge
<1>18. Owing(ccontrol, z)
  BY <1>1, <1>14 DEF Owing
<1>19. Awake(ccontrol, z)
  <2> SUFFICES ASSUME NEW r \in Streams, ~z.blocked, ~Full(ccontrol, z), z.stream_package[r] > 0
               PROVE  z.reading[r]
    BY DEF Awake
  <2>1. ~x.blocked /\ z.reading = x.reading
    BY <1>14 DEF StopsForQueue, Sound, IsEdge
  <2>2. x.stream_package[r] > 0
    <3>1. x.stream_package[r] \in Int /\ p[r] > 0
      BY <1>12 DEF Sound, IsEdge
    <3> QED
      BY <1>4, <1>13, <3>1
  <2> QED
    BY <1>4, <2>1, <2>2 DEF Sound, Awake
<1>20. Sound(ccontrol, e, z)
  BY <1>14, <1>16, <1>17, <1>18, <1>19 DEF Sound
<1>21. CASE z.closed
  BY <1>14, <1>20, <1>21 DEF Outcome, Queues, Refuses, IsEdge, Sound
<1>22. CASE ~z.closed
  <2>1. /\ Counts(c, TRUE, FALSE, s, "circuit") /\ One(c, Cells) = 1 /\ c # NoCell
        /\ Counts(NoCell, FALSE, FALSE, "circuit", "circuit") /\ One(NoCell, Cells) = 0
        /\ "circuit" \notin Streams
    BY <1>8, CountsFor, CellTypes DEF c
  <2>2. Credits(ccontrol, x, z, c, NoCell)
    <3>1. /\ x.inflight \in Int /\ x.package_window \in Int /\ x.deliver_window \in Int
          /\ \A r \in Streams : x.stream_package[r] \in Int /\ x.stream_deliver[r] \in Int
      BY DEF Sound, IsEdge
    <3> QED
      BY <1>12, <1>13, <1>14, <2>1, <3>1 DEF Credits, Counts, One, Worth
  <2>3. Remembers(ccontrol, e, x, z, c, NoCell)
    <3>1. x.sent \in Nat /\ x.received \in Nat /\ (Predicts(ccontrol, x) <=> P)
      BY DEF Sound, IsEdge, Predicts, P, circuit_sent_cell_for_sendme
    <3> QED
      BY <1>4, <1>14, <2>1, <3>1 DEF Remembers, Counts
  <2>4. Queued(x, z, c)
    BY <1>14, <1>22, <2>1 DEF Queues, Queued
  <2> QED
    <3>1. c \notin Others
      BY <2>1, OthersApart DEF Counts
    <3> QED
      BY <1>8, <1>20, <1>22, <2>2, <2>3, <2>4, <3>1 DEF Outcome, Moves
<1> QED
  BY <1>21, <1>22

(* Every relay cell moves the running digest; the one that a SENDME will   *)
(* acknowledge has it remembered.                                          *)
LEMMA RecordReceived ==
  ASSUME NEW e \in Ends, NEW x, IsEdge(x), ccontrol \in BOOLEAN, NEW y,
         y = sendme_record_received_cell_digest(e, [x EXCEPT !.received = @ + 1])
  PROVE  /\ IsEdge(y) /\ y.received = x.received + 1
         /\ Same(x, y, {"received", "sendme_digest"})
         /\ (CIRCWINDOW_START - (x.deliver_window - 1)) % Inc(ccontrol) = 0
              => y.sendme_digest = <<Peer(e), x.received + 1>>
<1> DEFINE v == [x EXCEPT !.received = @ + 1]
           P == (CIRCWINDOW_START - (x.deliver_window - 1)) % Inc(ccontrol) = 0
           d == <<Peer(e), x.received + 1>>
<1>1. /\ DOMAIN v = Fields /\ v.received = x.received + 1
      /\ \A f \in Fields \ {"received"} : v[f] = x[f]
  BY DEF IsEdge, Fields
<1> HIDE DEF v
<1>2. circuit_sendme_cell_is_next(v) <=> P
  BY <1>1 DEF circuit_sendme_cell_is_next, sendme_get_inc_count, Inc, Fields
<1> HIDE DEF P
<1>3. y = IF P THEN [v EXCEPT !.sendme_digest = d] ELSE v
  BY <1>1, <1>2 DEF sendme_record_received_cell_digest, v
<1>4. d \in Digests
  BY DEF Digests, Ends, Peer, IsEdge
<1> HIDE DEF d
<1>5. /\ DOMAIN y = Fields /\ y.received = x.received + 1
      /\ \A f \in Fields \ {"received", "sendme_digest"} : y[f] = x[f]
      /\ P => y.sendme_digest = d
      /\ y.sendme_digest \in Digests
  BY <1>1, <1>3, <1>4 DEF Fields, IsEdge
<1>6. IsEdge(y)
  <2>1. y.received \in Nat
    BY <1>5 DEF IsEdge
  <2> QED
    BY <1>5, <2>1 DEF IsEdge, Fields
<1> QED
  BY <1>5, <1>6 DEF Same, P, d

(* The circuit's part of a DATA cell: the window is counted down, and a    *)
(* whole increment is acknowledged with the digest just remembered.        *)
Acknowledges(cc, e, x, z, c) ==
  /\ z.deliver_window = x.deliver_window - 1 + Worth(c, Sendmes, Inc(cc))
  /\ z.sent = x.sent + One(c, Cells)
  /\ c \in Sendmes => c.digest = IF emit_min_version[e] = 1
                                 THEN <<Peer(e), x.received + 1>> ELSE << >>
  /\ c # NoCell => Counts(c, FALSE, TRUE, "circuit", "circuit")
  /\ ~z.closed => Queued(x, z, c)

CircuitPart(cc, e, x, z) ==
  /\ IsEdge(z) /\ z.deliver_window \in 0..CIRCWINDOW_START
  /\ z.deliver_window > CIRCWINDOW_START - Inc(cc)
  /\ z.package_window = x.package_window /\ z.inflight = x.inflight
  /\ z.cwnd = x.cwnd /\ z.stream_package = x.stream_package
  /\ z.stream_deliver = x.stream_deliver /\ z.last_digests = x.last_digests
  /\ z.received = x.received + 1 /\ z.task = x.task /\ StopsForQueue(x, z)
  /\ z.closed => Len(x.queue) >= max_circuit_cell_queue_size

LEMMA CircuitData ==
  ASSUME NEW e \in Ends, NEW x, Sound(ccontrol, e, x), ~x.closed, ccontrol \in BOOLEAN,
         NEW y, y = sendme_record_received_cell_digest(e, [x EXCEPT !.received = @ + 1]),
         NEW z, z = sendme_circuit_consider_sending(e, sendme_circuit_data_received(y))
  PROVE  /\ sendme_circuit_data_received(y).deliver_window >= 0
         /\ CircuitPart(ccontrol, e, x, z)
         /\ \E c \in Cells \cup {NoCell} : Acknowledges(ccontrol, e, x, z, c)
<1> DEFINE n == Inc(ccontrol)
           v == sendme_circuit_data_received(y)
           u == [v EXCEPT !.deliver_window = @ + n]
           d == IF emit_min_version[e] = 1 THEN u.sendme_digest ELSE << >>
           c == CircSendme(d)
<1>1. n \in Nat /\ n > 0 /\ n <= CIRCWINDOW_START /\ CIRCWINDOW_START \in Nat
  BY Constants
<1>2. /\ x.deliver_window \in Int /\ x.deliver_window <= CIRCWINDOW_START
      /\ x.deliver_window > CIRCWINDOW_START - n /\ IsEdge(x)
  BY <1>1, SMTT(40) DEF Sound, EdgeTypeOK, IsEdge
<1>3. /\ IsEdge(y) /\ y.received = x.received + 1
      /\ Same(x, y, {"received", "sendme_digest"})
      /\ (CIRCWINDOW_START - (x.deliver_window - 1)) % n = 0
           => y.sendme_digest = <<Peer(e), x.received + 1>>
  BY <1>2, RecordReceived
<1>4. sendme_get_inc_count = n
  BY DEF sendme_get_inc_count, Inc
<1>5. /\ DOMAIN v = Fields /\ v.deliver_window = x.deliver_window - 1
      /\ \A f \in Fields \ {"deliver_window"} : v[f] = y[f]
  BY <1>3 DEF sendme_circuit_data_received, IsEdge, Fields, Same
<1>6. v.deliver_window \in Int /\ v.deliver_window >= 0
  BY <1>1, <1>2, <1>5
<1> HIDE DEF n, v
<1>7. IsEdge(v)
  BY <1>3, <1>5, <1>6 DEF IsEdge, Fields
<1>8. CASE v.deliver_window <= CIRCWINDOW_START - n
  <2>1. x.deliver_window - 1 = CIRCWINDOW_START - n
    BY <1>1, <1>2, <1>5, <1>8
  <2>2. v.sendme_digest = <<Peer(e), x.received + 1>>
    <3>1. CIRCWINDOW_START - (x.deliver_window - 1) = n
      BY <1>1, <1>2, <2>1
    <3>2. n = n * 1 + 0 /\ 1 \in Int /\ 0 \in 0..(n - 1)
      BY <1>1
    <3>3. n % n = 0
      BY <1>1, <3>2, Division
    <3> QED
      BY <1>3, <1>5, <3>1, <3>3 DEF Fields
  <2>3. /\ DOMAIN u = Fields /\ u.deliver_window = CIRCWINDOW_START
        /\ \A f \in Fields \ {"deliver_window"} : u[f] = v[f]
    <3>1. v.deliver_window + n = CIRCWINDOW_START
      BY <1>1, <1>2, <1>5, <2>1
    <3> QED
      BY <1>5, <3>1 DEF Fields
  <2> HIDE DEF u
  <2>4. IsEdge(u)
    <3>1. u.deliver_window \in Int
      BY <1>1, <2>3
    <3> QED
      BY <1>7, <2>3, <3>1 DEF IsEdge, Fields
  <2>5. d \in Digests \cup {<< >>}
    BY <2>4 DEF IsEdge
  <2>6. d = IF emit_min_version[e] = 1 THEN <<Peer(e), x.received + 1>> ELSE << >>
    BY <2>2, <2>3 DEF Fields
  <2>7. z = relay_send_command_from_edge(e, u, c)
    BY <1>4, <1>8 DEF sendme_circuit_consider_sending, send_circuit_level_sendme, u, v
  <2> HIDE DEF d
  <2>8. /\ c \in Cells /\ ~(c.command = "DATA") /\ c.digest = d
        /\ Counts(c, FALSE, TRUE, "circuit", "circuit") /\ One(c, Cells) = 1 /\ c # NoCell
        /\ c \in Sendmes
    BY <2>5, CellTypes, CountsFor DEF CircSendme
  <2> HIDE DEF c
  <2>9. /\ IsEdge(z) /\ SameWindows(u, z) /\ SameRest(u, z) /\ Queues(u, c, z)
        /\ StopsForQueue(u, z) /\ z.sent = u.sent + 1 /\ z.last_digests = u.last_digests
    BY <2>4, <2>7, <2>8, SendCell, ZenonT(60)
  <2>10. /\ u.package_window = x.package_window /\ u.inflight = x.inflight
         /\ u.cwnd = x.cwnd /\ u.stream_package = x.stream_package
         /\ u.stream_deliver = x.stream_deliver /\ u.last_digests = x.last_digests
         /\ u.received = x.received + 1 /\ u.task = x.task /\ u.queue = x.queue
         /\ u.blocked = x.blocked /\ u.reading = x.reading /\ u.closed = x.closed
         /\ u.sent = x.sent
    BY <1>3, <1>5, <2>3 DEF Same, Fields
  <2>11. /\ z.package_window = x.package_window /\ z.inflight = x.inflight
         /\ z.cwnd = x.cwnd /\ z.stream_package = x.stream_package
         /\ z.stream_deliver = x.stream_deliver /\ z.last_digests = x.last_digests
         /\ z.received = x.received + 1 /\ z.task = x.task /\ StopsForQueue(x, z)
         /\ z.deliver_window = CIRCWINDOW_START /\ z.sent = x.sent + 1
         /\ Queues(x, c, z)
    BY <2>3, <2>9, <2>10 DEF SameWindows, SameRest, Queues, StopsForQueue
  <2>12. /\ z.deliver_window \in 0..CIRCWINDOW_START
         /\ z.deliver_window > CIRCWINDOW_START - n
         /\ z.deliver_window = x.deliver_window - 1 + Worth(c, Sendmes, n)
    BY <1>1, <1>2, <2>1, <2>8, <2>11 DEF Worth
  <2>13. z.closed => Len(x.queue) >= max_circuit_cell_queue_size
    BY <2>11, <1>2 DEF Queues, IsEdge
  <2>14. ~z.closed => Queued(x, z, c)
    BY <2>8, <2>11 DEF Queues, Queued
  <2> QED
    BY <1>6, <2>6, <2>8, <2>9, <2>11, <2>12, <2>13, <2>14
      DEF v, n, CircuitPart, Acknowledges
<1>9. CASE ~(v.deliver_window <= CIRCWINDOW_START - n)
  <2>1. z = v
    BY <1>4, <1>9 DEF sendme_circuit_consider_sending, v
  <2>2. /\ z.package_window = x.package_window /\ z.inflight = x.inflight
        /\ z.cwnd = x.cwnd /\ z.stream_package = x.stream_package
        /\ z.stream_deliver = x.stream_deliver /\ z.last_digests = x.last_digests
        /\ z.received = x.received + 1 /\ z.task = x.task /\ z.queue = x.queue
        /\ z.blocked = x.blocked /\ z.reading = x.reading /\ z.closed = x.closed
        /\ z.sent = x.sent
    BY <1>3, <1>5, <2>1 DEF Same, Fields
  <2>3. NoCell \notin Sendmes /\ One(NoCell, Cells) = 0 /\ Worth(NoCell, Sendmes, n) = 0
    BY NoCellIsNone DEF One, Worth
  <2>4. /\ z.deliver_window \in 0..CIRCWINDOW_START
        /\ z.deliver_window > CIRCWINDOW_START - n
        /\ z.deliver_window = x.deliver_window - 1 + Worth(NoCell, Sendmes, n)
        /\ z.sent = x.sent + One(NoCell, Cells)
    <3>1. x.sent \in Nat
      BY <1>2 DEF IsEdge
    <3> QED
      BY <1>1, <1>2, <1>5, <1>6, <1>9, <2>1, <2>2, <2>3, <3>1
  <2>5. StopsForQueue(x, z) /\ Queued(x, z, NoCell)
    BY <2>2 DEF StopsForQueue, Queued
  <2> QED
    BY <1>6, <1>7, <2>1, <2>2, <2>3, <2>4, <2>5 DEF v, n, CircuitPart, Acknowledges
<1> QED
  BY <1>8, <1>9

(* A DATA cell for a stream that is owed one.                              *)
LEMMA DataOutcome ==
  ASSUME NEW e \in Ends, NEW x, Sound(ccontrol, e, x), ~x.closed, ccontrol \in BOOLEAN,
         x.task.op # "sendme", NEW r \in Cells, r.command = "DATA",
         NEW s, s = r.stream, ~ccontrol => x.stream_deliver[s] > 0,
         NEW y, y = sendme_record_received_cell_digest(e, [x EXCEPT !.received = @ + 1]),
         NEW z, z = process_data_cell(e, y, s)
  PROVE  Outcome(ccontrol, e, x, z, r, FALSE)
<1> DEFINE g == sendme_circuit_data_received(y)
           v == sendme_circuit_consider_sending(e, g)
           a == sendme_stream_data_received(v, s)
           d == IF ccontrol THEN x.stream_deliver ELSE [x.stream_deliver EXCEPT ![s] = @ - 1]
           o == [v.outbuf EXCEPT ![s] = @ + 1]
           b == [a EXCEPT !.outbuf[s] = @ + 1]
<1>1. s \in Streams /\ r \in DataCells
  BY DEF Cells, DataCells
<1>2. /\ g.deliver_window >= 0 /\ CircuitPart(ccontrol, e, x, v)
      /\ \E c \in Cells \cup {NoCell} : Acknowledges(ccontrol, e, x, v, c)
  BY CircuitData
<1>3. PICK c \in Cells \cup {NoCell} : Acknowledges(ccontrol, e, x, v, c)
  BY <1>2
<1> USE DEF CircuitPart, Acknowledges
<1>4. x.stream_deliver \in [Streams -> 0..STREAMWINDOW_START] /\ STREAMWINDOW_START \in Nat
  BY Constants DEF Sound, EdgeTypeOK
<1>5. /\ d \in [Streams -> 0..STREAMWINDOW_START]
      /\ d[s] = IF ccontrol THEN x.stream_deliver[s] ELSE x.stream_deliver[s] - 1
      /\ \A t \in Streams : t # s => d[t] = x.stream_deliver[t]
  <2>1. ~ccontrol => x.stream_deliver[s] - 1 \in 0..STREAMWINDOW_START
    BY <1>1, <1>4
  <2> QED
    BY <1>1, <1>4, <2>1
<1>6. d \in [Streams -> Int] /\ ~(d[s] < 0)
  BY <1>1, <1>5
<1>7. process_data_cell(e, y, s) = deliver_to_stream(v, s)
  <2>1. g.deliver_window \in Int /\ ~(g.deliver_window < 0)
    <3>1. x.deliver_window \in Int /\ IsEdge(x)
      BY DEF Sound, IsEdge
    <3>2. IsEdge(y)
      BY <3>1, RecordReceived
    <3>3. g.deliver_window = y.deliver_window - 1 /\ y.deliver_window \in Int
      BY <3>2 DEF IsEdge, Fields, sendme_circuit_data_received
    <3> QED
      BY <1>2, <3>3
  <2> HIDE DEF g
  <2> QED
    BY <2>1 DEF process_data_cell, g
<1> HIDE DEF g, v, d
<1>8. /\ DOMAIN a = Fields /\ a.stream_deliver = d
      /\ \A f \in Fields \ {"stream_deliver"} : a[f] = v[f]
  <2>1. CASE ccontrol
    BY <1>2, <2>1 DEF sendme_stream_data_received, IsEdge, Fields, d
  <2>2. CASE ~ccontrol
    <3>1. a = [v EXCEPT !.stream_deliver = d]
      BY <1>2, <2>2 DEF sendme_stream_data_received, d
    <3> QED
      BY <1>2, <3>1 DEF IsEdge, Fields
  <2> QED
    BY <2>1, <2>2
<1>9. o \in [Streams -> Nat]
  <2>1. v.outbuf \in [Streams -> Nat]
    BY <1>2 DEF IsEdge
  <2> QED
    BY <1>1, <2>1
<1> HIDE DEF a
<1>10. /\ DOMAIN b = Fields /\ b.outbuf = o /\ \A f \in Fields \ {"outbuf"} : b[f] = a[f]
  <2>1. v.outbuf = a.outbuf
    BY <1>8 DEF Fields
  <2> QED
    BY <1>8, <2>1 DEF Fields
<1>11. z = sendme_connection_edge_consider_sending(b, s)
  BY <1>6, <1>7, <1>8 DEF deliver_to_stream, a
<1> HIDE DEF b, o
<1>12. IsEdge(b) /\ b.task.op # "sendme"
  <2>1. IsEdge(v) /\ v.task = x.task
    BY <1>2
  <2> QED
    BY <1>6, <1>8, <1>9, <1>10, <2>1 DEF IsEdge, Fields
<1>13. IsEdge(z) /\ Same(b, z, {"task"}) /\ Owing(ccontrol, z)
  BY <1>1, <1>11, <1>12, ConsiderSending
<1>14. /\ z.stream_deliver = d
       /\ \A f \in Fields \ {"stream_deliver", "outbuf", "task"} : z[f] = v[f]
  BY <1>8, <1>10, <1>13 DEF Same, Fields
<1>15. EdgeTypeOK(e, z)
  BY <1>2, <1>5, <1>13, <1>14, ZenonT(60) DEF Sound, EdgeTypeOK, IsEdge, Fields
<1>16. Awake(ccontrol, z)
  BY <1>2, <1>14, ZenonT(60) DEF Sound, Awake, Full, StopsForQueue, IsEdge, Fields
<1>17. Sound(ccontrol, e, z)
  BY <1>2, <1>13, <1>14, <1>15, <1>16 DEF Sound, Fields
<1>18. CASE z.closed
  BY <1>2, <1>14, <1>17, <1>18 DEF Outcome, Refuses, Fields
<1>19. CASE ~z.closed
  <2>1. /\ Counts(r, TRUE, FALSE, s, "circuit") /\ One(r, Cells) = 1
        /\ "circuit" \notin Streams
    BY <1>1, CountsFor, CellTypes, Kinds DEF Counts
  <2>2. Counts(c, FALSE, c \in Sendmes, "circuit", "circuit")
    BY <1>3, CountsFor DEF Counts
  <2>3. Credits(ccontrol, x, z, c, r)
    <3>1. /\ x.inflight \in Int /\ x.package_window \in Int /\ x.deliver_window \in Int
          /\ \A t \in Streams : x.stream_package[t] \in Int /\ x.stream_deliver[t] \in Int
      BY DEF Sound, IsEdge
    <3>2. /\ z.inflight = x.inflight /\ z.package_window = x.package_window
          /\ z.stream_package = x.stream_package
          /\ z.deliver_window = x.deliver_window - 1 + Worth(c, Sendmes, Inc(ccontrol))
      BY <1>2, <1>3, <1>14 DEF Fields
    <3>3. /\ One(c, DataCells) = 0 /\ One(r, DataCells) = 1
          /\ Worth(r, Sendmes, Inc(ccontrol)) = 0
          /\ \A t \in Streams : /\ One(c, Kind("DATA", t)) = 0
                                /\ One(r, Kind("DATA", t)) = IF t = s THEN 1 ELSE 0
                                /\ Worth(c, Kind("SENDME", t), STREAMWINDOW_INCREMENT) = 0
                                /\ Worth(r, Kind("SENDME", t), STREAMWINDOW_INCREMENT) = 0
      BY <2>1, <2>2 DEF Counts, One, Worth
    <3> QED
      BY <1>5, <1>14, <3>1, <3>2, <3>3 DEF Credits
  <2>4. Remembers(ccontrol, e, x, z, c, r)
    <3>1. z.sent = v.sent /\ z.received = x.received + 1 /\ z.last_digests = x.last_digests
      BY <1>2, <1>14 DEF Fields
    <3> QED
      BY <1>1, <1>3, <2>1, <2>2, <3>1 DEF Remembers, Counts
  <2>5. Queued(x, z, c)
    BY <1>3, <1>14, <1>19 DEF Queued, Fields
  <2> QED
    <3>1. c \notin Others
      BY <1>3, OthersApart DEF Counts
    <3> QED
      BY <1>17, <1>19, <2>3, <2>4, <2>5, <3>1 DEF Outcome, Moves
<1> QED
  BY <1>18, <1>19

LEMMA SoundSame ==
  ASSUME NEW cc \in BOOLEAN, NEW e \in Ends, NEW x, Sound(cc, e, x), NEW z, IsEdge(z),
         Same(x, z, {"received", "sendme_digest", "last_digests", "closed"})
  PROVE  Sound(cc, e, z)
<1>1. \A f \in Fields \ {"received", "sendme_digest", "last_digests", "closed"} : z[f] = x[f]
  BY DEF Same
<1>2. EdgeTypeOK(e, z)
  BY <1>1 DEF Sound, EdgeTypeOK, IsEdge, Fields
<1>3. Awake(cc, z) /\ Owing(cc, z) /\ z.deliver_window = x.deliver_window
  BY <1>1 DEF Sound, Awake, Owing, Full, Fields
<1> QED
  BY <1>2, <1>3 DEF Sound

(* When the circuit window reopens, every stream that may package is read. *)
LEMMA Resume ==
  ASSUME NEW x, IsEdge(x), x.task.op # "sendme", ccontrol \in BOOLEAN,
         NEW z, z = circuit_resume_edge_reading(x)
  PROVE  /\ IsEdge(z) /\ Same(x, z, {"reading", "task"})
         /\ z.task.op # "sendme" /\ Awake(ccontrol, z)
<1> DEFINE ready == {s \in resumable(x) : x.inbuf[s] > 0}
           room  == MinOf(congestion_control_get_package_window(x),
                          cell_queue_high - Len(x.queue))
           all   == [s \in Streams |-> x.reading[s] \/ s \in resumable(x)]
           y     == [x EXCEPT !.reading = all]
           t     == ResumeTask(room, Cardinality(ready))
<1>1. CASE x.blocked
  <2>1. z = x
    BY <1>1 DEF circuit_resume_edge_reading
  <2> QED
    BY <1>1, <2>1 DEF Same, Awake
<1>2. CASE ~x.blocked
  <2>1. z = IF ready = {} THEN y ELSE [y EXCEPT !.task = t]
    BY <1>2 DEF circuit_resume_edge_reading
  <2>2. all \in [Streams -> BOOLEAN]
    BY DEF IsEdge, resumable
  <2>3. DOMAIN y = Fields /\ y.reading = all /\ \A f \in Fields \ {"reading"} : y[f] = x[f]
    BY DEF IsEdge, Fields
  <2>4. "op" \in DOMAIN t /\ t.op = "resume"
    BY DEF ResumeTask
  <2>5. \A s \in Streams : x.stream_package[s] > 0 => all[s]
    BY DEF resumable
  <2> HIDE DEF all, y, t, ready
  <2>6. /\ DOMAIN z = Fields /\ z.reading = all /\ z.task \in {x.task, t}
        /\ \A f \in Fields \ {"reading", "task"} : z[f] = x[f]
    BY <2>1, <2>3 DEF Fields
  <2>7. IsEdge(z) /\ z.task.op # "sendme"
    BY <2>2, <2>4, <2>6 DEF IsEdge, Fields
  <2>8. Awake(ccontrol, z)
    BY <2>5, <2>6 DEF Awake, Fields
  <2> QED
    BY <2>6, <2>7, <2>8 DEF Same
<1> QED
  BY <1>1, <1>2

(* A circuit SENDME.                                                       *)
LEMMA CircuitSendmeOutcome ==
  ASSUME NEW e \in Ends, NEW x, Sound(ccontrol, e, x), ~x.closed, ccontrol \in BOOLEAN,
         x.task.op # "sendme", NEW r \in Sendmes, NEW w \in Cwnds,
         ccontrol => x.inflight >= Inc(ccontrol),
         NEW y, y = sendme_record_received_cell_digest(e, [x EXCEPT !.received = @ + 1]),
         NEW z, z = sendme_process_circuit_level(e, y, r, w)
  PROVE  Outcome(ccontrol, e, x, z, r, FALSE)
<1> DEFINE v == [y EXCEPT !.last_digests = Tail(@)]
           n == Inc(ccontrol)
           g == IF ccontrol THEN [v EXCEPT !.inflight = @ - cc_sendme_inc, !.cwnd = w]
                ELSE [v EXCEPT !.package_window = @ + CIRCWINDOW_INCREMENT]
           ok == sendme_is_valid(e, x, r)
           over == x.package_window + CIRCWINDOW_INCREMENT > CIRCWINDOW_START
<1>1. IsEdge(x)
  BY DEF Sound
<1>2. IsEdge(y) /\ y.received = x.received + 1 /\ Same(x, y, {"received", "sendme_digest"})
  BY <1>1, RecordReceived
<1>3. ok => x.last_digests # << >>
  BY DEF sendme_is_valid
<1>4. /\ sendme_is_valid(e, y, r) <=> ok
      /\ y.package_window = x.package_window /\ y.last_digests = x.last_digests
  BY <1>2 DEF Same, Fields, sendme_is_valid
<1> HIDE DEF ok
<1>5. n \in Nat /\ n > 0 /\ CIRCWINDOW_START \in Nat /\ CIRCWINDOW_INCREMENT \in Nat
      /\ n = IF ccontrol THEN cc_sendme_inc ELSE CIRCWINDOW_INCREMENT
  BY Constants DEF Inc
<1>6. CASE ~ok
  <2>1. z = [y EXCEPT !.closed = TRUE]
    BY <1>4, <1>6 DEF sendme_process_circuit_level, Close
  <2>2. DOMAIN z = Fields /\ z.closed = TRUE /\ \A f \in Fields \ {"closed"} : z[f] = y[f]
    BY <1>2, <2>1 DEF IsEdge, Fields
  <2>3. IsEdge(z)
    BY <1>2, <2>2 DEF IsEdge, Fields
  <2>4. Same(x, z, {"received", "sendme_digest", "last_digests", "closed"})
    BY <1>2, <2>2 DEF Same, Fields
  <2> QED
    BY <1>6, <2>2, <2>3, <2>4, SoundSame DEF Outcome, Refuses, ok
<1>7. CASE ok
  <2>1. x.last_digests # << >> /\ Tail(x.last_digests) \in Seq(Digests)
    BY <1>1, <1>3, <1>7 DEF IsEdge
  <2>2. /\ DOMAIN v = Fields /\ v.last_digests = Tail(x.last_digests)
        /\ \A f \in Fields \ {"last_digests"} : v[f] = y[f]
    BY <1>2, <1>4 DEF IsEdge, Fields
  <2> HIDE DEF v
  <2>3. IsEdge(v)
    BY <1>2, <2>1, <2>2 DEF IsEdge, Fields
  <2>4. CASE ~ccontrol /\ over
    <3>1. z = [v EXCEPT !.closed = TRUE]
      BY <1>4, <1>7, <2>4 DEF sendme_process_circuit_level, Close, v
    <3>2. DOMAIN z = Fields /\ z.closed = TRUE /\ \A f \in Fields \ {"closed"} : z[f] = v[f]
      BY <2>3, <3>1 DEF IsEdge, Fields
    <3>3. IsEdge(z)
      BY <2>3, <3>2 DEF IsEdge, Fields
    <3>4. Same(x, z, {"received", "sendme_digest", "last_digests", "closed"})
      BY <1>2, <2>2, <3>2 DEF Same, Fields
    <3> QED
      BY <2>4, <3>2, <3>3, <3>4, SoundSame DEF Outcome, Refuses
  <2>5. CASE ~(~ccontrol /\ over)
    <3>1. z = circuit_resume_edge_reading(g)
      BY <1>4, <1>7, <2>5 DEF sendme_process_circuit_level, v
    <3>2. /\ DOMAIN g = Fields
          /\ g.inflight = IF ccontrol THEN x.inflight - n ELSE x.inflight
          /\ g.package_window = IF ccontrol THEN x.package_window ELSE x.package_window + n
          /\ g.cwnd \in {w, x.cwnd}
          /\ \A f \in Fields \ {"inflight", "cwnd", "package_window"} : g[f] = v[f]
      <4>1. v.inflight = x.inflight /\ v.package_window = x.package_window /\ v.cwnd = x.cwnd
        BY <1>2, <2>2 DEF Same, Fields
      <4>2. CASE ccontrol
        BY <1>5, <2>2, <4>1, <4>2 DEF Fields
      <4>3. CASE ~ccontrol
        BY <1>5, <2>2, <4>1, <4>3 DEF Fields
      <4> QED
        BY <4>2, <4>3
    <3> HIDE DEF g
    <3>3. /\ g.inflight \in Nat /\ g.package_window \in 0..CIRCWINDOW_START
          /\ g.cwnd \in Cwnds
      <4>1. /\ x.inflight \in Nat /\ x.package_window \in 0..CIRCWINDOW_START
            /\ x.cwnd \in Cwnds
        BY DEF Sound, EdgeTypeOK
      <4> QED
        BY <1>5, <2>5, <3>2, <4>1
    <3>4. IsEdge(g)
      <4>1. /\ DOMAIN g = Fields
            /\ \A f \in Fields \ {"inflight", "cwnd", "package_window"} : g[f] = v[f]
        BY <3>2
      <4>2. g.inflight \in Int /\ g.package_window \in Int /\ g.cwnd \in Cwnds
        BY <3>3
      <4> QED
        BY <2>3, <4>1, <4>2 DEF IsEdge, Fields
    <3>5. g.task.op # "sendme"
      BY <1>2, <2>2, <3>2 DEF Same, Fields
    <3>6. /\ IsEdge(z) /\ Same(g, z, {"reading", "task"})
          /\ z.task.op # "sendme" /\ Awake(ccontrol, z)
      BY <3>1, <3>4, <3>5, Resume
    <3>7. /\ z.inflight = g.inflight /\ z.package_window = g.package_window
          /\ z.cwnd = g.cwnd
          /\ z.deliver_window = x.deliver_window /\ z.stream_package = x.stream_package
          /\ z.stream_deliver = x.stream_deliver /\ z.sent = x.sent
          /\ z.received = x.received + 1 /\ z.last_digests = Tail(x.last_digests)
          /\ z.queue = x.queue /\ z.closed = x.closed
      <4>1. \A f \in Fields \ {"inflight", "cwnd", "package_window"} : g[f] = v[f]
        BY <3>2
      <4>2. v.received = x.received + 1 /\ v.last_digests = Tail(x.last_digests)
        BY <1>2, <2>2 DEF Fields
      <4>3. \A f \in Fields \ {"received", "sendme_digest", "last_digests"} : v[f] = x[f]
        BY <1>2, <2>2 DEF Same
      <4>4. \A f \in Fields \ {"reading", "task"} : z[f] = g[f]
        BY <3>6 DEF Same
      <4> QED
        BY <4>1, <4>2, <4>3, <4>4 DEF Fields
    <3>8. EdgeTypeOK(e, z)
      BY <3>3, <3>6, <3>7 DEF Sound, EdgeTypeOK, IsEdge
    <3>9. Sound(ccontrol, e, z)
      BY <3>6, <3>7, <3>8 DEF Sound, Owing
    <3>10. /\ Counts(NoCell, FALSE, FALSE, "circuit", "circuit") /\ One(NoCell, Cells) = 0
           /\ r \in Cells /\ One(r, Cells) = 1 /\ "circuit" \notin Streams
           /\ Counts(r, FALSE, TRUE, "circuit", "circuit")
      <4>1. r \in Cells /\ r.command = "SENDME" /\ r.stream = "circuit"
        BY DEF Sendmes, Kind
      <4> QED
        BY <4>1, CountsFor, CellTypes, Kinds DEF Counts
    <3>11. Credits(ccontrol, x, z, NoCell, r)
      <4>1. /\ x.inflight \in Int /\ x.package_window \in Int /\ x.deliver_window \in Int
            /\ \A t \in Streams : x.stream_package[t] \in Int /\ x.stream_deliver[t] \in Int
        BY <1>1 DEF IsEdge
      <4> QED
        BY <1>5, <3>2, <3>7, <3>10, <4>1 DEF Credits, Counts, One, Worth
    <3>12. Remembers(ccontrol, e, x, z, NoCell, r)
      <4>1. x.sent \in Nat
        BY <1>1 DEF IsEdge
      <4> QED
        BY <2>1, <3>7, <3>10, <4>1 DEF Remembers, Counts
    <3> QED
      BY <3>7, <3>9, <3>11, <3>12, OthersApart DEF Outcome, Moves, Queued
  <2> QED
    BY <2>4, <2>5
<1> QED
  BY <1>6, <1>7

(* A stream SENDME.                                                        *)
LEMMA StreamLevelOutcome ==
  ASSUME NEW e \in Ends, NEW x, Sound(ccontrol, e, x), ~x.closed, ccontrol \in BOOLEAN,
         x.task.op # "sendme", NEW s \in Streams, NEW r \in Kind("SENDME", s),
         NEW y, y = sendme_record_received_cell_digest(e, [x EXCEPT !.received = @ + 1]),
         NEW z, z = process_stream_sendme(y, s)
  PROVE  Outcome(ccontrol, e, x, z, r, FALSE)
<1> DEFINE v == sendme_process_stream_level(y, s)
           p == [x.stream_package EXCEPT ![s] = @ + STREAMWINDOW_INCREMENT]
           bad == ccontrol \/ x.stream_package[s] + STREAMWINDOW_INCREMENT > STREAMWINDOW_START
<1>1. IsEdge(x)
  BY DEF Sound
<1>2. IsEdge(y) /\ y.received = x.received + 1 /\ Same(x, y, {"received", "sendme_digest"})
  BY <1>1, RecordReceived
<1>3. y.stream_package = x.stream_package
  BY <1>2 DEF Same, Fields
<1>4. CASE bad
  <2>1. v = [y EXCEPT !.closed = TRUE]
    BY <1>3, <1>4 DEF sendme_process_stream_level, Close
  <2> HIDE DEF v
  <2>2. DOMAIN v = Fields /\ v.closed = TRUE /\ \A f \in Fields \ {"closed"} : v[f] = y[f]
    BY <1>2, <2>1 DEF IsEdge, Fields
  <2>3. z = v
    BY <2>2 DEF process_stream_sendme, v
  <2>4. IsEdge(z)
    BY <1>2, <2>2, <2>3, ZenonT(60) DEF IsEdge, Fields
  <2>5. Same(x, z, {"received", "sendme_digest", "last_digests", "closed"})
    BY <1>2, <2>2, <2>3 DEF Same, Fields
  <2> QED
    BY <1>4, <2>2, <2>3, <2>4, <2>5, SoundSame DEF Outcome, Refuses
<1>5. CASE ~bad
  <2>1. /\ p \in [Streams -> 0..STREAMWINDOW_START]
        /\ p[s] = x.stream_package[s] + STREAMWINDOW_INCREMENT
        /\ \A t \in Streams : t # s => p[t] = x.stream_package[t]
    <3>1. x.stream_package \in [Streams -> 0..STREAMWINDOW_START]
      BY DEF Sound, EdgeTypeOK
    <3>2. x.stream_package[s] + STREAMWINDOW_INCREMENT \in 0..STREAMWINDOW_START
      BY <1>5, <3>1, Constants
    <3> QED
      BY <3>1, <3>2
  <2>2. p \in [Streams -> Int]
    BY <2>1
  <2>3. v = [y EXCEPT !.stream_package = p]
    BY <1>3, <1>5 DEF sendme_process_stream_level
  <2> HIDE DEF v, p
  <2>4. /\ DOMAIN v = Fields /\ v.stream_package = p
        /\ \A f \in Fields \ {"stream_package"} : v[f] = y[f]
    BY <1>2, <2>3 DEF IsEdge, Fields
  <2>5. /\ v.received = x.received + 1
        /\ \A f \in Fields \ {"received", "sendme_digest", "stream_package"} : v[f] = x[f]
    BY <1>2, <2>4 DEF Same, Fields
  <2>6. IsEdge(v)
    BY <1>2, <2>2, <2>4 DEF IsEdge, Fields
  <2> DEFINE t == PackageTask(v, s)
             a == [v.reading EXCEPT ![s] = TRUE]
  <2>7. /\ IsEdge(z) /\ Same(v, z, {"reading", "task"}) /\ z.task.op # "sendme"
        /\ z.blocked \/ (z.reading[s] /\ \A u \in Streams : u # s => z.reading[u] = x.reading[u])
    <3>1. v.closed = x.closed /\ v.reading = x.reading /\ v.blocked = x.blocked
          /\ v.task = x.task
      BY <2>5 DEF Fields
    <3>2. CASE v.blocked
      <4>1. z = v
        BY <3>2 DEF process_stream_sendme, v
      <4> QED
        BY <2>6, <3>1, <3>2, <4>1 DEF Same
    <3>3. CASE ~v.blocked
      <4>1. z = [v EXCEPT !.reading = a, !.task = t]
        BY <3>1, <3>3 DEF process_stream_sendme, v
      <4>2. "op" \in DOMAIN t /\ t.op = "package"
        BY DEF PackageTask
      <4>3. /\ a \in [Streams -> BOOLEAN] /\ a[s]
            /\ \A u \in Streams : u # s => a[u] = x.reading[u]
        <5>1. v.reading \in [Streams -> BOOLEAN]
          BY <2>6 DEF IsEdge
        <5> QED
          BY <3>1, <5>1
      <4> HIDE DEF t, a
      <4>4. /\ DOMAIN z = Fields /\ z.reading = a /\ z.task = t
            /\ \A f \in Fields \ {"reading", "task"} : z[f] = v[f]
        BY <2>4, <4>1 DEF Fields
      <4> QED
        BY <2>6, <4>2, <4>3, <4>4 DEF IsEdge, Fields, Same
    <3> QED
      BY <3>2, <3>3
  <2>8. /\ z.inflight = x.inflight /\ z.package_window = x.package_window
        /\ z.cwnd = x.cwnd /\ z.stream_package = p
        /\ z.deliver_window = x.deliver_window /\ z.stream_deliver = x.stream_deliver
        /\ z.sent = x.sent /\ z.received = x.received + 1
        /\ z.last_digests = x.last_digests /\ z.queue = x.queue
        /\ z.closed = x.closed /\ z.blocked = x.blocked
    BY <2>4, <2>5, <2>7 DEF Same, Fields
  <2>9. EdgeTypeOK(e, z)
    BY <2>1, <2>7, <2>8 DEF Sound, EdgeTypeOK, IsEdge
  <2>10. Awake(ccontrol, z)
    <3> SUFFICES ASSUME NEW u \in Streams, ~z.blocked, ~Full(ccontrol, z), z.stream_package[u] > 0
                 PROVE  z.reading[u]
      BY DEF Awake
    <3>1. CASE u = s
      BY <2>7, <3>1
    <3>2. CASE u # s
      BY <2>1, <2>7, <2>8, <3>2 DEF Sound, Awake, Full
    <3> QED
      BY <3>1, <3>2
  <2>11. Sound(ccontrol, e, z)
    BY <2>7, <2>8, <2>9, <2>10 DEF Sound, Owing
  <2>12. /\ Counts(NoCell, FALSE, FALSE, "circuit", "circuit") /\ One(NoCell, Cells) = 0
         /\ r \in Cells /\ One(r, Cells) = 1 /\ "circuit" \notin Streams
         /\ Counts(r, FALSE, FALSE, "circuit", s)
    <3>1. r \in Cells /\ r.command = "SENDME" /\ r.stream = s
      BY DEF Kind
    <3> QED
      BY <3>1, CountsFor, CellTypes, Kinds DEF Counts
  <2>13. Credits(ccontrol, x, z, NoCell, r)
    <3>1. /\ x.inflight \in Int /\ x.package_window \in Int /\ x.deliver_window \in Int
          /\ \A u \in Streams : x.stream_package[u] \in Int /\ x.stream_deliver[u] \in Int
          /\ STREAMWINDOW_INCREMENT \in Nat
      BY <1>1, Constants DEF IsEdge
    <3> QED
      BY <1>5, <2>1, <2>8, <2>12, <3>1 DEF Credits, Counts, One, Worth
  <2>14. Remembers(ccontrol, e, x, z, NoCell, r)
    <3>1. x.sent \in Nat
      BY <1>1 DEF IsEdge
    <3> QED
      BY <2>8, <2>12, <3>1 DEF Remembers, Counts
  <2> QED
    BY <2>8, <2>11, <2>13, <2>14, OthersApart DEF Outcome, Moves, Queued
<1> QED
  BY <1>4, <1>5

(* Any other relay cell.                                                   *)
LEMMA OtherReceived ==
  ASSUME NEW e \in Ends, NEW x, Sound(ccontrol, e, x), ~x.closed, ccontrol \in BOOLEAN,
         NEW r \in Cells, r.command = "OTHER",
         NEW z, z = sendme_record_received_cell_digest(e, [x EXCEPT !.received = @ + 1])
  PROVE  Outcome(ccontrol, e, x, z, r, FALSE)
<1>1. IsEdge(x)
  BY DEF Sound
<1>2. IsEdge(z) /\ z.received = x.received + 1 /\ Same(x, z, {"received", "sendme_digest"})
  BY <1>1, RecordReceived
<1>3. /\ SameWindows(x, z) /\ z.sent = x.sent /\ z.last_digests = x.last_digests
      /\ z.queue = x.queue /\ z.closed = x.closed
      /\ Same(x, z, {"received", "sendme_digest", "last_digests", "closed"})
  BY <1>2 DEF Same, Fields, SameWindows
<1>4. Sound(ccontrol, e, z)
  BY <1>2, <1>3, SoundSame
<1>5. /\ Counts(NoCell, FALSE, FALSE, "circuit", "circuit") /\ One(NoCell, Cells) = 0
      /\ One(r, Cells) = 1 /\ "circuit" \notin Streams
      /\ Counts(r, FALSE, FALSE, "circuit", "circuit")
  BY CountsFor, CellTypes, Kinds DEF Counts
<1>6. Credits(ccontrol, x, z, NoCell, r)
  <2>1. /\ x.inflight \in Int /\ x.package_window \in Int /\ x.deliver_window \in Int
        /\ \A u \in Streams : x.stream_package[u] \in Int /\ x.stream_deliver[u] \in Int
    BY <1>1 DEF IsEdge
  <2> QED
    BY <1>3, <1>5, <2>1 DEF Credits, Counts, One, Worth, SameWindows
<1>7. Remembers(ccontrol, e, x, z, NoCell, r)
  <2>1. x.sent \in Nat
    BY <1>1 DEF IsEdge
  <2> QED
    BY <1>2, <1>3, <1>5, <2>1 DEF Remembers, Counts
<1> QED
  BY <1>3, <1>4, <1>6, <1>7, OthersApart DEF Outcome, Moves, Queued

(* What the peer's bookkeeping guarantees about a cell on its way.         *)
Covered(cc, x, r) ==
  /\ (r \in Sendmes /\ cc) => x.inflight >= Inc(cc)
  /\ \A s \in Streams : (r \in Kind("DATA", s) /\ ~cc) => x.stream_deliver[s] > 0

LEMMA ReceiveOutcome ==
  ASSUME NEW e \in Ends, NEW x, Sound(ccontrol, e, x), ~x.closed, ccontrol \in BOOLEAN,
         x.task.op # "sendme", NEW r \in Cells, NEW w \in Cwnds, Covered(ccontrol, x, r),
         NEW z, z = handle_relay_cell_command(e, x, r, w)
  PROVE  Outcome(ccontrol, e, x, z, r, FALSE)
<1> DEFINE y == sendme_record_received_cell_digest(e, [x EXCEPT !.received = @ + 1])
<1>1. "circuit" \notin Streams
  BY CellTypes
<1>2. CASE r.command = "DATA"
  <2>1. z = process_data_cell(e, y, r.stream)
    BY <1>2 DEF handle_relay_cell_command
  <2>2. r.stream \in Streams /\ r \in Kind("DATA", r.stream)
    BY <1>2 DEF Cells, Kind
  <2>3. ~ccontrol => x.stream_deliver[r.stream] > 0
    BY <2>2 DEF Covered
  <2> HIDE DEF y
  <2> QED
    BY <1>2, <2>1, <2>3, DataOutcome DEF y
<1>3. CASE r.command = "SENDME" /\ r.stream = "circuit"
  <2>1. z = sendme_process_circuit_level(e, y, r, w)
    BY <1>3 DEF handle_relay_cell_command
  <2>2. r \in Sendmes
    BY <1>3 DEF Sendmes, Kind
  <2>3. ccontrol => x.inflight >= Inc(ccontrol)
    BY <2>2 DEF Covered
  <2> QED
    BY <2>1, <2>2, <2>3, CircuitSendmeOutcome
<1>4. CASE r.command = "SENDME" /\ r.stream # "circuit"
  <2>1. z = process_stream_sendme(y, r.stream)
    BY <1>4 DEF handle_relay_cell_command
  <2>2. r.stream \in Streams /\ r \in Kind("SENDME", r.stream)
    BY <1>4 DEF Cells, Kind
  <2> QED
    BY <2>1, <2>2, StreamLevelOutcome
<1>5. CASE r.command = "OTHER"
  <2>1. z = y
    BY <1>5 DEF handle_relay_cell_command
  <2> QED
    BY <1>5, <2>1, OtherReceived
<1>6. r.command \in {"DATA", "SENDME", "OTHER"}
  BY DEF Cells
<1> QED
  BY <1>2, <1>3, <1>4, <1>5, <1>6

-----------------------------------------------------------------------------
(* Credit, in one direction: x sends to y, what x sent is in out, what y   *)
(* sent is in back.                                                        *)

Used(cc, y, out, back) ==
  Total(out, DataCells) + (CIRCWINDOW_START - y.deliver_window)
    + Total(back, Sendmes) * Inc(cc)

Balanced(cc, x, y, out, back) ==
  /\ IF cc THEN x.inflight = Used(cc, y, out, back)
           ELSE x.package_window = circwindow - Used(cc, y, out, back)
  /\ \A s \in Streams :
       x.stream_package[s] =
         y.stream_deliver[s] - (IF cc THEN 0 ELSE Total(out, Kind("DATA", s)))
           - Total(back, Kind("SENDME", s)) * STREAMWINDOW_INCREMENT

(* A pipe after cell c went in, or none; and after cell r came out.        *)
Joined(q, c) == IF c = NoCell THEN q ELSE Append(q, c)
Leaves(r, q, p) ==
  IF r = NoCell THEN p = q ELSE q # << >> /\ r = Head(q) /\ p = Tail(q)

LEMMA KindsAreCells ==
  /\ DataCells \subseteq Cells /\ Sendmes \subseteq Cells /\ Others \subseteq Cells
  /\ \A k, s : Kind(k, s) \subseteq Cells
BY DEF DataCells, Sendmes, Others, Kind

LEMMA JoinedTotal ==
  ASSUME NEW q \in Seq(Cells), NEW c \in Cells \cup {NoCell}
  PROVE  /\ Joined(q, c) \in Seq(Cells)
         /\ \A S \in SUBSET Cells :
              /\ Total(Joined(q, c), S) = Total(q, S) + One(c, S)
              /\ Total(q, S) \in Nat
<1>1. ASSUME NEW S \in SUBSET Cells PROVE Total(q, S) \in Nat
  <2>1. Len(q) \in Nat
    OBVIOUS
  <2> QED
    BY <2>1, CountIsNat DEF Total
<1>2. CASE c = NoCell
  BY <1>1, <1>2, NoCellIsNone DEF Joined, One
<1>3. CASE c # NoCell
  <2>1. c \in Cells /\ Joined(q, c) = Append(q, c)
    BY <1>3 DEF Joined
  <2> QED
    BY <1>1, <2>1, TotalAppend DEF One
<1> QED
  BY <1>2, <1>3

LEMMA LeavesTotal ==
  ASSUME NEW q \in Seq(Cells), NEW r, NEW p, Leaves(r, q, p)
  PROVE  /\ p \in Seq(Cells) /\ r \in Cells \cup {NoCell}
         /\ \A S \in SUBSET Cells :
              /\ Total(q, S) = Total(p, S) + One(r, S)
              /\ Total(q, S) \in Nat /\ Total(p, S) \in Nat
<1>1. ASSUME NEW S \in SUBSET Cells PROVE Total(q, S) \in Nat
  <2>1. Len(q) \in Nat
    OBVIOUS
  <2> QED
    BY <2>1, CountIsNat DEF Total
<1>2. CASE r = NoCell
  BY <1>1, <1>2, NoCellIsNone DEF Leaves, One
<1>3. CASE r # NoCell
  <2>1. q # << >> /\ r = Head(q) /\ p = Tail(q)
    BY <1>3 DEF Leaves
  <2>2. r \in Cells /\ p \in Seq(Cells)
    BY <2>1
  <2> QED
    BY <2>1, <2>2, TotalTail DEF One
<1> QED
  BY <1>2, <1>3

LEMMA OneMore ==
  ASSUME NEW a \in Nat, NEW n \in Nat, NEW c, NEW S
  PROVE  (a + One(c, S)) * n = a * n + Worth(c, S, n) /\ a * n \in Nat
<1>1. (a + 1) * n = a * n + n /\ (a + 0) * n = a * n + 0 /\ a * n \in Nat
  OBVIOUS
<1> QED
  BY <1>1 DEF One, Worth

(* The sender moves.                                                       *)
LEMMA SenderMoves ==
  ASSUME NEW cc \in BOOLEAN, NEW x, NEW y, NEW z, IsEdge(x), IsEdge(y), IsEdge(z),
         NEW out \in Seq(Cells), NEW back \in Seq(Cells), NEW more,
         NEW c \in Cells \cup {NoCell}, NEW r, Leaves(r, back, more),
         Credits(cc, x, z, c, r), Balanced(cc, x, y, out, back)
  PROVE  Balanced(cc, z, y, Joined(out, c), more)
<1> DEFINE o == Total(out, DataCells)
           b == Total(back, Sendmes)
           m == Total(more, Sendmes)
           n == Inc(cc)
<1>1. n \in Nat /\ STREAMWINDOW_INCREMENT \in Nat /\ CIRCWINDOW_START \in Nat
      /\ circwindow \in Nat
  BY Constants
<1>2. /\ x.inflight \in Int /\ x.package_window \in Int /\ y.deliver_window \in Int
      /\ \A s \in Streams : x.stream_package[s] \in Int /\ y.stream_deliver[s] \in Int
  BY DEF IsEdge
<1>3. /\ Total(Joined(out, c), DataCells) = o + One(c, DataCells)
      /\ o \in Nat /\ One(c, DataCells) \in {0, 1}
  BY JoinedTotal, KindsAreCells DEF One
<1>4. b = m + One(r, Sendmes) /\ m \in Nat /\ b \in Nat
  BY LeavesTotal, KindsAreCells
<1> HIDE DEF o, b, m, n
<1>5. b * n = m * n + Worth(r, Sendmes, n) /\ m * n \in Nat /\ Worth(r, Sendmes, n) \in Nat
  <2>1. Worth(r, Sendmes, n) \in Nat
    BY <1>1 DEF Worth
  <2> QED
    BY <1>1, <1>4, <2>1, OneMore
<1>6. IF cc THEN z.inflight = Used(cc, y, Joined(out, c), more)
            ELSE z.package_window = circwindow - Used(cc, y, Joined(out, c), more)
  <2> DEFINE d == CIRCWINDOW_START - y.deliver_window
             one == One(c, DataCells)
             worth == Worth(r, Sendmes, n)
             bn == b * n
             mn == m * n
             u == Used(cc, y, out, back)
             v == Used(cc, y, Joined(out, c), more)
  <2>1. u = o + d + bn /\ v = (o + one) + d + mn
    BY <1>3 DEF Used, o, b, m, n
  <2>2. /\ d \in Int /\ one \in Int /\ worth \in Int /\ bn = mn + worth /\ mn \in Int
        /\ o \in Int
    BY <1>1, <1>2, <1>3, <1>5
  <2>3. /\ cc => z.inflight = x.inflight + one - worth
        /\ ~cc => z.package_window = x.package_window - one + worth
    BY DEF Credits, n
  <2>4. (cc => x.inflight = u) /\ (~cc => x.package_window = circwindow - u)
    BY DEF Balanced
  <2> HIDE DEF d, one, worth, bn, mn, u, v
  <2>5. v = u + one - worth /\ u \in Int
    BY <2>1, <2>2
  <2>6. (cc => z.inflight = v) /\ (~cc => z.package_window = circwindow - v)
    BY <1>1, <2>2, <2>3, <2>4, <2>5
  <2> QED
    BY <2>6 DEF v
<1>7. ASSUME NEW s \in Streams
      PROVE  z.stream_package[s] =
               y.stream_deliver[s] - (IF cc THEN 0 ELSE Total(Joined(out, c), Kind("DATA", s)))
                 - Total(more, Kind("SENDME", s)) * STREAMWINDOW_INCREMENT
  <2> DEFINE k == STREAMWINDOW_INCREMENT
             os == Total(out, Kind("DATA", s))
             bs == Total(back, Kind("SENDME", s))
             ms == Total(more, Kind("SENDME", s))
             one == One(c, Kind("DATA", s))
             worth == Worth(r, Kind("SENDME", s), k)
  <2>1. Total(Joined(out, c), Kind("DATA", s)) = os + one /\ os \in Nat /\ one \in {0, 1}
    <3>1. one \in {0, 1}
      BY DEF One
    <3> QED
      BY <3>1, JoinedTotal, KindsAreCells
  <2>2. bs = ms + One(r, Kind("SENDME", s)) /\ ms \in Nat /\ bs \in Nat
    BY LeavesTotal, KindsAreCells
  <2>3. bs * k = ms * k + worth /\ ms * k \in Nat
    <3> HIDE DEF bs, ms
    <3> QED
      BY <1>1, <2>2, OneMore
  <2>4. worth \in Nat
    BY <1>1 DEF Worth
  <2>5. z.stream_package[s] = x.stream_package[s] - (IF cc THEN 0 ELSE one) + worth
    BY DEF Credits
  <2>6. x.stream_package[s] = y.stream_deliver[s] - (IF cc THEN 0 ELSE os) - bs * k
    BY DEF Balanced
  <2> HIDE DEF os, bs, ms, one, worth, k
  <2>7. z.stream_package[s] = y.stream_deliver[s] - (IF cc THEN 0 ELSE os + one) - ms * k
    BY <1>2, <2>1, <2>3, <2>4, <2>5, <2>6, SMTT(40)
  <2> QED
    BY <2>1, <2>7 DEF ms, k
<1> QED
  BY <1>6, <1>7 DEF Balanced

(* The receiver moves.                                                     *)
LEMMA ReceiverMoves ==
  ASSUME NEW cc \in BOOLEAN, NEW x, NEW y, NEW z, IsEdge(x), IsEdge(y), IsEdge(z),
         NEW out \in Seq(Cells), NEW back \in Seq(Cells), NEW more,
         NEW c \in Cells \cup {NoCell}, NEW r, Leaves(r, out, more),
         Credits(cc, y, z, c, r), Balanced(cc, x, y, out, back)
  PROVE  Balanced(cc, x, z, more, Joined(back, c))
<1> DEFINE o == Total(out, DataCells)
           m == Total(more, DataCells)
           b == Total(back, Sendmes)
           n == Inc(cc)
<1>1. n \in Nat /\ STREAMWINDOW_INCREMENT \in Nat /\ CIRCWINDOW_START \in Nat
      /\ circwindow \in Nat
  BY Constants
<1>2. /\ x.inflight \in Int /\ x.package_window \in Int /\ y.deliver_window \in Int
      /\ \A s \in Streams : x.stream_package[s] \in Int /\ y.stream_deliver[s] \in Int
  BY DEF IsEdge
<1>3. Total(Joined(back, c), Sendmes) = b + One(c, Sendmes) /\ b \in Nat
  BY JoinedTotal, KindsAreCells
<1>4. o = m + One(r, DataCells) /\ m \in Nat /\ One(r, DataCells) \in {0, 1}
  BY LeavesTotal, KindsAreCells DEF One
<1> HIDE DEF o, b, m, n
<1>5. (b + One(c, Sendmes)) * n = b * n + Worth(c, Sendmes, n) /\ b * n \in Nat
      /\ Worth(c, Sendmes, n) \in Nat
  <2>1. Worth(c, Sendmes, n) \in Nat
    BY <1>1 DEF Worth
  <2> QED
    BY <1>1, <1>3, <2>1, OneMore
<1>6. Used(cc, z, more, Joined(back, c)) = Used(cc, y, out, back)
  <2> DEFINE one == One(r, DataCells)
             worth == Worth(c, Sendmes, n)
             bn == b * n
             dn == (b + One(c, Sendmes)) * n
  <2>1. /\ Used(cc, y, out, back) = o + (CIRCWINDOW_START - y.deliver_window) + bn
        /\ Used(cc, z, more, Joined(back, c)) = m + (CIRCWINDOW_START - z.deliver_window) + dn
    BY <1>3 DEF Used, o, b, m, n
  <2>2. z.deliver_window = y.deliver_window - one + worth
    BY DEF Credits, n
  <2>3. /\ one \in Int /\ worth \in Int /\ bn \in Int /\ dn = bn + worth /\ o = m + one
        /\ m \in Int
    BY <1>4, <1>5
  <2> HIDE DEF one, worth, bn, dn
  <2> QED
    BY <1>1, <1>2, <2>1, <2>2, <2>3, SMTT(40)
<1>7. ASSUME NEW s \in Streams
      PROVE  x.stream_package[s] =
               z.stream_deliver[s] - (IF cc THEN 0 ELSE Total(more, Kind("DATA", s)))
                 - Total(Joined(back, c), Kind("SENDME", s)) * STREAMWINDOW_INCREMENT
  <2> DEFINE k == STREAMWINDOW_INCREMENT
             os == Total(out, Kind("DATA", s))
             ms == Total(more, Kind("DATA", s))
             bs == Total(back, Kind("SENDME", s))
             one == One(r, Kind("DATA", s))
             worth == Worth(c, Kind("SENDME", s), k)
  <2>1. Total(Joined(back, c), Kind("SENDME", s)) = bs + One(c, Kind("SENDME", s)) /\ bs \in Nat
    BY JoinedTotal, KindsAreCells
  <2>2. os = ms + one /\ ms \in Nat /\ one \in {0, 1}
    BY LeavesTotal, KindsAreCells DEF One
  <2>3. (bs + One(c, Kind("SENDME", s))) * k = bs * k + worth /\ bs * k \in Nat
    <3> HIDE DEF bs
    <3> QED
      BY <1>1, <2>1, OneMore
  <2>4. worth \in Nat
    BY <1>1 DEF Worth
  <2>5. z.stream_deliver[s] = y.stream_deliver[s] - (IF cc THEN 0 ELSE one) + worth
    BY DEF Credits
  <2>6. x.stream_package[s] = y.stream_deliver[s] - (IF cc THEN 0 ELSE os) - bs * k
    BY DEF Balanced
  <2> HIDE DEF os, bs, ms, one, worth, k
  <2>7. x.stream_package[s] = z.stream_deliver[s] - (IF cc THEN 0 ELSE ms)
                                - (bs * k + worth)
    BY <1>2, <2>2, <2>3, <2>4, <2>5, <2>6
  <2> QED
    BY <2>1, <2>3, <2>7 DEF ms, k
<1> QED
  BY <1>6, <1>7 DEF Balanced

LEMMA HeadCounts ==
  ASSUME NEW q \in Seq(Cells), q # << >>, NEW S \in SUBSET Cells, Head(q) \in S
  PROVE  Total(q, S) \in Nat /\ Total(q, S) >= 1
<1>1. /\ Total(q, S) = Total(Tail(q), S) + 1
      /\ Total(q, S) \in Nat /\ Total(Tail(q), S) \in Nat
  BY TotalTail
<1> QED
  BY <1>1

LEMMA TotalIsNat ==
  ASSUME NEW q \in Seq(Cells), NEW S
  PROVE  Total(q, S) \in Nat
<1>1. Len(q) \in Nat
  OBVIOUS
<1> QED
  BY <1>1, CountIsNat DEF Total

LEMMA AtLeastOnce ==
  ASSUME NEW a \in Nat, a >= 1, NEW n \in Nat
  PROVE  a * n \in Nat /\ a * n >= n
<1> DEFINE k == a - 1
<1>1. k \in Nat /\ a = k + 1
  OBVIOUS
<1> HIDE DEF k
<1>2. (k + 1) * n = k * n + n /\ k * n \in Nat
  BY <1>1
<1> QED
  BY <1>1, <1>2

(* A circuit SENDME on its way is for a whole increment in flight, and a   *)
(* DATA cell on its way is for a stream window that is open.               *)
LEMMA CellsAreCovered ==
  ASSUME NEW cc \in BOOLEAN, NEW e \in Ends, NEW x, NEW y,
         Sound(cc, e, x), Sound(cc, Peer(e), y),
         NEW out \in Seq(Cells), NEW back \in Seq(Cells), back # << >>,
         Balanced(cc, x, y, out, back), Balanced(cc, y, x, back, out)
  PROVE  Covered(cc, x, Head(back))
<1> DEFINE r == Head(back)
           n == Inc(cc)
<1>1. n \in Nat /\ CIRCWINDOW_START \in Nat /\ STREAMWINDOW_INCREMENT \in Nat
  BY Constants
<1>2. ASSUME r \in Sendmes, cc
      PROVE  x.inflight >= n
  <2> DEFINE o == Total(out, DataCells)
             d == CIRCWINDOW_START - y.deliver_window
             b == Total(back, Sendmes)
  <2>1. b * n \in Nat /\ b * n >= n
    <3>1. b \in Nat /\ b >= 1
      BY <1>2, HeadCounts, KindsAreCells
    <3> HIDE DEF b, n
    <3> QED
      BY <1>1, <3>1, AtLeastOnce
  <2>2. o \in Nat /\ d \in Nat
    <3>1. o \in Nat
      BY TotalIsNat
    <3>2. y.deliver_window \in 0..CIRCWINDOW_START
      BY DEF Sound, EdgeTypeOK
    <3> QED
      BY <1>1, <3>1, <3>2
  <2>3. x.inflight = o + d + b * n
    BY <1>2 DEF Balanced, Used
  <2> HIDE DEF o, d, b, n
  <2> DEFINE bn == b * n
  <2>4. bn \in Nat /\ bn >= n /\ x.inflight = o + d + bn
    BY <2>1, <2>3
  <2> HIDE DEF bn
  <2> QED
    BY <1>1, <2>2, <2>4
<1>3. ASSUME NEW s \in Streams, r \in Kind("DATA", s), ~cc
      PROVE  x.stream_deliver[s] > 0
  <2> DEFINE o == Total(back, Kind("DATA", s))
             b == Total(out, Kind("SENDME", s))
             bk == b * STREAMWINDOW_INCREMENT
  <2>1. o \in Nat /\ o >= 1
    BY <1>3, HeadCounts, KindsAreCells
  <2>2. b \in Nat
    BY TotalIsNat
  <2>3. /\ y.stream_package[s] \in Int /\ y.stream_package[s] >= 0
        /\ x.stream_deliver[s] \in Int
    BY DEF Sound, EdgeTypeOK
  <2>4. y.stream_package[s] = x.stream_deliver[s] - o - bk
    BY <1>3 DEF Balanced
  <2> HIDE DEF o, b
  <2>5. bk \in Nat
    BY <1>1, <2>2
  <2> HIDE DEF bk
  <2> QED
    BY <2>1, <2>3, <2>4, <2>5
<1> QED
  BY <1>2, <1>3 DEF Covered

-----------------------------------------------------------------------------
(* What any step of the circuit does.                                      *)

LEMMA PipeAppend ==
  ASSUME NEW w \in Seq(Cells), NEW q \in Seq(Cells), NEW c \in Cells
  PROVE  w \o Append(q, c) = Append(w \o q, c)
<1> DEFINE l == w \o Append(q, c)
           r == Append(w \o q, c)
<1>1. l \in Seq(Cells) /\ r \in Seq(Cells) /\ Len(l) = Len(r)
  OBVIOUS
<1>2. \A i \in 1..Len(l) : l[i] = r[i]
  OBVIOUS
<1> HIDE DEF l, r
<1>3. l = r
  BY <1>1, <1>2, SeqEqual
<1> QED
  BY <1>3 DEF l, r

LEMMA PipeFlush ==
  ASSUME NEW w \in Seq(Cells), NEW q \in Seq(Cells), q # << >>
  PROVE  /\ Append(w, Head(q)) \o Tail(q) = w \o q
         /\ Append(w, Head(q)) \in Seq(Cells)
<1> DEFINE l == Append(w, Head(q)) \o Tail(q)
           r == w \o q
<1>1. l \in Seq(Cells) /\ r \in Seq(Cells) /\ Len(l) = Len(r)
  OBVIOUS
<1>2. \A i \in 1..Len(l) : l[i] = r[i]
  OBVIOUS
<1> HIDE DEF l, r
<1>3. l = r
  BY <1>1, <1>2, SeqEqual
<1> QED
  BY <1>3 DEF l, r

LEMMA PipeReceive ==
  ASSUME NEW w \in Seq(Cells), NEW q \in Seq(Cells), w # << >>
  PROVE  /\ w \o q # << >> /\ Head(w \o q) = Head(w)
         /\ Tail(w \o q) = Tail(w) \o q /\ Tail(w) \in Seq(Cells)
<1> DEFINE l == Tail(w \o q)
           r == Tail(w) \o q
<1>1. w \o q # << >> /\ Head(w \o q) = Head(w) /\ Tail(w) \in Seq(Cells)
  OBVIOUS
<1>2. l \in Seq(Cells) /\ r \in Seq(Cells) /\ Len(l) = Len(r)
  OBVIOUS
<1>3. \A i \in 1..Len(l) : l[i] = r[i]
  OBVIOUS
<1> HIDE DEF l, r
<1>4. l = r
  BY <1>2, <1>3, SeqEqual
<1> QED
  BY <1>1, <1>4 DEF l, r

Types ==
  /\ ccontrol \in BOOLEAN /\ DOMAIN edge = Ends /\ wire \in [Ends -> Seq(Cells)]
  /\ others \in [Ends -> Nat]
  /\ \A e \in Ends : Sound(ccontrol, e, edge[e])

Credit ==
  Open => \A e \in Ends :
            Balanced(ccontrol, edge[e], edge[Peer(e)], Pipe(e), Pipe(Peer(e)))

(* Edge e takes a step: it receives r, or nothing, and sends c, or nothing, *)
(* or closes the circuit for a reason.                                     *)
Sends(e, c, r) ==
  /\ Pipe(e)' = Joined(Pipe(e), c)
  /\ Credits(ccontrol, edge[e], edge'[e], c, r)
  /\ Remembers(ccontrol, e, edge[e], edge'[e], c, r)
  /\ others'[e] = others[e] - One(c, Others)

Happens(e) ==
  /\ Open /\ ccontrol' = ccontrol
  /\ DOMAIN edge' = Ends /\ wire' \in [Ends -> Seq(Cells)] /\ others' \in [Ends -> Nat]
  /\ edge'[Peer(e)] = edge[Peer(e)] /\ others'[Peer(e)] = others[Peer(e)]
  /\ Sound(ccontrol, e, edge'[e])
  /\ \E r \in Cells \cup {NoCell} :
       /\ Leaves(r, Pipe(Peer(e)), Pipe(Peer(e))')
       /\ IF edge'[e].closed THEN Refuses(ccontrol, e, edge[e], r)
          ELSE \E c \in Cells \cup {NoCell} : Sends(e, c, r)

LEMMA Peers ==
  ASSUME NEW e \in Ends
  PROVE  Peer(e) \in Ends /\ Peer(e) # e /\ Peer(Peer(e)) = e /\ Ends = {e, Peer(e)}
BY DEF Ends, Peer

LEMMA PipeType ==
  ASSUME Types, NEW e \in Ends
  PROVE  /\ wire[e] \in Seq(Cells) /\ edge[e].queue \in Seq(Cells)
         /\ Pipe(e) \in Seq(Cells)
<1>1. wire[e] \in Seq(Cells) /\ edge[e].queue \in Seq(Cells)
  BY DEF Types, Sound, IsEdge
<1> QED
  BY <1>1, ConcatProperties DEF Pipe

(* Handlers that leave the wires alone.                                    *)
LEMMA HandlerHappens ==
  ASSUME Types, Open, NEW e \in Ends, NEW other \in BOOLEAN,
         NEW z, Outcome(ccontrol, e, edge[e], z, NoCell, other),
         Becomes(e, z), wire' = wire, ccontrol' = ccontrol,
         others' = IF other THEN [others EXCEPT ![e] = @ - 1] ELSE others,
         other => others[e] > 0
  PROVE  Happens(e)
<1> DEFINE f == Peer(e)
<1>1. f \in Ends /\ f # e
  BY Peers
<1>2. DOMAIN edge' = Ends /\ edge'[e] = z /\ edge'[f] = edge[f]
  BY <1>1 DEF Becomes, Types
<1>3. /\ others' \in [Ends -> Nat] /\ others'[f] = others[f]
      /\ others'[e] = others[e] - (IF other THEN 1 ELSE 0)
  BY <1>1 DEF Types
<1> HIDE DEF f
<1>4. Pipe(f)' = Pipe(f)
  BY <1>2 DEF Pipe
<1>5. Leaves(NoCell, Pipe(f), Pipe(f)')
  BY <1>4 DEF Leaves
<1>6. Sound(ccontrol, e, z) /\ wire' \in [Ends -> Seq(Cells)]
  BY DEF Outcome, Types
<1>7. IF z.closed THEN Refuses(ccontrol, e, edge[e], NoCell)
      ELSE \E c \in Cells \cup {NoCell} : Sends(e, c, NoCell)
  <2>1. CASE z.closed
    BY <2>1 DEF Outcome
  <2>2. CASE ~z.closed
    <3>1. PICK c \in Cells \cup {NoCell} :
            Moves(ccontrol, e, edge[e], z, c, NoCell) /\ (c \in Others <=> other)
      BY <2>2 DEF Outcome
    <3>2. Pipe(e)' = Joined(Pipe(e), c)
      <4>1. /\ Pipe(e)' = wire[e] \o z.queue /\ Pipe(e) = wire[e] \o edge[e].queue
            /\ z.queue = IF c = NoCell THEN edge[e].queue ELSE Append(edge[e].queue, c)
        BY <1>2, <3>1 DEF Pipe, Moves, Queued
      <4>2. wire[e] \in Seq(Cells) /\ edge[e].queue \in Seq(Cells)
        BY PipeType
      <4> QED
        BY <4>1, <4>2, PipeAppend DEF Joined
    <3>3. others'[e] = others[e] - One(c, Others)
      BY <1>3, <3>1 DEF One
    <3>4. Sends(e, c, NoCell)
      BY <1>2, <3>1, <3>2, <3>3 DEF Sends, Moves
    <3> QED
      BY <2>2, <3>4
  <2> QED
    BY <2>1, <2>2
<1> QED
  BY <1>2, <1>3, <1>5, <1>6, <1>7 DEF Happens, f

(* The channel takes a cell: the pipe stays what it is.                    *)
LEMMA FlushHappens ==
  ASSUME Types, NEW e \in Ends, channel_flush_from_first_active_circuit(e)
  PROVE  Happens(e)
<1> DEFINE f == Peer(e)
           x == edge[e]
           z == flushed(x)
<1>1. f \in Ends /\ f # e
  BY Peers
<1>2. /\ Ready /\ x.queue # << >> /\ Becomes(e, z) /\ ccontrol' = ccontrol
      /\ others' = others /\ wire' = [wire EXCEPT ![e] = Append(@, Head(x.queue))]
  BY DEF channel_flush_from_first_active_circuit
<1>3. DOMAIN edge' = Ends /\ edge'[e] = z /\ edge'[f] = edge[f]
  BY <1>1, <1>2 DEF Becomes, Types
<1>4. wire[e] \in Seq(Cells) /\ x.queue \in Seq(Cells)
  BY PipeType
<1>5. Sound(ccontrol, e, x) /\ ccontrol \in BOOLEAN
  BY DEF Types
<1>6. /\ Sound(ccontrol, e, z) /\ z.queue = Tail(x.queue)
      /\ Same(x, z, {"queue", "blocked", "reading"})
  BY <1>2, <1>5, Flushed
<1> HIDE DEF z, f
<1>7. /\ wire' \in [Ends -> Seq(Cells)] /\ wire'[f] = wire[f]
      /\ wire'[e] = Append(wire[e], Head(x.queue))
  <2>1. Append(wire[e], Head(x.queue)) \in Seq(Cells)
    BY <1>2, <1>4, PipeFlush
  <2> QED
    BY <1>1, <1>2, <2>1 DEF Types
<1>8. Pipe(e)' = Pipe(e) /\ Pipe(f)' = Pipe(f)
  BY <1>2, <1>3, <1>4, <1>6, <1>7, PipeFlush DEF Pipe
<1>9. /\ SameWindows(x, z) /\ z.last_digests = x.last_digests /\ z.closed = x.closed
      /\ z.sent = x.sent /\ z.received = x.received
  BY <1>6 DEF Same, Fields, SameWindows
<1>10. Credits(ccontrol, x, z, NoCell, NoCell) /\ Remembers(ccontrol, e, x, z, NoCell, NoCell)
  BY <1>5, <1>9, QuietMoves DEF Sound
<1>11. ~z.closed /\ Open
  BY <1>2, <1>9 DEF Ready, Open
<1>12. Sends(e, NoCell, NoCell)
  <2>1. others'[e] = others[e] - One(NoCell, Others)
    BY <1>2, OthersApart DEF One, Types
  <2> QED
    BY <1>3, <1>8, <1>10, <2>1 DEF Sends, Joined
<1>13. Leaves(NoCell, Pipe(f), Pipe(f)')
  BY <1>8 DEF Leaves
<1>14. others' \in [Ends -> Nat] /\ others'[f] = others[f]
  BY <1>2 DEF Types
<1> QED
  BY <1>2, <1>3, <1>6, <1>7, <1>11, <1>12, <1>13, <1>14 DEF Happens, f

(* A relay cell arrives.                                                   *)
LEMMA ReceiveHappens ==
  ASSUME Types, Credit, NEW e \in Ends, circuit_receive_relay_cell(e)
  PROVE  Happens(e)
<1> DEFINE f == Peer(e)
           x == edge[e]
           r == Head(wire[f])
<1>1. f \in Ends /\ f # e /\ Peer(f) = e
  BY Peers
<1>2. /\ Ready /\ wire[f] # << >> /\ wire' = [wire EXCEPT ![f] = Tail(@)]
      /\ ccontrol' = ccontrol /\ others' = others
  BY DEF circuit_receive_relay_cell
<1>3. PICK w \in Cwnds : Becomes(e, handle_relay_cell_command(e, x, r, w))
  BY DEF circuit_receive_relay_cell
<1> DEFINE z == handle_relay_cell_command(e, x, r, w)
<1>4. DOMAIN edge' = Ends /\ edge'[e] = z /\ edge'[f] = edge[f]
  BY <1>1, <1>3 DEF Becomes, Types
<1>5. /\ wire[f] \in Seq(Cells) /\ edge[f].queue \in Seq(Cells)
      /\ wire[e] \in Seq(Cells) /\ x.queue \in Seq(Cells)
      /\ Pipe(e) \in Seq(Cells) /\ Pipe(f) \in Seq(Cells)
  BY <1>1, PipeType
<1>6. /\ wire' \in [Ends -> Seq(Cells)] /\ wire'[f] = Tail(wire[f]) /\ wire'[e] = wire[e]
  <2>1. Tail(wire[f]) \in Seq(Cells)
    BY <1>2, <1>5
  <2> QED
    BY <1>1, <1>2, <2>1 DEF Types
<1>7. /\ Pipe(f) # << >> /\ r = Head(Pipe(f)) /\ Pipe(f)' = Tail(Pipe(f)) /\ r \in Cells
  <2>1. r \in Cells
    BY <1>2, <1>5
  <2> QED
    <3>1. /\ wire[f] \o edge[f].queue # << >> /\ Head(wire[f] \o edge[f].queue) = r
          /\ Tail(wire[f] \o edge[f].queue) = Tail(wire[f]) \o edge[f].queue
      BY <1>2, <1>5, PipeReceive
    <3>2. Pipe(f) = wire[f] \o edge[f].queue /\ Pipe(f)' = Tail(wire[f]) \o edge[f].queue
      BY <1>4, <1>6 DEF Pipe
    <3> QED
      BY <2>1, <3>1, <3>2
<1>8. Leaves(r, Pipe(f), Pipe(f)')
  BY <1>7, NoCellIsNone DEF Leaves
<1>9. Open /\ ~x.closed /\ x.task.op # "sendme"
  BY <1>2 DEF Ready, Open, Idle
<1>10. Sound(ccontrol, e, x) /\ Sound(ccontrol, f, edge[f]) /\ ccontrol \in BOOLEAN
  BY <1>1 DEF Types
<1> HIDE DEF f, z, r
<1>11. /\ Balanced(ccontrol, x, edge[f], Pipe(e), Pipe(f))
       /\ Balanced(ccontrol, edge[f], x, Pipe(f), Pipe(e))
  BY <1>1, <1>9 DEF Credit, f
<1>12. Covered(ccontrol, x, r)
  BY <1>5, <1>7, <1>10, <1>11, CellsAreCovered DEF f
<1>13. Outcome(ccontrol, e, x, z, r, FALSE)
  BY <1>7, <1>9, <1>10, <1>12, ReceiveOutcome DEF z
<1>14. IF z.closed THEN Refuses(ccontrol, e, x, r)
       ELSE \E c \in Cells \cup {NoCell} : Sends(e, c, r)
  <2>1. CASE z.closed
    BY <1>13, <2>1 DEF Outcome
  <2>2. CASE ~z.closed
    <3>1. PICK c \in Cells \cup {NoCell} :
            Moves(ccontrol, e, x, z, c, r) /\ c \notin Others
      BY <1>13, <2>2 DEF Outcome
    <3>2. Pipe(e)' = Joined(Pipe(e), c)
      <4>1. /\ Pipe(e)' = wire[e] \o z.queue /\ Pipe(e) = wire[e] \o x.queue
            /\ z.queue = IF c = NoCell THEN x.queue ELSE Append(x.queue, c)
        BY <1>4, <1>6, <3>1 DEF Pipe, Moves, Queued
      <4>2. \A d \in Cells : wire[e] \o Append(x.queue, d) = Append(wire[e] \o x.queue, d)
        BY <1>5, PipeAppend
      <4> QED
        BY <4>1, <4>2 DEF Joined
    <3>3. others'[e] = others[e] - One(c, Others)
      BY <1>2, <3>1 DEF One, Types
    <3>4. Sends(e, c, r)
      BY <1>4, <3>1, <3>2, <3>3 DEF Sends, Moves
    <3> QED
      BY <2>2, <3>4
  <2> QED
    BY <2>1, <2>2
<1>15. Sound(ccontrol, e, z)
  BY <1>13 DEF Outcome
<1>16. others' \in [Ends -> Nat] /\ others'[f] = others[f]
  BY <1>2 DEF Types
<1> QED
  BY <1>2, <1>4, <1>6, <1>7, <1>8, <1>9, <1>14, <1>15, <1>16 DEF Happens, f

LEMMA EveryStep ==
  ASSUME Types, Credit, Next
  PROVE  \E e \in Ends : Happens(e)
<1>1. PICK e \in Ends : EdgeStep(e)
  BY DEF Next
<1> DEFINE x == edge[e]
<1>2. Sound(ccontrol, e, x) /\ ccontrol \in BOOLEAN /\ IsEdge(x)
  BY DEF Types, Sound
<1>3. ASSUME NEW z, Open, Becomes(e, z), UNCHANGED <<wire, others, ccontrol>>,
             ~x.closed => Outcome(ccontrol, e, x, z, NoCell, FALSE)
      PROVE  Happens(e)
  <2>1. ~x.closed
    BY <1>3 DEF Open
  <2> QED
    BY <1>3, <2>1, HandlerHappens
<1>4. Open => ~x.closed
  BY DEF Open
<1> HIDE DEF x
<1>5. Ready => Open /\ x.task.op # "sendme"
  BY DEF Ready, Idle, x
<1>6. CASE connection_edge_package_raw_inbuf(e)
  <2> DEFINE z == package_one_cell(e, [x EXCEPT !.task.n = @ - 1], x.task.s)
  <2>1. /\ Open /\ x.task.op # "sendme" /\ x.task.s \in Streams /\ can_package(x, x.task.s)
        /\ Becomes(e, z) /\ UNCHANGED <<wire, others, ccontrol>>
    BY <1>6 DEF connection_edge_package_raw_inbuf, Packaging, x
  <2> HIDE DEF z
  <2>2. ~x.closed => Outcome(ccontrol, e, x, z, NoCell, FALSE)
    BY <1>2, <2>1, PackageOutcome DEF z
  <2> QED
    BY <1>3, <2>1, <2>2
<1>7. CASE package_loop_returns(e)
  <2> DEFINE y == package_loop_ends(x, x.task.s)
             z == [y EXCEPT !.task = Idle]
  <2>1. /\ Open /\ x.task.s \in Streams /\ Becomes(e, z) /\ UNCHANGED <<wire, others, ccontrol>>
    BY <1>7 DEF package_loop_returns, Packaging, x
  <2>2. "op" \in DOMAIN Idle /\ Idle.op # "sendme"
    BY DEF Idle
  <2> HIDE DEF y
  <2>3. ~x.closed => Outcome(ccontrol, e, x, z, NoCell, FALSE)
    BY <1>2, <2>1, <2>2, LoopEndsOutcome DEF y
  <2> HIDE DEF z
  <2> QED
    BY <1>3, <2>1, <2>3
<1>8. CASE resume_next_stream(e)
  <2>1. PICK s \in x.task.todo :
          Becomes(e,
            IF x.stream_package[s] <= 0
            THEN [x EXCEPT !.task.todo = @ \ {s}]
            ELSE [x EXCEPT !.task.todo = @ \ {s}, !.task.s = s, !.task.n = x.task.quota])
    BY <1>8 DEF resume_next_stream, x
  <2>2. Open /\ x.task.op # "sendme" /\ UNCHANGED <<wire, others, ccontrol>>
    <3>1. /\ Open /\ x.task.s = "circuit" /\ UNCHANGED <<wire, others, ccontrol>>
      BY <1>8 DEF resume_next_stream, x
    <3> QED
      BY <1>2, <3>1, CellTypes DEF Sound, Owing
  <2> DEFINE t == IF x.stream_package[s] <= 0
                  THEN [x.task EXCEPT !.todo = @ \ {s}]
                  ELSE [x.task EXCEPT !.todo = @ \ {s}, !.s = s, !.n = x.task.quota]
             z == [x EXCEPT !.task = t]
  <2>3. "op" \in DOMAIN t /\ t.op = x.task.op
    BY <1>2 DEF IsEdge
  <2>4. Becomes(e, z)
    <3>1. CASE x.stream_package[s] <= 0
      BY <1>2, <2>1, <3>1 DEF IsEdge, Fields
    <3>2. CASE ~(x.stream_package[s] <= 0)
      BY <1>2, <2>1, <3>2 DEF IsEdge, Fields
    <3> QED
      BY <3>1, <3>2
  <2> HIDE DEF t
  <2>5. ~x.closed => Outcome(ccontrol, e, x, z, NoCell, FALSE)
    BY <1>2, <2>2, <2>3, TaskOutcome
  <2> HIDE DEF z
  <2> QED
    BY <1>3, <2>2, <2>4, <2>5
<1>9. CASE resume_stream_returns(e)
  <2> DEFINE s == x.task.s
             y == circuit_consider_stop_edge_reading(package_loop_ends(x, s))
             packaged == x.task.packaged + (x.task.quota - x.task.n)
             left == IF x.inbuf[s] > 0 THEN x.task.left + 1 ELSE x.task.left
             t == IF circuit_is_full(x) THEN Idle
                  ELSE [y.task EXCEPT !.s = "circuit", !.packaged = packaged, !.left = left]
             z == [y EXCEPT !.task = t]
  <2>1. /\ Open /\ s \in Streams /\ x.task.op # "sendme" /\ UNCHANGED <<wire, others, ccontrol>>
        /\ Becomes(e,
             IF circuit_is_full(x) THEN [y EXCEPT !.task = Idle]
             ELSE [y EXCEPT !.task.s = "circuit", !.task.packaged = packaged,
                            !.task.left = left])
    BY <1>9 DEF resume_stream_returns, Packaging, x
  <2> HIDE DEF s
  <2>2. DOMAIN y = Fields /\ \A f \in Fields \ {"reading"} : y[f] = x[f]
    BY <1>2, <2>1, LoopEnds
  <2> HIDE DEF y, packaged, left
  <2>3. "op" \in DOMAIN y.task /\ y.task.op # "sendme"
    BY <1>2, <2>1, <2>2 DEF IsEdge, Fields
  <2>4. "op" \in DOMAIN t /\ t.op # "sendme"
    BY <2>3 DEF Idle
  <2>5. Becomes(e, z)
    <3>1. CASE circuit_is_full(x)
      BY <2>1, <3>1
    <3>2. CASE ~circuit_is_full(x)
      BY <2>1, <2>2, <3>2 DEF Fields
    <3> QED
      BY <3>1, <3>2
  <2> HIDE DEF t
  <2>6. ~x.closed => Outcome(ccontrol, e, x, z, NoCell, FALSE)
    BY <1>2, <2>1, <2>4, LoopEndsOutcome DEF y
  <2> HIDE DEF z
  <2> QED
    BY <1>3, <2>1, <2>5, <2>6
<1>10. CASE resume_round_ends(e)
  <2> DEFINE u == x.task
             t == IF u.packaged > 0 /\ u.packaged < u.max /\ u.left > 0
                  THEN ResumeTask(u.max - u.packaged, u.left) ELSE Idle
             z == [x EXCEPT !.task = t]
  <2>1. Open /\ Becomes(e, z) /\ UNCHANGED <<wire, others, ccontrol>>
    BY <1>10 DEF resume_round_ends, x
  <2>2. "op" \in DOMAIN t /\ t.op # "sendme"
    BY DEF ResumeTask, Idle
  <2> HIDE DEF t
  <2>3. ~x.closed => Outcome(ccontrol, e, x, z, NoCell, FALSE)
    BY <1>2, <2>2, TaskOutcome
  <2> HIDE DEF z
  <2> QED
    BY <1>3, <2>1, <2>3
<1>11. CASE stream_sendme_loop(e)
  <2> DEFINE z == sendme_connection_edge_consider_sending(
                    send_stream_sendme(e, [x EXCEPT !.task = Idle], x.task.s), x.task.s)
  <2>1. Open /\ x.task.op = "sendme" /\ Becomes(e, z) /\ UNCHANGED <<wire, others, ccontrol>>
    BY <1>11 DEF stream_sendme_loop, x
  <2> HIDE DEF z
  <2>2. ~x.closed => Outcome(ccontrol, e, x, z, NoCell, FALSE)
    BY <1>2, <2>1, StreamSendmeOutcome DEF z
  <2> QED
    BY <1>3, <2>1, <2>2
<1>12. CASE send_other_cell(e)
  <2> DEFINE z == relay_send_command_from_edge(e, x, Other)
  <2>1. /\ Ready /\ others[e] > 0 /\ others' = [others EXCEPT ![e] = @ - 1]
        /\ Becomes(e, z) /\ wire' = wire /\ ccontrol' = ccontrol
    BY <1>12 DEF send_other_cell, x
  <2> HIDE DEF z
  <2>2. Outcome(ccontrol, e, x, z, NoCell, TRUE)
    BY <1>2, <1>4, <1>5, <2>1, OtherOutcome DEF z
  <2> QED
    BY <1>5, <2>1, <2>2, HandlerHappens DEF x
<1>13. CASE channel_flush_from_first_active_circuit(e)
  BY <1>13, FlushHappens
<1>14. CASE circuit_receive_relay_cell(e)
  BY <1>14, ReceiveHappens
<1>15. ASSUME NEW s \in Streams, connection_edge_process_inbuf(e, s)
       PROVE  Happens(e)
  <2>1. PICK k \in 1..MinOf(ReadSize, socket[e][s]) :
          Becomes(e, [[x EXCEPT !.inbuf[s] = @ + k]
                        EXCEPT !.task = PackageTask([x EXCEPT !.inbuf[s] = @ + k], s)])
    BY <1>15 DEF connection_edge_process_inbuf, x
  <2> DEFINE y == [x EXCEPT !.inbuf[s] = @ + k]
             z == [y EXCEPT !.task = PackageTask(y, s)]
  <2>2. Open /\ UNCHANGED <<wire, others, ccontrol>> /\ k \in Nat
    BY <1>5, <1>15 DEF connection_edge_process_inbuf
  <2> HIDE DEF y
  <2>3. ~x.closed => Outcome(ccontrol, e, x, z, NoCell, FALSE)
    BY <1>2, <2>2, ReadOutcome DEF y
  <2>4. Becomes(e, z)
    BY <2>1 DEF y
  <2> HIDE DEF z
  <2> QED
    BY <1>3, <2>2, <2>3, <2>4
<1>16. ASSUME NEW s \in Streams, connection_edge_flushed_some(e, s)
       PROVE  Happens(e)
  <2>1. PICK k \in 1..x.outbuf[s] :
          Becomes(e, sendme_connection_edge_consider_sending(
                       [x EXCEPT !.outbuf[s] = @ - k], s))
    BY <1>16 DEF connection_edge_flushed_some, x
  <2> DEFINE z == sendme_connection_edge_consider_sending([x EXCEPT !.outbuf[s] = @ - k], s)
  <2>2. Open /\ x.task.op # "sendme" /\ UNCHANGED <<wire, others, ccontrol>>
    BY <1>5, <1>16 DEF connection_edge_flushed_some
  <2> HIDE DEF z
  <2>3. ~x.closed => Outcome(ccontrol, e, x, z, NoCell, FALSE)
    BY <1>2, <2>2, DrainOutcome DEF z
  <2> QED
    BY <1>3, <2>1, <2>2, <2>3 DEF z
<1> QED
  BY <1>1, <1>6, <1>7, <1>8, <1>9, <1>10, <1>11, <1>12, <1>13, <1>14, <1>15, <1>16 DEF EdgeStep

-----------------------------------------------------------------------------
(* Windows, credit and reading: for any constants.                         *)

LEMMA NewEdgeIsSound ==
  ASSUME NEW e \in Ends, NEW w \in Cwnds, NEW cc \in BOOLEAN
  PROVE  Sound(cc, e, NewEdge(e, w))
<1> DEFINE x == NewEdge(e, w)
           full == [s \in Streams |-> STREAMWINDOW_START]
           none == [s \in Streams |-> 0]
           all == [s \in Streams |-> TRUE]
<1>1. /\ DOMAIN x = Fields /\ x.package_window = circwindow
      /\ x.deliver_window = CIRCWINDOW_START /\ x.inflight = 0 /\ x.cwnd = w
      /\ x.stream_package = full /\ x.stream_deliver = full
      /\ x.last_digests = << >> /\ x.sendme_digest = <<e, 0>> /\ x.sent = 0
      /\ x.received = 0 /\ x.queue = << >> /\ x.blocked = FALSE /\ x.inbuf = none
      /\ x.reading = all /\ x.outbuf = none /\ x.task = Idle /\ x.closed = FALSE
  BY DEF NewEdge, Fields
<1>2. /\ full \in [Streams -> 0..STREAMWINDOW_START] /\ full \in [Streams -> Int]
      /\ none \in [Streams -> Nat] /\ all \in [Streams -> BOOLEAN]
      /\ \A s \in Streams : all[s]
  BY Constants
<1>3. /\ "op" \in DOMAIN Idle /\ Idle.op # "sendme" /\ <<e, 0>> \in Digests
      /\ << >> \in Seq(Digests) /\ << >> \in Seq(Cells)
  BY DEF Idle, Digests
<1>4. x.blocked \in BOOLEAN /\ x.closed \in BOOLEAN
  BY DEF NewEdge
<1>5. /\ circwindow \in 0..CIRCWINDOW_START /\ CIRCWINDOW_START \in 0..CIRCWINDOW_START
      /\ circwindow \in Int /\ CIRCWINDOW_START \in Int
  BY Constants
<1> HIDE DEF x, full, none, all
<1>6. IsEdge(x)
  BY <1>1, <1>2, <1>3, <1>4, <1>5 DEF IsEdge
<1>7. EdgeTypeOK(e, x)
  BY <1>1, <1>2, <1>4, <1>5 DEF EdgeTypeOK
<1>8. Awake(cc, x) /\ Owing(cc, x)
  BY <1>1, <1>2, <1>3 DEF Awake, Owing
<1>9. x.deliver_window > CIRCWINDOW_START - Inc(cc)
  BY <1>1, Constants
<1> QED
  BY <1>6, <1>7, <1>8, <1>9 DEF Sound, x

LEMMA InitTypes ==
  ASSUME Init
  PROVE  Types
<1>1. PICK w \in Cwnds : edge = [e \in Ends |-> NewEdge(e, w)]
  BY DEF Init
<1>2. ccontrol \in BOOLEAN /\ others \in [Ends -> Nat]
  BY SendmeAssumption DEF Init
<1>3. wire \in [Ends -> Seq(Cells)]
  <2>1. << >> \in Seq(Cells)
    OBVIOUS
  <2> QED
    BY <2>1 DEF Init
<1>4. \A e \in Ends : Sound(ccontrol, e, edge[e])
  BY <1>1, <1>2, NewEdgeIsSound
<1> QED
  BY <1>1, <1>2, <1>3, <1>4 DEF Types

LEMMA InitPipes ==
  ASSUME Init, NEW e \in Ends
  PROVE  Pipe(e) = << >> /\ \A S : Total(Pipe(e), S) = 0
<1>1. PICK w \in Cwnds : edge = [f \in Ends |-> NewEdge(f, w)]
  BY DEF Init
<1>2. edge[e].queue = << >> /\ wire[e] = << >>
  BY <1>1 DEF Init, NewEdge
<1>3. Pipe(e) = << >>
  BY <1>2 DEF Pipe
<1> QED
  BY <1>3, CountNone DEF Total

LEMMA InitCredit ==
  ASSUME Init
  PROVE  Credit
<1> SUFFICES ASSUME NEW e \in Ends
             PROVE  Balanced(ccontrol, edge[e], edge[Peer(e)], Pipe(e), Pipe(Peer(e)))
  BY DEF Credit
<1>1. PICK w \in Cwnds : edge = [f \in Ends |-> NewEdge(f, w)]
  BY DEF Init
<1> DEFINE x == edge[e]
           y == edge[Peer(e)]
<1>2. /\ x.inflight = 0 /\ x.package_window = circwindow
      /\ x.stream_package = [s \in Streams |-> STREAMWINDOW_START]
      /\ y.deliver_window = CIRCWINDOW_START
      /\ y.stream_deliver = [s \in Streams |-> STREAMWINDOW_START]
  BY <1>1, Peers DEF NewEdge
<1>3. \A S : Total(Pipe(e), S) = 0 /\ Total(Pipe(Peer(e)), S) = 0
  BY Peers, InitPipes
<1>4. Inc(ccontrol) \in Nat /\ STREAMWINDOW_INCREMENT \in Nat
      /\ STREAMWINDOW_START \in Nat /\ CIRCWINDOW_START \in Nat /\ circwindow \in Nat
  BY InitTypes, Constants DEF Types
<1> HIDE DEF x, y
<1>5. Used(ccontrol, y, Pipe(e), Pipe(Peer(e))) = 0
  BY <1>2, <1>3, <1>4 DEF Used
<1> QED
  BY <1>2, <1>3, <1>4, <1>5 DEF Balanced, x, y

(* While both edges are open, a step keeps the books of both directions.   *)
LEMMA StepKeepsCredit ==
  ASSUME Types, Credit, NEW e \in Ends, Happens(e)
  PROVE  Types' /\ Credit'
<1> DEFINE f == Peer(e)
           x == edge[e]
           y == edge[f]
           z == edge'[e]
<1>1. f \in Ends /\ f # e /\ Peer(f) = e /\ Ends = {e, f}
  BY Peers
<1>2. /\ Open /\ ccontrol' = ccontrol /\ DOMAIN edge' = Ends
      /\ wire' \in [Ends -> Seq(Cells)] /\ others' \in [Ends -> Nat]
      /\ edge'[f] = y /\ Sound(ccontrol, e, z)
  BY DEF Happens
<1>3. Sound(ccontrol, e, x) /\ Sound(ccontrol, f, y) /\ ccontrol \in BOOLEAN
  BY <1>1 DEF Types
<1>4. Types'
  BY <1>1, <1>2, <1>3 DEF Types
<1>5. ASSUME Open' PROVE \A g \in Ends : Balanced(ccontrol, edge[g], edge[Peer(g)], Pipe(g), Pipe(Peer(g)))'
  <2>1. PICK r \in Cells \cup {NoCell} :
          /\ Leaves(r, Pipe(f), Pipe(f)')
          /\ IF z.closed THEN Refuses(ccontrol, e, x, r)
             ELSE \E c \in Cells \cup {NoCell} : Sends(e, c, r)
    BY DEF Happens
  <2>2. ~z.closed
    BY <1>5 DEF Open
  <2>3. PICK c \in Cells \cup {NoCell} : Sends(e, c, r)
    BY <2>1, <2>2
  <2>4. Pipe(e)' = Joined(Pipe(e), c) /\ Credits(ccontrol, x, z, c, r)
    BY <2>3 DEF Sends
  <2>5. Pipe(e) \in Seq(Cells) /\ Pipe(f) \in Seq(Cells)
    BY <1>1, PipeType
  <2>6. /\ Balanced(ccontrol, x, y, Pipe(e), Pipe(f))
        /\ Balanced(ccontrol, y, x, Pipe(f), Pipe(e))
    BY <1>1, <1>2 DEF Credit
  <2>7. IsEdge(x) /\ IsEdge(y) /\ IsEdge(z)
    BY <1>2, <1>3 DEF Sound
  <2> HIDE DEF x, y, z, f
  <2>8. Balanced(ccontrol, z, y, Pipe(e)', Pipe(f)')
    BY <1>3, <2>1, <2>4, <2>5, <2>6, <2>7, SenderMoves
  <2>9. Balanced(ccontrol, y, z, Pipe(f)', Pipe(e)')
    BY <1>3, <2>1, <2>4, <2>5, <2>6, <2>7, ReceiverMoves
  <2> QED
    BY <1>1, <1>2, <2>8, <2>9 DEF x, y, z, f
<1> QED
  BY <1>4, <1>5 DEF Credit

LEMMA StepsKeepCredit ==
  ASSUME Types, Credit, [Next]_vars
  PROVE  Types' /\ Credit'
<1>1. CASE Next
  BY <1>1, EveryStep, StepKeepsCredit
<1>2. CASE UNCHANGED vars
  BY <1>2 DEF vars, Types, Credit, Open, Pipe
<1> QED
  BY <1>1, <1>2

(* The inductive invariant: every edge is sound, and every direction has    *)
(* its books balanced.                                                     *)
THEOREM CreditHolds == Spec => [](Types /\ Credit)
<1>1. Init => Types /\ Credit
  BY InitTypes, InitCredit
<1>2. (Types /\ Credit) /\ [Next]_vars => (Types /\ Credit)'
  BY StepsKeepCredit
<1> QED
  BY <1>1, <1>2, PTL DEF Spec

(* For any windows and increments, and whatever the two edges do, no       *)
(* handler of sendme.c leaves a window negative or overfull, and the       *)
(* unsigned cc->inflight is never taken below zero.                        *)
THEOREM WindowsStayInRange == Spec => []WindowsInRange
<1>1. Types => WindowsInRange
  BY DEF Types, Sound, WindowsInRange
<1> QED
  BY <1>1, CreditHolds, PTL

(* For any water marks and any number of streams, a stream whose windows   *)
(* are open and whose queue is not blocked is being read from: no stop of  *)
(* reading in relay.c outlives its reason.                                 *)
THEOREM StreamsAreAwake == Spec => []NoStreamSleeps
<1>1. Types => NoStreamSleeps
  <2> SUFFICES ASSUME Types, NEW e \in Ends, NEW s \in Streams,
                      ~edge[e].blocked, ~circuit_is_full(edge[e]),
                      edge[e].stream_package[s] > 0
               PROVE  edge[e].reading[s]
    BY DEF NoStreamSleeps
  <2> DEFINE x == edge[e]
  <2>1. Sound(ccontrol, e, x)
    BY DEF Types
  <2>2. x.inflight \in Int /\ x.cwnd \in Cwnds /\ x.package_window \in Int
    BY <2>1 DEF Sound, IsEdge
  <2>3. ~Full(ccontrol, x)
    BY <2>2, FullIsFull
  <2> QED
    BY <2>1, <2>3 DEF Sound, Awake
<1> QED
  BY <1>1, CreditHolds, PTL

(* For any windows and increments, no cell is lost or counted twice: the   *)
(* credit an edge holds, the DATA on its way, what the peer has not        *)
(* acknowledged and the SENDMEs on their way back add up to the initial    *)
(* window (sendme_note_circuit_data_packaged and its counterparts).        *)
THEOREM CreditConserved == Spec => []CreditIsConserved
<1>1. Types /\ Credit => CreditIsConserved
  <2> SUFFICES ASSUME Types, Credit, Open, NEW e \in Ends
               PROVE  LET x    == edge[e]
                          y    == edge[Peer(e)]
                          back == Pipe(Peer(e))
                          used == DataIn(Pipe(e)) + CIRCWINDOW_START - y.deliver_window
                                  + SendmesIn(back) * sendme_get_inc_count
                      IN  /\ IF ccontrol THEN x.inflight = used
                                         ELSE x.package_window = circwindow - used
                          /\ \A s \in Streams :
                               x.stream_package[s] =
                                 y.stream_deliver[s]
                                 - (IF ccontrol THEN 0 ELSE CellsIn(Pipe(e), "DATA", s))
                                 - CellsIn(back, "SENDME", s) * STREAMWINDOW_INCREMENT
                          /\ x.deliver_window > CIRCWINDOW_START - sendme_get_inc_count
    BY DEF CreditIsConserved
  <2> DEFINE x == edge[e]
             y == edge[Peer(e)]
             out == Pipe(e)
             back == Pipe(Peer(e))
             n == sendme_get_inc_count
             used == DataIn(out) + CIRCWINDOW_START - y.deliver_window + SendmesIn(back) * n
  <2>1. Balanced(ccontrol, x, y, out, back)
    BY DEF Credit
  <2>2. out \in Seq(Cells) /\ back \in Seq(Cells)
    BY Peers, PipeType
  <2>3. n = Inc(ccontrol) /\ x.deliver_window > CIRCWINDOW_START - n
    BY DEF sendme_get_inc_count, Inc, Types, Sound
  <2>4. y.deliver_window \in Int /\ CIRCWINDOW_START \in Nat /\ n \in Nat
    BY <2>3, Peers, Constants DEF Types, Sound, IsEdge
  <2> HIDE DEF x, y, out, back, n
  <2>5. /\ DataIn(out) = Total(out, DataCells) /\ SendmesIn(back) = Total(back, Sendmes)
        /\ \A s \in Streams : CellsIn(out, "DATA", s) = Total(out, Kind("DATA", s))
        /\ \A s \in Streams : CellsIn(back, "SENDME", s) = Total(back, Kind("SENDME", s))
    BY <2>2, CellsInIsTotal
  <2>6. Total(out, DataCells) \in Nat /\ Total(back, Sendmes) \in Nat
    BY <2>2, TotalIsNat
  <2>7. Used(ccontrol, y, out, back) = used
    <3> DEFINE p == Total(back, Sendmes) * n
               o == Total(out, DataCells)
    <3>1. p \in Nat /\ o \in Nat
      BY <2>4, <2>6
    <3>2. /\ Used(ccontrol, y, out, back) = o + (CIRCWINDOW_START - y.deliver_window) + p
          /\ used = o + CIRCWINDOW_START - y.deliver_window + p
      BY <2>3, <2>5 DEF Used
    <3> HIDE DEF p, o, used
    <3> QED
      BY <2>4, <3>1, <3>2
  <2> HIDE DEF used
  <2>8. /\ IF ccontrol THEN x.inflight = used ELSE x.package_window = circwindow - used
        /\ \A s \in Streams :
             x.stream_package[s] =
               y.stream_deliver[s] - (IF ccontrol THEN 0 ELSE CellsIn(out, "DATA", s))
               - CellsIn(back, "SENDME", s) * STREAMWINDOW_INCREMENT
    BY <2>1, <2>5, <2>7 DEF Balanced
  <2> QED
    BY <2>3, <2>8 DEF x, y, out, back, n, used
<1> QED
  BY <1>1, CreditHolds, PTL

-----------------------------------------------------------------------------
(* Digests, in one direction: ld is what the sender remembers, K the       *)
(* SENDMEs on their way back to it, u the DATA cells its peer has not      *)
(* acknowledged, R the relay cells its peer received, n the increment.     *)

Recorded(e, ld, K, u, n, R, out) ==
  /\ Len(ld) = K + ((u + Total(out, DataCells)) \div n)
  /\ \A i \in 1..Len(out) :
       (out[i] \in DataCells /\ (u + Count(out, i, DataCells)) % n = 0)
         => ld[K + ((u + Count(out, i, DataCells)) \div n)] = <<e, R + i>>

(* The SENDMEs of back carry the oldest digests of ld, or nothing.         *)
Matched(ld, back, v) ==
  \A i \in 1..Len(back) :
    back[i] \in Sendmes =>
      back[i].digest = IF v THEN ld[Count(back, i, Sendmes)] ELSE << >>

(* Quotients grow.                                                         *)
LEMMA DivideGrows ==
  ASSUME NEW n \in Nat, n > 0, NEW a \in Nat, NEW b \in Nat, a <= b
  PROVE  (a \div n) \in Nat /\ (b \div n) \in Nat /\ (a \div n) <= (b \div n)
<1> DEFINE p == a \div n
           q == b \div n
           j == a % n
           k == b % n
<1>1. p \in Nat /\ j \in 0..(n - 1) /\ a = n * p + j
  BY Division
<1>2. q \in Nat /\ k \in 0..(n - 1) /\ b = n * q + k
  BY Division
<1> HIDE DEF p, q, j, k
<1>3. p <= q
  <2> SUFFICES ASSUME q < p PROVE FALSE
    BY <1>1, <1>2
  <2>1. n * q + n <= n * p
    BY <1>1, <1>2, Larger
  <2>2. n * q \in Int /\ n * p \in Int
    BY <1>1, <1>2
  <2> QED
    BY <1>1, <1>2, <2>1, <2>2
<1> QED
  BY <1>1, <1>2, <1>3 DEF p, q

(* A positive multiple of n has a positive quotient.                       *)
LEMMA DividePositive ==
  ASSUME NEW n \in Nat, n > 0, NEW a \in Nat, a > 0, a % n = 0
  PROVE  a \div n \in Nat /\ a \div n >= 1
<1>1. a \div n \in Nat /\ a = n * (a \div n) + (a % n)
  BY Division
<1> DEFINE p == a \div n
<1>2. p \in Nat /\ a = n * p + 0
  BY <1>1
<1> HIDE DEF p
<1>3. p # 0
  <2> SUFFICES ASSUME p = 0 PROVE FALSE
    OBVIOUS
  <2>1. n * 0 = 0
    OBVIOUS
  <2> QED
    BY <1>2, <2>1
<1> QED
  BY <1>2, <1>3 DEF p

LEMMA CountUpTo ==
  ASSUME NEW q \in Seq(Cells), NEW S, NEW i \in 1..Len(q)
  PROVE  /\ Count(q, i, S) \in Nat /\ Total(q, S) \in Nat /\ Count(q, i, S) <= Total(q, S)
         /\ q[i] \in S => Count(q, i, S) > 0
<1>1. Len(q) \in Nat /\ i \in Nat /\ i <= Len(q) /\ i - 1 \in Nat /\ (i - 1) + 1 = i
  OBVIOUS
<1>2. Count(q, i, S) \in Nat /\ Total(q, S) \in Nat /\ Count(q, i - 1, S) \in Nat
  BY <1>1, CountIsNat DEF Total
<1>3. Count(q, i, S) <= Total(q, S)
  BY <1>1, CountGrows DEF Total
<1>4. Count(q, (i - 1) + 1, S) = Count(q, i - 1, S) + (IF q[(i - 1) + 1] \in S THEN 1 ELSE 0)
  BY <1>1, CountNext
<1> QED
  BY <1>1, <1>2, <1>3, <1>4

(* The sender sends a cell, and remembers its digest when it must.         *)
LEMMA RecordSent ==
  ASSUME NEW e, NEW ld \in Seq(Digests), NEW K \in Nat, NEW u \in Nat,
         NEW n \in Nat, n > 0, NEW R \in Nat, NEW out \in Seq(Cells),
         Recorded(e, ld, K, u, n, R, out), NEW c \in Cells,
         NEW d, d = <<e, R + Len(out) + 1>>, d \in Digests,
         NEW more, more = IF c \in DataCells /\ (u + Total(out, DataCells) + 1) % n = 0
                          THEN Append(ld, d) ELSE ld
  PROVE  Recorded(e, more, K, u, n, R, Append(out, c))
<1> DEFINE q == Append(out, c)
           l == Len(out)
           t == Total(out, DataCells)
           a(i) == u + Count(q, i, DataCells)
<1>1. /\ l \in Nat /\ Len(q) = l + 1 /\ q[l + 1] = c /\ \A i \in 1..l : q[i] = out[i]
      /\ q \in Seq(Cells)
  OBVIOUS
<1>2. t \in Nat
  BY TotalIsNat
<1>3. /\ Total(q, DataCells) = t + (IF c \in DataCells THEN 1 ELSE 0)
      /\ \A i \in 0..l : Count(q, i, DataCells) = Count(out, i, DataCells)
  BY TotalAppend
<1>4. Count(q, l + 1, DataCells) = Total(q, DataCells)
  BY <1>1 DEF Total
<1>5. /\ Len(ld) = K + ((u + t) \div n) /\ Len(ld) \in Nat
      /\ \A i \in 1..l : (out[i] \in DataCells /\ (u + Count(out, i, DataCells)) % n = 0)
           => ld[K + ((u + Count(out, i, DataCells)) \div n)] = <<e, R + i>>
  BY DEF Recorded
<1> HIDE DEF q, l, t
<1>6. ASSUME NEW i \in 1..l, q[i] \in DataCells, a(i) % n = 0
      PROVE  more[K + (a(i) \div n)] = <<e, R + i>>
  <2> DEFINE b == u + Count(out, i, DataCells)
             k == K + (b \div n)
  <2>1. a(i) = b /\ out[i] \in DataCells
    BY <1>1, <1>3, <1>6
  <2>2. ld[k] = <<e, R + i>>
    BY <1>5, <1>6, <2>1
  <2>3. /\ Count(out, i, DataCells) \in Nat /\ Count(out, i, DataCells) <= t
        /\ Count(out, i, DataCells) > 0
    BY <2>1, CountUpTo DEF l, t
  <2>4. b \in Nat /\ b > 0 /\ u + t \in Nat /\ b <= u + t /\ b % n = 0
    <3>1. b % n = 0
      BY <1>6, <2>1
    <3> DEFINE j == Count(out, i, DataCells)
    <3>2. j \in Nat /\ j <= t /\ j > 0 /\ b = u + j
      BY <2>3
    <3> HIDE DEF j, b
    <3> QED
      BY <1>2, <3>1, <3>2
  <2> HIDE DEF b
  <2>5. (b \div n) \in Nat /\ (b \div n) >= 1
    BY <2>4, DividePositive
  <2>6. (b \div n) <= ((u + t) \div n) /\ ((u + t) \div n) \in Nat
    BY <2>4, DivideGrows
  <2>7. k \in 1..Len(ld)
    BY <1>5, <2>5, <2>6, SMTT(40)
  <2> HIDE DEF k
  <2>8. more[k] = ld[k]
    BY <2>7
  <2> QED
    BY <2>1, <2>2, <2>8 DEF b, k
<1>7. CASE c \in DataCells /\ (u + t + 1) % n = 0
  <2>1. more = Append(ld, d)
    BY <1>7 DEF t
  <2>2. Total(q, DataCells) = t + 1 /\ u + (t + 1) = (u + t) + 1 /\ u + t \in Nat
    BY <1>2, <1>3, <1>7
  <2>3. ((u + t) + 1) \div n = ((u + t) \div n) + 1
    <3>1. ((u + t) + 1) \div n
            = ((u + t) \div n) + (IF ((u + t) + 1) % n = 0 THEN 1 ELSE 0)
      BY <2>2, DivideNext
    <3> QED
      BY <1>7, <3>1
  <2>4. ((u + t) \div n) \in Nat
    BY <2>2, Division
  <2> DEFINE m == (u + t) \div n
  <2>5. (u + (t + 1)) \div n = m + 1
    BY <2>2, <2>3
  <2> HIDE DEF m
  <2>6. Len(more) = K + (m + 1) /\ more[K + (m + 1)] = d
    BY <1>5, <2>1, <2>4, SMTT(40) DEF m
  <2>7. Len(more) = K + ((u + Total(q, DataCells)) \div n)
    BY <2>2, <2>5, <2>6
  <2>8. more[K + (a(l + 1) \div n)] = <<e, R + (l + 1)>>
    <3>1. R + (l + 1) = R + l + 1
      BY <1>1
    <3> QED
      BY <1>4, <2>2, <2>5, <2>6, <3>1 DEF l
  <2>9. \A i \in 1..Len(q) : i \in 1..l \/ i = l + 1
    BY <1>1
  <2> QED
    BY <1>6, <2>7, <2>8, <2>9 DEF Recorded, q
<1>8. CASE ~(c \in DataCells /\ (u + t + 1) % n = 0)
  <2>1. more = ld
    BY <1>8 DEF t
  <2>2. Len(more) = K + ((u + Total(q, DataCells)) \div n)
    <3>1. CASE c \notin DataCells
      BY <1>2, <1>3, <1>5, <2>1, <3>1
    <3>2. CASE c \in DataCells
      <4>1. Total(q, DataCells) = t + 1 /\ u + (t + 1) = (u + t) + 1 /\ u + t \in Nat
        BY <1>2, <1>3, <3>2
      <4>2. ((u + t) + 1) \div n
              = ((u + t) \div n) + (IF ((u + t) + 1) % n = 0 THEN 1 ELSE 0)
        BY <4>1, DivideNext
      <4>3. ((u + t) \div n) \in Nat
        BY <4>1, Division
      <4> QED
        BY <1>5, <1>8, <2>1, <3>2, <4>1, <4>2, <4>3, SMTT(40)
    <3> QED
      BY <3>1, <3>2
  <2>3. ~(q[l + 1] \in DataCells /\ a(l + 1) % n = 0)
    <3>1. c \in DataCells => u + (t + 1) = (u + t) + 1
      BY <1>2
    <3> QED
      BY <1>1, <1>3, <1>4, <1>8, <3>1
  <2>4. \A i \in 1..Len(q) : i \in 1..l \/ i = l + 1
    BY <1>1
  <2> QED
    BY <1>6, <2>2, <2>3, <2>4 DEF Recorded, q
<1> QED
  BY <1>7, <1>8

(* The sender pops its oldest digest when a SENDME reaches it.             *)
LEMMA RecordPopped ==
  ASSUME NEW e, NEW ld \in Seq(Digests), NEW K \in Nat, NEW u \in Nat,
         NEW n \in Nat, n > 0, NEW R \in Nat, NEW out \in Seq(Cells),
         Recorded(e, ld, K + 1, u, n, R, out)
  PROVE  ld # << >> /\ Recorded(e, Tail(ld), K, u, n, R, out)
<1> DEFINE t == Total(out, DataCells)
           m == (u + t) \div n
<1>1. t \in Nat /\ u + t \in Nat
  BY TotalIsNat
<1>2. m \in Nat
  BY <1>1, Division
<1>3. /\ Len(ld) = (K + 1) + m
      /\ \A i \in 1..Len(out) :
           (out[i] \in DataCells /\ (u + Count(out, i, DataCells)) % n = 0)
             => ld[(K + 1) + ((u + Count(out, i, DataCells)) \div n)] = <<e, R + i>>
  BY DEF Recorded
<1> HIDE DEF m
<1>4. ld # << >> /\ Len(Tail(ld)) = K + m
  BY <1>2, <1>3
<1>5. ASSUME NEW i \in 1..Len(out), out[i] \in DataCells,
             (u + Count(out, i, DataCells)) % n = 0
      PROVE  Tail(ld)[K + ((u + Count(out, i, DataCells)) \div n)] = <<e, R + i>>
  <2> DEFINE b == u + Count(out, i, DataCells)
             k == b \div n
  <2>1. /\ Count(out, i, DataCells) \in Nat /\ Count(out, i, DataCells) <= t
        /\ Count(out, i, DataCells) > 0
    BY <1>5, CountUpTo
  <2>2. b \in Nat /\ b > 0 /\ b <= u + t /\ b % n = 0
    <3>1. b % n = 0
      BY <1>5
    <3> DEFINE j == Count(out, i, DataCells)
    <3>2. j \in Nat /\ j <= t /\ j > 0 /\ b = u + j
      BY <2>1
    <3> HIDE DEF j, b, t
    <3> QED
      BY <1>1, <3>1, <3>2
  <2>3. ld[(K + 1) + k] = <<e, R + i>>
    BY <1>3, <1>5
  <2> HIDE DEF b, t
  <2>4. k \in Nat /\ k >= 1
    BY <2>2, DividePositive
  <2>5. k <= m
    BY <1>1, <2>2, DivideGrows DEF m
  <2> HIDE DEF k
  <2>6. K + k \in 1..Len(Tail(ld)) /\ (K + k) + 1 = (K + 1) + k
    BY <1>2, <1>4, <2>4, <2>5
  <2>7. Tail(ld)[K + k] = ld[(K + k) + 1]
    BY <1>4, <2>6
  <2> QED
    BY <2>3, <2>6, <2>7 DEF b, k
<1> QED
  BY <1>4, <1>5 DEF Recorded, m

(* The peer takes a cell, and with it sends a SENDME (s = 1) or none.      *)
LEMMA RecordTaken ==
  ASSUME NEW e, NEW ld \in Seq(Digests), NEW K \in Nat, NEW u \in Nat,
         NEW n \in Nat, n > 0, NEW R \in Nat, NEW out \in Seq(Cells), out # << >>,
         Recorded(e, ld, K, u, n, R, out), NEW s \in {0, 1}, NEW w \in Nat,
         w + s * n = u + One(Head(out), DataCells)
  PROVE  Recorded(e, ld, K + s, w, n, R + 1, Tail(out))
<1> DEFINE q == Tail(out)
           one == One(Head(out), DataCells)
           sn == s * n
<1>1. /\ q \in Seq(Cells) /\ Len(q) \in Nat /\ Len(out) = Len(q) + 1
      /\ \A i \in 1..Len(q) : q[i] = out[i + 1]
  OBVIOUS
<1>2. /\ Total(out, DataCells) = Total(q, DataCells) + one
      /\ \A i \in 0..Len(q) : Count(out, i + 1, DataCells) = Count(q, i, DataCells) + one
      /\ Total(q, DataCells) \in Nat
  BY TotalTail DEF One
<1>3. one \in Nat /\ s \in Nat /\ sn \in Nat /\ w + sn = u + one
  BY DEF One
<1>4. ASSUME NEW j \in Nat
      PROVE  /\ (u + (j + one)) \div n = ((w + j) \div n) + s
             /\ (u + (j + one)) % n = (w + j) % n
             /\ ((w + j) \div n) \in Nat
  <2>1. w + j \in Nat
    OBVIOUS
  <2>2. ((w + j) + s * n) \div n = ((w + j) \div n) + s
        /\ ((w + j) + s * n) % n = (w + j) % n
    BY <1>3, <2>1, DivideMore
  <2>3. u + (j + one) = (w + j) + sn
    <3> HIDE DEF one, sn
    <3> QED
      BY <1>3
  <2>4. ((w + j) \div n) \in Nat
    BY <2>1, Division
  <2> QED
    BY <2>2, <2>3, <2>4
<1>5. /\ Len(ld) = K + ((u + Total(out, DataCells)) \div n)
      /\ \A i \in 1..Len(out) :
           (out[i] \in DataCells /\ (u + Count(out, i, DataCells)) % n = 0)
             => ld[K + ((u + Count(out, i, DataCells)) \div n)] = <<e, R + i>>
  BY DEF Recorded
<1> HIDE DEF q, one
<1>6. Len(ld) = (K + s) + ((w + Total(q, DataCells)) \div n)
  <2> DEFINE t == Total(q, DataCells)
             p == (w + t) \div n
  <2>1. (u + (t + one)) \div n = p + s /\ p \in Nat
    BY <1>2, <1>4
  <2>2. Len(ld) = K + (p + s)
    BY <1>2, <1>5, <2>1
  <2> HIDE DEF p
  <2>3. Len(ld) = (K + s) + p
    BY <2>1, <2>2
  <2> QED
    BY <2>3 DEF p
<1>7. ASSUME NEW i \in 1..Len(q), q[i] \in DataCells,
             (w + Count(q, i, DataCells)) % n = 0
      PROVE  ld[(K + s) + ((w + Count(q, i, DataCells)) \div n)] = <<e, (R + 1) + i>>
  <2> DEFINE j == Count(q, i, DataCells)
             p == (w + j) \div n
  <2>1. j \in Nat
    BY <1>1, CountUpTo
  <2>2. (u + (j + one)) \div n = p + s /\ (u + (j + one)) % n = (w + j) % n /\ p \in Nat
    BY <1>4, <2>1
  <2>3. i + 1 \in 1..Len(out) /\ i \in 0..Len(q) /\ out[i + 1] \in DataCells
    BY <1>1, <1>7
  <2>4. Count(out, i + 1, DataCells) = j + one
    BY <1>2, <2>3
  <2>5. ld[K + (p + s)] = <<e, R + (i + 1)>>
    BY <1>5, <1>7, <2>2, <2>3, <2>4
  <2> HIDE DEF p
  <2>6. K + (p + s) = (K + s) + p /\ R + (i + 1) = (R + 1) + i
    BY <2>2
  <2> QED
    BY <2>5, <2>6 DEF p
<1> QED
  BY <1>6, <1>7 DEF Recorded, q

(* All that is said of the digests of one direction, x sending to y.       *)
Linked(cc, e, x, y, out, back, v) ==
  /\ Recorded(e, x.last_digests, Total(back, Sendmes), CIRCWINDOW_START - y.deliver_window,
              Inc(cc), y.received, out)
  /\ Matched(x.last_digests, back, v)
  /\ x.sent = y.received + Len(out)

(* The SENDMEs on their way have their digests in ld.                      *)
LEMMA RecordCovers ==
  ASSUME NEW e, NEW ld \in Seq(Digests), NEW K \in Nat, NEW u \in Nat,
         NEW n \in Nat, n > 0, NEW R, NEW out \in Seq(Cells),
         Recorded(e, ld, K, u, n, R, out)
  PROVE  K <= Len(ld)
<1> DEFINE p == (u + Total(out, DataCells)) \div n
<1>1. u + Total(out, DataCells) \in Nat
  BY TotalIsNat
<1>2. p \in Nat
  BY <1>1, Division
<1>3. Len(ld) = K + p
  BY DEF Recorded
<1> HIDE DEF p
<1> QED
  BY <1>2, <1>3

LEMMA MatchedMore ==
  ASSUME NEW ld \in Seq(Digests), NEW back \in Seq(Cells), NEW v,
         Total(back, Sendmes) <= Len(ld), Matched(ld, back, v), NEW d \in Digests
  PROVE  Matched(Append(ld, d), back, v)
<1> SUFFICES ASSUME NEW i \in 1..Len(back), back[i] \in Sendmes
             PROVE  back[i].digest =
                      IF v THEN Append(ld, d)[Count(back, i, Sendmes)] ELSE << >>
  BY DEF Matched
<1> DEFINE j == Count(back, i, Sendmes)
<1>1. back[i].digest = IF v THEN ld[j] ELSE << >>
  BY DEF Matched
<1>2. j \in Nat /\ j > 0 /\ j <= Total(back, Sendmes) /\ Total(back, Sendmes) \in Nat
  BY CountUpTo
<1> HIDE DEF j
<1>3. j \in 1..Len(ld)
  BY <1>2
<1>4. Append(ld, d)[j] = ld[j]
  BY <1>3
<1> QED
  BY <1>1, <1>4 DEF j

LEMMA MatchedTail ==
  ASSUME NEW ld \in Seq(Digests), NEW back \in Seq(Cells), back # << >>, NEW v,
         Total(back, Sendmes) <= Len(ld), Matched(ld, back, v)
  PROVE  Matched(IF Head(back) \in Sendmes THEN Tail(ld) ELSE ld, Tail(back), v)
<1> DEFINE q == Tail(back)
           rest == IF Head(back) \in Sendmes THEN Tail(ld) ELSE ld
<1>1. /\ q \in Seq(Cells) /\ Len(q) \in Nat /\ Len(back) = Len(q) + 1
      /\ \A i \in 1..Len(q) : q[i] = back[i + 1]
  OBVIOUS
<1>2. /\ Total(back, Sendmes) = Total(q, Sendmes) + (IF Head(back) \in Sendmes THEN 1 ELSE 0)
      /\ \A i \in 0..Len(q) : Count(back, i + 1, Sendmes)
            = Count(q, i, Sendmes) + (IF Head(back) \in Sendmes THEN 1 ELSE 0)
      /\ Total(q, Sendmes) \in Nat
  BY TotalTail
<1> SUFFICES ASSUME NEW i \in 1..Len(q), q[i] \in Sendmes
             PROVE  q[i].digest = IF v THEN rest[Count(q, i, Sendmes)] ELSE << >>
  BY DEF Matched
<1> DEFINE j == Count(q, i, Sendmes)
           k == Count(back, i + 1, Sendmes)
<1> HIDE DEF q, rest
<1>3. i + 1 \in 1..Len(back) /\ i \in 0..Len(q) /\ q[i] = back[i + 1]
  BY <1>1
<1>4. q[i].digest = IF v THEN ld[k] ELSE << >>
  BY <1>3 DEF Matched
<1>5. j \in Nat /\ j > 0 /\ j <= Total(q, Sendmes)
  BY <1>1, CountUpTo
<1>6. k = j + (IF Head(back) \in Sendmes THEN 1 ELSE 0)
  BY <1>2, <1>3
<1> HIDE DEF j, k
<1>7. rest[j] = ld[k]
  <2>1. CASE Head(back) \in Sendmes
    <3>1. rest = Tail(ld) /\ k = j + 1 /\ j + 1 <= Len(ld)
      BY <1>2, <1>5, <1>6, <2>1 DEF rest
    <3>2. ld # << >> /\ j \in 1..Len(Tail(ld))
      BY <1>5, <3>1
    <3>3. Tail(ld)[j] = ld[j + 1]
      BY <3>2
    <3> QED
      BY <3>1, <3>3
  <2>2. CASE Head(back) \notin Sendmes
    BY <1>5, <1>6, <2>2 DEF rest
  <2> QED
    BY <2>1, <2>2
<1> QED
  BY <1>4, <1>7 DEF j, rest, q

LEMMA MatchedAppend ==
  ASSUME NEW ld, NEW back \in Seq(Cells), NEW v, Matched(ld, back, v), NEW c \in Cells,
         c \in Sendmes => c.digest = IF v THEN ld[Total(back, Sendmes) + 1] ELSE << >>
  PROVE  Matched(ld, Append(back, c), v)
<1> DEFINE q == Append(back, c)
           l == Len(back)
<1>1. /\ l \in Nat /\ Len(q) = l + 1 /\ q[l + 1] = c /\ \A i \in 1..l : q[i] = back[i]
      /\ \A i \in 1..Len(q) : i \in 1..l \/ i = l + 1
  OBVIOUS
<1>2. /\ Total(q, Sendmes) = Total(back, Sendmes) + (IF c \in Sendmes THEN 1 ELSE 0)
      /\ \A i \in 0..l : Count(q, i, Sendmes) = Count(back, i, Sendmes)
  BY TotalAppend
<1>3. Count(q, l + 1, Sendmes) = Total(q, Sendmes)
  BY <1>1 DEF Total
<1> HIDE DEF q, l
<1> SUFFICES ASSUME NEW i \in 1..Len(q), q[i] \in Sendmes
             PROVE  q[i].digest = IF v THEN ld[Count(q, i, Sendmes)] ELSE << >>
  BY DEF Matched, q
<1>4. CASE i \in 1..l
  <2>1. i \in 0..l /\ back[i] \in Sendmes /\ q[i] = back[i]
    BY <1>1, <1>4
  <2>2. back[i].digest = IF v THEN ld[Count(back, i, Sendmes)] ELSE << >>
    BY <1>4, <2>1 DEF Matched, l
  <2> QED
    BY <1>2, <2>1, <2>2
<1>5. CASE i = l + 1
  BY <1>1, <1>2, <1>3, <1>5
<1> QED
  BY <1>1, <1>4, <1>5

(* One is no multiple of a larger number.                                  *)
LEMMA OneIsSmall ==
  ASSUME NEW n \in Nat, n > 1
  PROVE  1 % n # 0
<1>1. 1 \in 0..(n - 1)
  OBVIOUS
<1> QED
  BY <1>1, DivideSmall

(* Cells in use: t on their way, u not acknowledged, k increments of n     *)
(* acknowledged by SENDMEs on their way.                                   *)
InUse(a, n, t, u, k) ==
  /\ n \in Nat /\ n > 1 /\ t \in Nat /\ u \in Nat /\ k \in Nat
  /\ a = t + u + k * n

(* The prediction, counting up from zero (congestion control) ...          *)
LEMMA PredictsUp ==
  ASSUME NEW n, NEW t, NEW u, NEW k, NEW i, InUse(i, n, t, u, k)
  PROVE  (i # 0 /\ (i + 1) % n = 0) <=> (u + t + 1) % n = 0
<1> n \in Nat /\ n > 1 /\ t \in Nat /\ u \in Nat /\ k \in Nat /\ i = t + u + k * n
  BY DEF InUse
<1> DEFINE kn == k * n
           a == u + t + 1
<1>1. kn \in Nat /\ a \in Nat /\ n > 0
  OBVIOUS
<1>2. i = t + u + kn
  OBVIOUS
<1>3. (a + k * n) % n = a % n
  <2> HIDE DEF a
  <2> QED
    BY <1>1, DivideMore
<1> HIDE DEF kn
<1>4. i + 1 = a + kn /\ (i = 0 => a = 1)
  BY <1>1, <1>2
<1> HIDE DEF a
<1>5. 1 % n # 0
  BY OneIsSmall
<1>6. (i + 1) % n = a % n
  BY <1>3, <1>4 DEF kn
<1> QED
  BY <1>4, <1>5, <1>6 DEF a

(* ... and down from the window (fixed windows).                           *)
LEMMA PredictsDown ==
  ASSUME NEW n, NEW t, NEW u, NEW k, NEW a, InUse(a, n, t, u, k),
         NEW w \in Nat, NEW c \in Nat, w <= c, w % n = 0, w - a >= 1
  PROVE  (w - a # c /\ (w - a - 1) % n = 0) <=> (u + t + 1) % n = 0
<1> n \in Nat /\ n > 1 /\ t \in Nat /\ u \in Nat /\ k \in Nat /\ a = t + u + k * n
  BY DEF InUse
<1> DEFINE kn == k * n
           m == u + t + 1
           b == m + kn
<1>1. kn \in Nat /\ m \in Nat /\ n > 0
  OBVIOUS
<1>2. a = t + u + kn
  OBVIOUS
<1>3. (m + k * n) % n = m % n
  <2> HIDE DEF m
  <2> QED
    BY <1>1, DivideMore
<1> HIDE DEF kn
<1>4. b \in Nat /\ b <= w /\ w - a - 1 = w - b /\ (w - a = c => m = 1)
  BY <1>1, <1>2
<1>5. b % n = m % n
  BY <1>3 DEF kn
<1> HIDE DEF m, b
<1>6. (w - b) % n = 0 <=> b % n = 0
  BY <1>1, <1>4, DivideRest
<1>7. 1 % n # 0
  BY OneIsSmall
<1> QED
  BY <1>4, <1>5, <1>6, <1>7 DEF m

(* circuit_sent_cell_for_sendme is right: the next DATA cell is the last   *)
(* of an increment for the peer, whatever is on its way.                   *)
LEMMA PredictsExactly ==
  ASSUME InStep, NEW cc \in BOOLEAN, NEW x, NEW y, IsEdge(x), IsEdge(y),
         NEW out \in Seq(Cells), NEW back \in Seq(Cells),
         Balanced(cc, x, y, out, back),
         NEW u \in Nat, u = CIRCWINDOW_START - y.deliver_window,
         ~cc => x.package_window >= 1
  PROVE  Predicts(cc, x) <=> (u + Total(out, DataCells) + 1) % Inc(cc) = 0
<1> DEFINE n == Inc(cc)
           t == Total(out, DataCells)
           k == Total(back, Sendmes)
<1>1. n \in Nat /\ circwindow \in Nat /\ CIRCWINDOW_START \in Nat
      /\ circwindow <= CIRCWINDOW_START
  BY Constants, SendmeAssumption
<1>2. t \in Nat /\ k \in Nat
  BY TotalIsNat
<1>3. Used(cc, y, out, back) = t + u + k * n
  BY DEF Used
<1>4. n > 1
  BY DEF InStep, Inc
<1> DEFINE a == Used(cc, y, out, back)
<1>5. InUse(a, n, t, u, k)
  <2> HIDE DEF n, t, k, a
  <2> QED
    BY <1>1, <1>2, <1>3, <1>4 DEF InUse, a
<1> HIDE DEF a
<1>6. CASE cc
  <2>1. x.inflight = a /\ n = cc_sendme_inc
    BY <1>6 DEF Balanced, Inc, a
  <2>2. Predicts(cc, x) <=> (a # 0 /\ (a + 1) % n = 0)
    BY <1>6, <2>1 DEF Predicts
  <2> HIDE DEF n, t, k
  <2>3. (a # 0 /\ (a + 1) % n = 0) <=> (u + t + 1) % n = 0
    BY <1>5, PredictsUp
  <2> QED
    BY <2>2, <2>3 DEF t, n
<1>7. CASE ~cc
  <2>1. x.package_window = circwindow - a /\ n = CIRCWINDOW_INCREMENT
        /\ circwindow - a >= 1
    BY <1>7 DEF Balanced, Inc, a
  <2>2. Predicts(cc, x) <=> (circwindow - a # CIRCWINDOW_START /\ (circwindow - a - 1) % n = 0)
    BY <1>7, <2>1 DEF Predicts
  <2>3. circwindow % n = 0
    BY <2>1 DEF InStep
  <2> HIDE DEF n, t, k
  <2>4. (circwindow - a # CIRCWINDOW_START /\ (circwindow - a - 1) % n = 0)
          <=> (u + t + 1) % n = 0
    BY <1>1, <1>5, <2>1, <2>3, PredictsDown
  <2> QED
    BY <2>2, <2>4 DEF t, n
<1> QED
  BY <1>6, <1>7

(* What the digest lemmas need of two edges.                               *)
LEMMA LinkTypes ==
  ASSUME NEW cc \in BOOLEAN, NEW e, NEW f, NEW x, NEW y, Sound(cc, e, x), Sound(cc, f, y)
  PROVE  /\ IsEdge(x) /\ IsEdge(y) /\ x.last_digests \in Seq(Digests)
         /\ x.sent \in Nat /\ y.received \in Nat
         /\ CIRCWINDOW_START - y.deliver_window \in Nat
         /\ CIRCWINDOW_START - y.deliver_window < Inc(cc)
         /\ Inc(cc) \in Nat /\ Inc(cc) > 0
<1>1. IsEdge(x) /\ IsEdge(y) /\ x.last_digests \in Seq(Digests)
      /\ x.sent \in Nat /\ y.received \in Nat
  BY DEF Sound, IsEdge
<1>2. Inc(cc) \in Nat /\ Inc(cc) > 0 /\ CIRCWINDOW_START \in Nat
  BY Constants
<1>3. y.deliver_window \in 0..CIRCWINDOW_START /\ y.deliver_window > CIRCWINDOW_START - Inc(cc)
  BY DEF Sound, EdgeTypeOK
<1>4. /\ CIRCWINDOW_START - y.deliver_window \in Nat
      /\ CIRCWINDOW_START - y.deliver_window < Inc(cc)
  BY <1>2, <1>3
<1> QED
  BY <1>1, <1>2, <1>4

LEMMA JoinedLength ==
  ASSUME NEW q \in Seq(Cells), NEW c \in Cells \cup {NoCell}
  PROVE  Len(Joined(q, c)) = Len(q) + One(c, Cells) /\ One(c, Cells) \in Nat
<1>1. CASE c = NoCell
  BY <1>1, NoCellIsNone DEF Joined, One
<1>2. CASE c # NoCell
  BY <1>2 DEF Joined, One
<1> QED
  BY <1>1, <1>2

(* The sender moves: it sends c and receives r.                            *)
LEMMA SenderLinks ==
  ASSUME InStep, NEW cc \in BOOLEAN, NEW e \in Ends, NEW x, NEW y, NEW z, NEW v,
         Sound(cc, e, x), Sound(cc, Peer(e), y), Sound(cc, e, z),
         NEW out \in Seq(Cells), NEW back \in Seq(Cells), NEW rest,
         NEW c \in Cells \cup {NoCell}, NEW r, Leaves(r, back, rest),
         Credits(cc, x, z, c, r), Remembers(cc, e, x, z, c, r),
         Balanced(cc, x, y, out, back), Linked(cc, e, x, y, out, back, v)
  PROVE  Linked(cc, e, z, y, Joined(out, c), rest, v)
<1> DEFINE n == Inc(cc)
           u == CIRCWINDOW_START - y.deliver_window
           R == y.received
           ld == x.last_digests
           K == Total(back, Sendmes)
           M == Total(rest, Sendmes)
           t == Total(out, DataCells)
<1>1. /\ IsEdge(x) /\ IsEdge(y) /\ ld \in Seq(Digests) /\ x.sent \in Nat /\ R \in Nat
      /\ u \in Nat /\ n \in Nat /\ n > 0
  BY LinkTypes
<1>2. /\ Recorded(e, ld, K, u, n, R, out) /\ Matched(ld, back, v) /\ x.sent = R + Len(out)
  BY DEF Linked
<1>3. /\ K = M + One(r, Sendmes) /\ K \in Nat /\ M \in Nat /\ rest \in Seq(Cells)
      /\ r \in Cells \cup {NoCell}
  BY LeavesTotal, KindsAreCells
<1>4. z.sent = R + Len(Joined(out, c))
  <2>1. z.sent = x.sent + One(c, Cells)
    BY DEF Remembers
  <2>2. Len(Joined(out, c)) = Len(out) + One(c, Cells) /\ One(c, Cells) \in Nat
    BY JoinedLength
  <2>3. Len(out) \in Nat
    OBVIOUS
  <2> QED
    BY <1>1, <1>2, <2>1, <2>2, <2>3
<1> HIDE DEF n, u, R, ld, K, M, t
<1>5. K <= Len(ld)
  BY <1>1, <1>2, <1>3, RecordCovers
<1>6. Recorded(e, z.last_digests, M, u, n, R, Joined(out, c)) /\ Matched(z.last_digests, rest, v)
  <2>1. CASE r \in Sendmes
    <3>1. c = NoCell /\ z.last_digests = Tail(ld) /\ Joined(out, c) = out
      BY <2>1 DEF Remembers, Joined, ld
    <3>2. K = M + 1
      BY <1>3, <2>1 DEF One
    <3>3. Recorded(e, Tail(ld), M, u, n, R, out)
      BY <1>1, <1>2, <1>3, <3>2, RecordPopped
    <3>4. back # << >> /\ r = Head(back) /\ rest = Tail(back)
      BY <2>1, NoCellIsNone DEF Leaves
    <3>5. Matched(IF Head(back) \in Sendmes THEN Tail(ld) ELSE ld, Tail(back), v)
      BY <1>1, <1>2, <1>5, <3>4, MatchedTail DEF K
    <3> QED
      BY <2>1, <3>1, <3>3, <3>4, <3>5
  <2>2. CASE r \notin Sendmes
    <3>1. K = M
      BY <1>3, <2>2 DEF One
    <3>2. Matched(ld, rest, v)
      <4>1. CASE r = NoCell
        BY <1>2, <4>1 DEF Leaves
      <4>2. CASE r # NoCell
        <5>1. back # << >> /\ r = Head(back) /\ rest = Tail(back)
          BY <4>2 DEF Leaves
        <5>2. Matched(IF Head(back) \in Sendmes THEN Tail(ld) ELSE ld, Tail(back), v)
          BY <1>1, <1>2, <1>5, <5>1, MatchedTail DEF K
        <5> QED
          BY <2>2, <5>1, <5>2
      <4> QED
        BY <4>1, <4>2
    <3>3. z.last_digests = IF c \in DataCells /\ Predicts(cc, x)
                           THEN Append(ld, <<e, x.sent + 1>>) ELSE ld
      BY <2>2 DEF Remembers, ld
    <3>4. CASE c = NoCell
      <4>1. z.last_digests = ld /\ Joined(out, c) = out
        BY <3>3, <3>4, NoCellIsNone DEF Joined
      <4> QED
        BY <1>2, <3>1, <3>2, <4>1
    <3>5. CASE c # NoCell
      <4> DEFINE d == <<e, x.sent + 1>>
      <4>1. c \in Cells /\ Joined(out, c) = Append(out, c)
        BY <3>5 DEF Joined
      <4>2. d = <<e, R + Len(out) + 1>> /\ d \in Digests
        BY <1>1, <1>2 DEF Digests
      <4>3. c \in DataCells => (Predicts(cc, x) <=> (u + t + 1) % n = 0)
        <5> SUFFICES ASSUME c \in DataCells PROVE Predicts(cc, x) <=> (u + t + 1) % n = 0
          OBVIOUS
        <5>1. ~cc => x.package_window >= 1
          <6> SUFFICES ASSUME ~cc PROVE x.package_window >= 1
            OBVIOUS
          <6>1. z.package_window = x.package_window - 1 + 0
            BY <2>2 DEF Credits, One, Worth
          <6>2. z.package_window >= 0 /\ x.package_window \in Int
            BY <1>1 DEF Sound, EdgeTypeOK, IsEdge
          <6> QED
            BY <6>1, <6>2
        <5> QED
          BY <1>1, <5>1, PredictsExactly DEF u, t, n
      <4>4. z.last_digests = IF c \in DataCells /\ (u + t + 1) % n = 0
                             THEN Append(ld, d) ELSE ld
        BY <3>3, <4>3
      <4> HIDE DEF d
      <4>5. Recorded(e, z.last_digests, K, u, n, R, Append(out, c))
        BY <1>1, <1>2, <1>3, <4>1, <4>2, <4>4, RecordSent DEF t
      <4>6. Matched(z.last_digests, rest, v)
        <5>1. Total(rest, Sendmes) <= Len(ld)
          BY <1>5, <3>1 DEF M
        <5>2. Matched(Append(ld, d), rest, v)
          BY <1>1, <1>3, <3>2, <4>2, <5>1, MatchedMore
        <5> QED
          BY <3>2, <4>4, <5>2
      <4> QED
        BY <3>1, <4>1, <4>5, <4>6
    <3> QED
      BY <3>4, <3>5
  <2> QED
    BY <2>1, <2>2
<1> QED
  BY <1>4, <1>6 DEF Linked, n, u, R, M

(* The DATA cell that completes an increment has the next digest of ld.    *)
LEMMA NextDigest ==
  ASSUME NEW e, NEW ld, NEW K, NEW u \in Nat, NEW R, NEW out \in Seq(Cells),
         Recorded(e, ld, K, u, u + 1, R, out), out # << >>, Head(out) \in DataCells
  PROVE  ld[K + 1] = <<e, R + 1>>
<1> DEFINE n == u + 1
<1> n \in Nat /\ n > 0
  OBVIOUS
<1>1. 1 \in 1..Len(out) /\ out[1] \in DataCells
  OBVIOUS
<1>2. Count(out, 0 + 1, DataCells) = Count(out, 0, DataCells) + (IF out[0 + 1] \in DataCells THEN 1 ELSE 0)
  BY CountNext
<1>3. Count(out, 0, DataCells) \in Nat /\ Count(out, 0, DataCells) <= 0
  BY CountIsNat
<1>4. Count(out, 1, DataCells) = 1
  <2>1. 0 + 1 = 1
    OBVIOUS
  <2> QED
    BY <1>1, <1>2, <1>3, <2>1
<1>5. n \div n = 1 /\ n % n = 0
  <2> HIDE DEF n
  <2>1. n = n * 1 + 0 /\ 0 \in 0..(n - 1) /\ 1 \in Int
    OBVIOUS
  <2> QED
    BY <2>1, Division
<1>6. (u + Count(out, 1, DataCells)) = n
  BY <1>4
<1>7. (out[1] \in DataCells /\ (u + Count(out, 1, DataCells)) % n = 0)
        => ld[K + ((u + Count(out, 1, DataCells)) \div n)] = <<e, R + 1>>
  BY <1>1 DEF Recorded
<1> QED
  BY <1>1, <1>5, <1>6, <1>7

(* The receiver moves: it sends c and receives r.                          *)
LEMMA ReceiverLinks ==
  ASSUME NEW cc \in BOOLEAN, NEW e \in Ends, NEW x, NEW y, NEW z,
         Sound(cc, e, x), Sound(cc, Peer(e), y), Sound(cc, Peer(e), z),
         NEW out \in Seq(Cells), NEW back \in Seq(Cells), NEW rest,
         NEW c \in Cells \cup {NoCell}, NEW r, Leaves(r, out, rest),
         Credits(cc, y, z, c, r), Remembers(cc, Peer(e), y, z, c, r),
         Linked(cc, e, x, y, out, back, emit_min_version[Peer(e)] = 1)
  PROVE  Linked(cc, e, x, z, rest, Joined(back, c), emit_min_version[Peer(e)] = 1)
<1> DEFINE n == Inc(cc)
           u == CIRCWINDOW_START - y.deliver_window
           w == CIRCWINDOW_START - z.deliver_window
           R == y.received
           ld == x.last_digests
           K == Total(back, Sendmes)
           s == One(c, Sendmes)
           v == emit_min_version[Peer(e)] = 1
<1>1. /\ ld \in Seq(Digests) /\ x.sent \in Nat /\ R \in Nat
      /\ u \in Nat /\ u < n /\ n \in Nat /\ n > 0
  BY LinkTypes
<1>2. w \in Nat
  BY LinkTypes
<1>3. Recorded(e, ld, K, u, n, R, out) /\ Matched(ld, back, v) /\ x.sent = R + Len(out)
  BY DEF Linked
<1>4. Total(Joined(back, c), Sendmes) = K + s /\ K \in Nat
  BY JoinedTotal, KindsAreCells
<1>5. s \in {0, 1} /\ One(r, DataCells) \in {0, 1}
  BY DEF One
<1>6. w + s * n = u + One(r, DataCells)
  <2>1. z.deliver_window = y.deliver_window - One(r, DataCells) + Worth(c, Sendmes, n)
    BY DEF Credits
  <2>2. Worth(c, Sendmes, n) = s * n
    <3>1. CASE c \in Sendmes
      BY <1>1, <3>1 DEF Worth, One
    <3>2. CASE c \notin Sendmes
      BY <1>1, <3>2 DEF Worth, One
    <3> QED
      BY <3>1, <3>2
  <2>3. y.deliver_window \in Int /\ CIRCWINDOW_START \in Nat
    BY Constants DEF Sound, IsEdge
  <2> DEFINE sn == s * n
             one == One(r, DataCells)
  <2>4. sn \in Nat
    BY <1>1, <1>5
  <2>5. one \in Nat
    BY <1>5
  <2>6. z.deliver_window = y.deliver_window - one + sn
    BY <2>1, <2>2
  <2> HIDE DEF sn, one
  <2>7. w + sn = u + one
    BY <2>3, <2>4, <2>5, <2>6
  <2> QED
    BY <2>7 DEF sn, one
<1>7. c \in Sendmes => /\ r \in DataCells
                       /\ c.digest = IF v THEN <<e, R + 1>> ELSE << >>
  <2>1. Peer(Peer(e)) = e
    BY Peers
  <2> QED
    BY <2>1 DEF Remembers
<1>8. z.received = R + One(r, Cells)
  BY DEF Remembers
<1> HIDE DEF n, u, w, R, ld, K, v
<1>9. /\ Recorded(e, ld, K + s, w, n, z.received, rest)
      /\ Matched(ld, Joined(back, c), v) /\ x.sent = z.received + Len(rest)
  <2>1. CASE r = NoCell
    <3>1. rest = out /\ r \notin DataCells /\ r \notin Cells
      BY <2>1, NoCellIsNone DEF Leaves
    <3>2. z.received = R /\ c \notin Sendmes
      BY <1>1, <1>7, <1>8, <3>1 DEF One
    <3>3. s = 0 /\ One(r, DataCells) = 0
      BY <3>1, <3>2 DEF One
    <3>4. w = u /\ K + s = K
      <4> HIDE DEF s
      <4> QED
        BY <1>1, <1>2, <1>4, <1>6, <3>3
    <3>5. Matched(ld, Joined(back, c), v)
      <4>1. CASE c = NoCell
        BY <1>3, <4>1 DEF Joined
      <4>2. CASE c # NoCell
        <5>1. c \in Cells /\ Joined(back, c) = Append(back, c)
          BY <4>2 DEF Joined
        <5> QED
          BY <1>3, <3>2, <5>1, MatchedAppend
      <4> QED
        BY <4>1, <4>2
    <3> QED
      BY <1>3, <3>1, <3>2, <3>4, <3>5
  <2>2. CASE r # NoCell
    <3>1. out # << >> /\ r = Head(out) /\ rest = Tail(out) /\ r \in Cells
      BY <2>2 DEF Leaves
    <3>2. z.received = R + 1
      BY <1>8, <3>1 DEF One
    <3>3. x.sent = z.received + Len(rest)
      <4>1. Len(out) \in Nat /\ Len(rest) = Len(out) - 1
        BY <3>1
      <4> QED
        BY <1>1, <1>3, <3>2, <4>1
    <3>4. w + s * n = u + One(Head(out), DataCells)
      BY <1>6, <3>1
    <3>5. Recorded(e, ld, K + s, w, n, R + 1, Tail(out))
      <4> HIDE DEF s
      <4> QED
        BY <1>1, <1>2, <1>3, <1>4, <1>5, <3>1, <3>4, RecordTaken
    <3>6. Matched(ld, Joined(back, c), v)
      <4>1. CASE c = NoCell
        BY <1>3, <4>1 DEF Joined
      <4>2. CASE c # NoCell
        <5>1. c \in Cells /\ Joined(back, c) = Append(back, c)
          BY <4>2 DEF Joined
        <5>2. ASSUME c \in Sendmes
              PROVE  c.digest = IF v THEN ld[K + 1] ELSE << >>
          <6>1. s = 1 /\ One(r, DataCells) = 1 /\ Head(out) \in DataCells
            BY <1>7, <3>1, <5>2 DEF One
          <6>2. s * n = n
            BY <1>1, <6>1
          <6>3. u + 1 = n
            <7>1. w + n = u + 1
              BY <1>6, <6>1, <6>2
            <7> QED
              BY <1>1, <1>2, <7>1
          <6>4. Recorded(e, ld, K, u, u + 1, R, out)
            BY <1>3, <6>3
          <6>5. ld[K + 1] = <<e, R + 1>>
            <7>1. u \in Nat /\ out # << >> /\ Head(out) \in DataCells
              BY <1>1, <3>1, <6>1
            <7> QED
              BY <6>4, <7>1, NextDigest, Zenon
          <6> QED
            BY <1>7, <5>2, <6>5
        <5> QED
          BY <1>3, <5>1, <5>2, MatchedAppend DEF K
      <4> QED
        BY <4>1, <4>2
    <3> QED
      BY <3>1, <3>2, <3>3, <3>5, <3>6
  <2> QED
    BY <2>1, <2>2
<1> QED
  BY <1>4, <1>9 DEF Linked, n, w, ld, K, v

(* The digests of both directions.                                         *)
Links ==
  Open => \A e \in Ends :
            Linked(ccontrol, e, edge[e], edge[Peer(e)], Pipe(e), Pipe(Peer(e)),
                   emit_min_version[Peer(e)] = 1)

LEMMA InitLinks ==
  ASSUME Init
  PROVE  Links
<1> SUFFICES ASSUME NEW e \in Ends
             PROVE  Linked(ccontrol, e, edge[e], edge[Peer(e)], Pipe(e), Pipe(Peer(e)),
                           emit_min_version[Peer(e)] = 1)
  BY DEF Links
<1>1. PICK w \in Cwnds : edge = [f \in Ends |-> NewEdge(f, w)]
  BY DEF Init
<1> DEFINE x == edge[e]
           y == edge[Peer(e)]
<1>2. /\ x.last_digests = << >> /\ x.sent = 0
      /\ y.deliver_window = CIRCWINDOW_START /\ y.received = 0
  BY <1>1, Peers DEF NewEdge
<1>3. /\ Pipe(e) = << >> /\ Pipe(Peer(e)) = << >>
      /\ Total(Pipe(e), DataCells) = 0 /\ Total(Pipe(Peer(e)), Sendmes) = 0
  BY Peers, InitPipes
<1>4. Inc(ccontrol) \in Nat /\ Inc(ccontrol) > 0 /\ CIRCWINDOW_START \in Nat
  BY InitTypes, Constants DEF Types
<1>5. 0 \div Inc(ccontrol) = 0 /\ CIRCWINDOW_START - CIRCWINDOW_START = 0
  <2>1. 0 \in 0..(Inc(ccontrol) - 1)
    BY <1>4
  <2> QED
    BY <1>4, <2>1, DivideSmall
<1> HIDE DEF x, y
<1>6. Recorded(e, << >>, 0, 0, Inc(ccontrol), 0, << >>) <=> 0 = 0 + ((0 + 0) \div Inc(ccontrol))
  <2>1. Total(<< >>, DataCells) = 0
    BY <1>3
  <2> QED
    BY <2>1 DEF Recorded
<1>7. Matched(<< >>, << >>, emit_min_version[Peer(e)] = 1)
  BY DEF Matched
<1>8. Recorded(e, << >>, 0, 0, Inc(ccontrol), 0, << >>)
  BY <1>5, <1>6
<1> QED
  BY <1>2, <1>3, <1>5, <1>7, <1>8 DEF Linked, x, y

LEMMA StepKeepsLinks ==
  ASSUME InStep, Types, Credit, Links, NEW e \in Ends, Happens(e)
  PROVE  Links'
<1> DEFINE f == Peer(e)
           x == edge[e]
           y == edge[f]
           z == edge'[e]
<1>1. f \in Ends /\ f # e /\ Peer(f) = e /\ Ends = {e, f}
  BY Peers
<1>2. /\ Open /\ ccontrol' = ccontrol /\ edge'[f] = y /\ Sound(ccontrol, e, z)
  BY DEF Happens
<1>3. Sound(ccontrol, e, x) /\ Sound(ccontrol, f, y) /\ ccontrol \in BOOLEAN
  BY <1>1 DEF Types
<1>4. ASSUME Open'
      PROVE  \A g \in Ends : Linked(ccontrol, g, edge[g], edge[Peer(g)], Pipe(g), Pipe(Peer(g)),
                                    emit_min_version[Peer(g)] = 1)'
  <2>1. PICK r \in Cells \cup {NoCell} :
          /\ Leaves(r, Pipe(f), Pipe(f)')
          /\ IF z.closed THEN Refuses(ccontrol, e, x, r)
             ELSE \E c \in Cells \cup {NoCell} : Sends(e, c, r)
    BY DEF Happens
  <2>2. ~z.closed
    BY <1>4 DEF Open
  <2>3. PICK c \in Cells \cup {NoCell} : Sends(e, c, r)
    BY <2>1, <2>2
  <2>4. /\ Pipe(e)' = Joined(Pipe(e), c) /\ Credits(ccontrol, x, z, c, r)
        /\ Remembers(ccontrol, e, x, z, c, r)
    BY <2>3 DEF Sends
  <2>5. Pipe(e) \in Seq(Cells) /\ Pipe(f) \in Seq(Cells)
    BY <1>1, PipeType
  <2>6. /\ Balanced(ccontrol, x, y, Pipe(e), Pipe(f))
        /\ Linked(ccontrol, e, x, y, Pipe(e), Pipe(f), emit_min_version[f] = 1)
        /\ Linked(ccontrol, f, y, x, Pipe(f), Pipe(e), emit_min_version[e] = 1)
    BY <1>1, <1>2 DEF Credit, Links
  <2>7. Linked(ccontrol, e, z, y, Pipe(e)', Pipe(f)', emit_min_version[f] = 1)
    <3> HIDE DEF x, y, z
    <3> QED
      BY <1>2, <1>3, <2>1, <2>4, <2>5, <2>6, SenderLinks
  <2>8. Linked(ccontrol, f, y, z, Pipe(f)', Pipe(e)', emit_min_version[e] = 1)
    <3>1. Peer(f) = e /\ f \in Ends
      BY <1>1
    <3> HIDE DEF x, y, z, f
    <3> QED
      BY <1>2, <1>3, <2>1, <2>4, <2>5, <2>6, <3>1, ReceiverLinks
  <2> QED
    BY <1>1, <1>2, <2>7, <2>8 DEF x, y, z, f
<1> QED
  BY <1>4 DEF Links

LEMMA StepsKeepLinks ==
  ASSUME InStep, Types, Credit, Links, [Next]_vars
  PROVE  Links'
<1>1. CASE Next
  BY <1>1, EveryStep, StepKeepsLinks
<1>2. CASE UNCHANGED vars
  BY <1>2 DEF vars, Links, Open, Pipe
<1> QED
  BY <1>1, <1>2

(* When the windows are in step, the digests an edge remembers are, in     *)
(* order, those of the SENDMEs on their way to it and those of the DATA    *)
(* cells still on their way out that its peer will acknowledge, whatever   *)
(* else goes through crypto->sendme_digest: for any constants.             *)
THEOREM LinksHold == InStep => (Spec => []Links)
<1> SUFFICES ASSUME InStep PROVE Spec => []Links
  OBVIOUS
<1>1. Init => Links
  BY InitLinks
<1>2. (Types /\ Credit) /\ Links /\ [Next]_vars => Links'
  BY StepsKeepLinks
<1> QED
  BY <1>1, <1>2, CreditHolds, PTL DEF Spec

(* "Return true iff the next cell we send will result in the other endpoint *)
(* sending a SENDME": when the windows are in step, circuit_sent_cell_for_ *)
(* sendme does, for any windows, increments and interleaving, so that an   *)
(* edge remembers exactly one digest for every SENDME that will reach it.  *)
THEOREM SendmesArePredicted == InStep => (Spec => []PredictsSendme)
<1> SUFFICES ASSUME InStep PROVE Spec => []PredictsSendme
  OBVIOUS
<1>1. Types /\ Links => PredictsSendme
  <2> SUFFICES ASSUME Types, Links, Open, NEW e \in Ends
               PROVE  Len(edge[e].last_digests)
                        = SendmesIn(Pipe(Peer(e)))
                          + ((CIRCWINDOW_START - edge[Peer(e)].deliver_window + DataIn(Pipe(e)))
                               \div sendme_get_inc_count)
    BY DEF PredictsSendme
  <2>1. Pipe(e) \in Seq(Cells) /\ Pipe(Peer(e)) \in Seq(Cells)
    BY Peers, PipeType
  <2>2. DataIn(Pipe(e)) = Total(Pipe(e), DataCells)
        /\ SendmesIn(Pipe(Peer(e))) = Total(Pipe(Peer(e)), Sendmes)
    BY <2>1, CellsInIsTotal
  <2>3. sendme_get_inc_count = Inc(ccontrol)
    BY DEF sendme_get_inc_count, Inc
  <2> QED
    BY <2>2, <2>3 DEF Links, Linked, Recorded
<1> QED
  BY <1>1, CreditHolds, LinksHold, PTL

(* When the windows are in step, every version 1 SENDME on its way carries *)
(* the digest its receiver will compare it with (sendme_is_valid pops the  *)
(* oldest), although both directions share crypto->sendme_digest and other *)
(* cells move the running digests: for any constants.                      *)
THEOREM DigestsMatch == InStep => (Spec => []SendmesMatchDigests)
<1> SUFFICES ASSUME InStep PROVE Spec => []SendmesMatchDigests
  OBVIOUS
<1>1. Types /\ Links => SendmesMatchDigests
  <2> SUFFICES ASSUME Types, Links, Open, NEW e \in Ends, NEW i \in DOMAIN Pipe(Peer(e)),
                      Pipe(Peer(e))[i].command = "SENDME",
                      Pipe(Peer(e))[i].stream = "circuit",
                      Pipe(Peer(e))[i].digest # << >>
               PROVE  /\ SendmesUpTo(Pipe(Peer(e)), i) \in DOMAIN edge[e].last_digests
                      /\ Pipe(Peer(e))[i].digest
                           = edge[e].last_digests[SendmesUpTo(Pipe(Peer(e)), i)]
    BY DEF SendmesMatchDigests
  <2> DEFINE f == Peer(e)
             q == Pipe(f)
             x == edge[e]
             y == edge[f]
             ld == x.last_digests
             v == emit_min_version[f] = 1
  <2>1. q \in Seq(Cells) /\ Pipe(e) \in Seq(Cells) /\ f \in Ends
    BY Peers, PipeType
  <2>2. Linked(ccontrol, e, x, y, Pipe(e), q, v)
    BY DEF Links
  <2>3. Sound(ccontrol, e, x) /\ Sound(ccontrol, f, y) /\ ccontrol \in BOOLEAN
    BY <2>1 DEF Types
  <2> HIDE DEF f, q, x, y, ld, v
  <2>4. ld \in Seq(Digests) /\ Inc(ccontrol) \in Nat /\ Inc(ccontrol) > 0
        /\ CIRCWINDOW_START - y.deliver_window \in Nat
    BY <2>3, LinkTypes DEF ld
  <2>5. Total(q, Sendmes) <= Len(ld)
    <3>1. Recorded(e, ld, Total(q, Sendmes), CIRCWINDOW_START - y.deliver_window,
                   Inc(ccontrol), y.received, Pipe(e))
      BY <2>2 DEF Linked, ld
    <3>2. Total(q, Sendmes) \in Nat
      BY <2>1, TotalIsNat
    <3> QED
      BY <2>1, <2>4, <3>1, <3>2, RecordCovers
  <2>6. i \in 1..Len(q) /\ i \in 0..Len(q) /\ q[i] \in Cells
    BY <2>1 DEF q, f
  <2>7. q[i] \in Sendmes /\ q[i].digest # << >>
    BY <2>6 DEF Sendmes, Kind, q, f
  <2>8. SendmesUpTo(q, i) = Count(q, i, Sendmes)
    BY <2>1, <2>6, CellsInIsTotal
  <2>9. /\ Count(q, i, Sendmes) \in Nat /\ Count(q, i, Sendmes) > 0
        /\ Count(q, i, Sendmes) <= Total(q, Sendmes) /\ Total(q, Sendmes) \in Nat
    BY <2>1, <2>6, <2>7, CountUpTo
  <2>10. q[i].digest = ld[Count(q, i, Sendmes)]
    BY <2>2, <2>6, <2>7 DEF Linked, Matched, ld
  <2>11. Count(q, i, Sendmes) \in DOMAIN ld
    <3> DEFINE j == Count(q, i, Sendmes)
    <3> HIDE DEF j
    <3>1. j \in 1..Len(ld)
      BY <2>4, <2>5, <2>9 DEF j
    <3>2. DOMAIN ld = 1..Len(ld)
      BY <2>4
    <3> QED
      BY <3>1, <3>2 DEF j
  <2> QED
    BY <2>8, <2>10, <2>11 DEF q, f, x, ld
<1> QED
  BY <1>1, CreditHolds, LinksHold, PTL

-----------------------------------------------------------------------------
(* How long a pipe can get.                                                *)

StreamSendmes == {c \in Cells : c.command = "SENDME" /\ c.stream \in Streams}

LEMMA CountApart ==
  ASSUME NEW q, NEW n \in Nat, NEW S, NEW T, S \cap T = {}
  PROVE  Count(q, n, S \cup T) = Count(q, n, S) + Count(q, n, T)
<1> DEFINE A == {i \in 1..n : q[i] \in S}
           B == {i \in 1..n : q[i] \in T}
<1>1. IsFiniteSet(A) /\ IsFiniteSet(B)
  BY CountIsNat
<1>2. A \cap B = {} /\ {i \in 1..n : q[i] \in S \cup T} = A \cup B
  OBVIOUS
<1>3. Cardinality(A) \in Nat /\ Cardinality(B) \in Nat /\ Cardinality(A \cap B) = 0
  BY <1>1, <1>2, FS_CardinalityType, FS_EmptySet
<1> HIDE DEF A, B
<1>4. Cardinality(A \cup B) = Cardinality(A) + Cardinality(B) - Cardinality(A \cap B)
  BY <1>1, FS_Union
<1>5. Cardinality(A \cup B) = Cardinality(A) + Cardinality(B)
  BY <1>3, <1>4
<1> QED
  BY <1>2, <1>5 DEF Count, A, B

LEMMA PipeParts ==
  ASSUME NEW q \in Seq(Cells)
  PROVE  Len(q) = Total(q, DataCells) + Total(q, Sendmes) + Total(q, StreamSendmes)
                    + Total(q, Others)
<1> DEFINE l == Len(q)
           S1 == DataCells \cup Sendmes
           S2 == S1 \cup StreamSendmes
           S3 == S2 \cup Others
<1>1. l \in Nat /\ \A i \in 1..l : q[i] \in Cells
  OBVIOUS
<1>2. /\ DataCells \cap Sendmes = {} /\ S1 \cap StreamSendmes = {} /\ S2 \cap Others = {}
      /\ Cells \subseteq S3
  BY CellTypes DEF Cells, DataCells, Sendmes, StreamSendmes, Others, Kind
<1> HIDE DEF l, S1, S2, S3
<1>3. Count(q, l, S1) = Count(q, l, DataCells) + Count(q, l, Sendmes)
  BY <1>1, <1>2, CountApart DEF S1
<1>4. Count(q, l, S2) = Count(q, l, S1) + Count(q, l, StreamSendmes)
  BY <1>1, <1>2, CountApart DEF S2
<1>5. Count(q, l, S3) = Count(q, l, S2) + Count(q, l, Others)
  BY <1>1, <1>2, CountApart DEF S3
<1>6. Count(q, l, S3) = l
  <2>1. {i \in 1..l : q[i] \in S3} = 1..l
    BY <1>1, <1>2
  <2>2. Cardinality(1..l) = l
    BY <1>1, FS_Interval
  <2> QED
    BY <2>1, <2>2 DEF Count
<1> QED
  BY <1>3, <1>4, <1>5, <1>6 DEF Total, l

LEMMA StreamSendmesBound ==
  ASSUME NEW q \in Seq(Cells), NEW L \in Nat, IsFiniteSet(Streams),
         \A s \in Streams : Total(q, Kind("SENDME", s)) <= L
  PROVE  Total(q, StreamSendmes) <= Cardinality(Streams) * L
<1> DEFINE l == Len(q)
           A == {i \in 1..l : q[i] \in StreamSendmes}
           T == Streams \X (1..L)
           f == [i \in A |-> <<q[i].stream, Count(q, i, Kind("SENDME", q[i].stream))>>]
<1>1. l \in Nat /\ \A i \in 1..l : q[i] \in Cells
  OBVIOUS
<1>2. ASSUME NEW i \in A
      PROVE  /\ i \in 1..l /\ q[i].stream \in Streams
             /\ q[i] \in Kind("SENDME", q[i].stream)
             /\ Count(q, i, Kind("SENDME", q[i].stream)) \in 1..L
  <2>1. i \in 1..l /\ q[i].stream \in Streams /\ q[i] \in Kind("SENDME", q[i].stream)
    BY DEF StreamSendmes, Kind
  <2> DEFINE S == Kind("SENDME", q[i].stream)
             k == Count(q, i, S)
  <2>2. Total(q, S) <= L
    BY <2>1
  <2> HIDE DEF S
  <2>3. k \in Nat /\ k > 0 /\ k <= Total(q, S) /\ Total(q, S) \in Nat
    BY <2>1, CountUpTo DEF S
  <2> HIDE DEF k
  <2>4. k \in 1..L
    BY <2>2, <2>3
  <2> QED
    BY <2>1, <2>4 DEF S, k
<1>3. f \in [A -> T]
  BY <1>2
<1>4. ASSUME NEW i \in A, NEW j \in A, i < j, q[i].stream = q[j].stream
      PROVE  Count(q, i, Kind("SENDME", q[i].stream)) < Count(q, j, Kind("SENDME", q[j].stream))
  <2> DEFINE S == Kind("SENDME", q[j].stream)
  <2>1. i \in Nat /\ j \in Nat /\ j - 1 \in Nat /\ i <= j - 1 /\ (j - 1) + 1 = j
    BY <1>2, <1>4
  <2>2. q[j] \in S
    BY <1>2
  <2> HIDE DEF S
  <2>3. Count(q, i, S) <= Count(q, j - 1, S) /\ Count(q, i, S) \in Nat
        /\ Count(q, j - 1, S) \in Nat
    BY <2>1, CountGrows, CountIsNat
  <2>4. Count(q, (j - 1) + 1, S) = Count(q, j - 1, S) + (IF q[(j - 1) + 1] \in S THEN 1 ELSE 0)
    BY <2>1, CountNext
  <2>5. Count(q, i, S) < Count(q, j, S)
    BY <2>1, <2>2, <2>3, <2>4
  <2> QED
    BY <1>4, <2>5 DEF S
<1>5. IsInjective(f)
  <2> SUFFICES ASSUME NEW i \in A, NEW j \in A, f[i] = f[j] PROVE i = j
    BY <1>3 DEF IsInjective
  <2>1. /\ q[i].stream = q[j].stream
        /\ Count(q, i, Kind("SENDME", q[i].stream)) = Count(q, j, Kind("SENDME", q[j].stream))
    OBVIOUS
  <2>2. i \in Nat /\ j \in Nat
    BY <1>2
  <2>3. /\ Count(q, i, Kind("SENDME", q[i].stream)) \in Int
        /\ Count(q, j, Kind("SENDME", q[j].stream)) \in Int
    BY <1>2
  <2> QED
    BY <1>4, <2>1, <2>2, <2>3
<1> HIDE DEF f
<1>6. f \in Injection(A, T)
  BY <1>3, <1>5 DEF Injection
<1>7. IsFiniteSet(1..L) /\ Cardinality(1..L) = L
  BY FS_Interval
<1> HIDE DEF A
<1>8. IsFiniteSet(T) /\ Cardinality(T) = Cardinality(Streams) * L
  BY <1>7, FS_Product
<1> HIDE DEF T
<1>9. Cardinality(A) <= Cardinality(T)
  BY <1>6, <1>8, FS_Injection
<1> QED
  BY <1>8, <1>9 DEF Total, Count, A, l

(* What is in use never exceeds d, no stream SENDME is sent under          *)
(* congestion control, and the other cells are those of OtherCells.        *)
Fits(d) ==
  Open => \A e \in Ends :
    /\ ccontrol => edge[e].inflight <= d
    /\ ccontrol => \A s \in Streams : Total(Pipe(e), Kind("SENDME", s)) = 0
    /\ Total(Pipe(e), Others) + others[e] <= OtherCells[e]

LEMMA InitFits ==
  ASSUME Init, NEW d \in Nat
  PROVE  Fits(d)
<1> SUFFICES ASSUME NEW e \in Ends
             PROVE  /\ edge[e].inflight <= d
                    /\ \A s \in Streams : Total(Pipe(e), Kind("SENDME", s)) = 0
                    /\ Total(Pipe(e), Others) + others[e] <= OtherCells[e]
  BY DEF Fits
<1>1. PICK w \in Cwnds : edge = [f \in Ends |-> NewEdge(f, w)]
  BY DEF Init
<1>2. edge[e].inflight = 0
  BY <1>1 DEF NewEdge
<1>3. \A S : Total(Pipe(e), S) = 0
  BY InitPipes
<1>4. others[e] = OtherCells[e] /\ OtherCells[e] \in Nat
  BY SendmeAssumption DEF Init
<1> QED
  BY <1>2, <1>3, <1>4

LEMMA StaysBelow ==
  ASSUME NEW a \in Int, NEW w \in Nat, NEW one \in {0, 1}, NEW worth \in Nat, NEW d \in Nat,
         w <= d, a <= d, one = 1 => a < w
  PROVE  a + one - worth <= d
OBVIOUS

LEMMA StepKeepsFits ==
  ASSUME Types, Credit, NEW d \in Nat, \A w \in Cwnds : w <= d, Fits(d),
         NEW e \in Ends, Happens(e)
  PROVE  Fits(d)'
<1> DEFINE f == Peer(e)
           x == edge[e]
           z == edge'[e]
<1>1. f \in Ends /\ f # e /\ Peer(f) = e /\ Ends = {e, f}
  BY Peers
<1>2. /\ Open /\ ccontrol' = ccontrol /\ edge'[f] = edge[f] /\ others'[f] = others[f]
      /\ others' \in [Ends -> Nat]
  BY DEF Happens
<1>3. Sound(ccontrol, e, x) /\ ccontrol \in BOOLEAN /\ others \in [Ends -> Nat]
  BY DEF Types
<1>4. /\ \A g \in Ends : /\ ccontrol => edge[g].inflight <= d
                         /\ ccontrol => \A s \in Streams : Total(Pipe(g), Kind("SENDME", s)) = 0
                         /\ Total(Pipe(g), Others) + others[g] <= OtherCells[g]
  BY <1>2 DEF Fits
<1>5. ASSUME Open'
      PROVE  \A g \in Ends :
               /\ ccontrol => edge'[g].inflight <= d
               /\ ccontrol => \A s \in Streams : Total(Pipe(g)', Kind("SENDME", s)) = 0
               /\ Total(Pipe(g)', Others) + others'[g] <= OtherCells[g]
  <2>1. PICK r \in Cells \cup {NoCell} :
          /\ Leaves(r, Pipe(f), Pipe(f)')
          /\ IF z.closed THEN Refuses(ccontrol, e, x, r)
             ELSE \E c \in Cells \cup {NoCell} : Sends(e, c, r)
    BY DEF Happens
  <2>2. ~z.closed
    BY <1>5 DEF Open
  <2>3. PICK c \in Cells \cup {NoCell} : Sends(e, c, r)
    BY <2>1, <2>2
  <2>4. Pipe(e) \in Seq(Cells) /\ Pipe(f) \in Seq(Cells)
    BY <1>1, PipeType
  <2>5. ccontrol => z.inflight <= d
    <3> SUFFICES ASSUME ccontrol PROVE z.inflight <= d
      OBVIOUS
    <3>1. z.inflight = x.inflight + One(c, DataCells) - Worth(r, Sendmes, Inc(ccontrol))
      BY <2>3 DEF Sends, Credits
    <3>2. c \in DataCells => ~Full(ccontrol, x)
      BY <2>3 DEF Sends, Remembers
    <3>3. x.inflight \in Int /\ x.cwnd \in Nat /\ x.cwnd <= d /\ x.inflight <= d
      BY <1>3, <1>4, Constants DEF Sound, IsEdge
    <3>4. Inc(ccontrol) \in Nat
      BY Constants
    <3>5. Worth(r, Sendmes, Inc(ccontrol)) \in Nat
      BY <3>4 DEF Worth
    <3>6. One(c, DataCells) \in {0, 1} /\ (One(c, DataCells) = 1 => x.inflight < x.cwnd)
      <4>1. c \in DataCells => x.inflight < x.cwnd
        BY <3>2, <3>3 DEF Full
      <4> QED
        BY <4>1 DEF One
    <3> DEFINE one == One(c, DataCells)
               worth == Worth(r, Sendmes, Inc(ccontrol))
               a == x.inflight
               w == x.cwnd
    <3>7. a \in Int /\ w \in Nat /\ one \in {0, 1} /\ worth \in Nat /\ w <= d /\ a <= d
          /\ (one = 1 => a < w)
      BY <3>3, <3>5, <3>6
    <3> HIDE DEF one, worth, a, w
    <3>8. a + one - worth <= d
      BY <3>7, StaysBelow
    <3> QED
      BY <3>1, <3>8 DEF one, worth, a
  <2>6. Pipe(e)' = Joined(Pipe(e), c)
    BY <2>3 DEF Sends
  <2>7. ASSUME ccontrol, NEW s \in Streams
        PROVE  Total(Pipe(e)', Kind("SENDME", s)) = 0 /\ Total(Pipe(f)', Kind("SENDME", s)) = 0
    <3>1. c \notin Kind("SENDME", s)
      BY <2>3, <2>7 DEF Sends, Remembers
    <3>2. Total(Pipe(e)', Kind("SENDME", s)) = Total(Pipe(e), Kind("SENDME", s)) + 0
      BY <2>4, <2>6, <3>1, JoinedTotal, KindsAreCells DEF One
    <3>3. /\ Total(Pipe(f), Kind("SENDME", s)) = Total(Pipe(f)', Kind("SENDME", s))
                                                   + One(r, Kind("SENDME", s))
          /\ Total(Pipe(f)', Kind("SENDME", s)) \in Nat
      BY <2>1, <2>4, LeavesTotal, KindsAreCells
    <3>4. Total(Pipe(e), Kind("SENDME", s)) = 0 /\ Total(Pipe(f), Kind("SENDME", s)) = 0
      BY <1>1, <1>4, <2>7
    <3>5. One(r, Kind("SENDME", s)) \in Nat
      BY DEF One
    <3> QED
      BY <3>2, <3>3, <3>4, <3>5
  <2>8. Total(Pipe(e)', Others) + others'[e] <= OtherCells[e]
    <3>1. others'[e] = others[e] - One(c, Others)
      BY <2>3 DEF Sends
    <3>2. /\ Total(Pipe(e)', Others) = Total(Pipe(e), Others) + One(c, Others)
          /\ Total(Pipe(e), Others) \in Nat
      <4>1. /\ Total(Joined(Pipe(e), c), Others) = Total(Pipe(e), Others) + One(c, Others)
            /\ Total(Pipe(e), Others) \in Nat
        BY <2>4, JoinedTotal, KindsAreCells, ZenonT(60)
      <4> QED
        BY <2>6, <4>1
    <3>3. One(c, Others) \in Nat
      BY DEF One
    <3>4. others[e] \in Nat /\ Total(Pipe(e), Others) + others[e] <= OtherCells[e]
      BY <1>3, <1>4
    <3> QED
      <4> DEFINE t == Total(Pipe(e), Others)
                 one == One(c, Others)
                 k == others[e]
                 m == OtherCells[e]
      <4>1. /\ t \in Nat /\ one \in Nat /\ k \in Nat /\ t + k <= m
            /\ Total(Pipe(e)', Others) = t + one /\ others'[e] = k - one
        BY <3>1, <3>2, <3>3, <3>4
      <4> HIDE DEF t, one, k, m
      <4>2. (t + one) + (k - one) = t + k
        BY <4>1
      <4> QED
        BY <4>1, <4>2 DEF m
  <2>9. Total(Pipe(f)', Others) + others'[f] <= OtherCells[f]
    <3>1. /\ Total(Pipe(f), Others) = Total(Pipe(f)', Others) + One(r, Others)
          /\ Total(Pipe(f)', Others) \in Nat
      BY <2>1, <2>4, LeavesTotal, KindsAreCells
    <3>2. One(r, Others) \in Nat
      BY DEF One
    <3>3. /\ others[f] \in Nat /\ Total(Pipe(f), Others) + others[f] <= OtherCells[f]
          /\ OtherCells[f] \in Nat
      BY <1>1, <1>3, <1>4, SendmeAssumption
    <3> QED
      BY <1>2, <3>1, <3>2, <3>3
  <2>10. ccontrol => edge'[f].inflight <= d
    BY <1>1, <1>2, <1>4
  <2> QED
    BY <1>1, <2>5, <2>7, <2>8, <2>9, <2>10
<1> QED
  BY <1>2, <1>5 DEF Fits

LEMMA QuotientBound ==
  ASSUME NEW n \in Nat, n > 0, NEW a \in Nat, NEW b \in Nat, a * n <= b
  PROVE  b \div n \in Nat /\ a <= b \div n
<1>1. 0 + a * n = a * n /\ a * n \in Nat /\ 0 \in 0..(n - 1)
  OBVIOUS
<1>2. (0 + a * n) \div n = (0 \div n) + a /\ 0 \div n = 0
  BY <1>1, DivideMore, DivideSmall
<1>3. (a * n) \div n = a
  BY <1>1, <1>2
<1>4. (b \div n) \in Nat /\ ((a * n) \div n) <= (b \div n)
  BY <1>1, DivideGrows
<1> QED
  BY <1>3, <1>4

(* A window of d bounds the DATA cells and SENDMEs on their way.           *)
LEMMA WindowBounds ==
  ASSUME NEW cc \in BOOLEAN, NEW e, NEW f, NEW x, NEW y, Sound(cc, e, x), Sound(cc, f, y),
         NEW out \in Seq(Cells), NEW back \in Seq(Cells), Balanced(cc, x, y, out, back),
         NEW d \in Nat, circwindow <= d, cc => x.inflight <= d
  PROVE  /\ Total(out, DataCells) <= d /\ Total(back, Sendmes) <= d \div Inc(cc)
         /\ Total(out, DataCells) \in Nat /\ Total(back, Sendmes) \in Nat
         /\ d \div Inc(cc) \in Nat
<1> DEFINE n == Inc(cc)
           t == Total(out, DataCells)
           u == CIRCWINDOW_START - y.deliver_window
           K == Total(back, Sendmes)
           kn == K * n
           a == Used(cc, y, out, back)
<1>1. u \in Nat /\ n \in Nat /\ n > 0
  BY LinkTypes
<1>2. t \in Nat /\ K \in Nat
  BY TotalIsNat
<1>3. a = t + u + kn
  BY DEF Used
<1> HIDE DEF a, n, t, u, K
<1>4. kn \in Nat
  BY <1>1, <1>2
<1>5. a <= d
  <2>1. CASE cc
    BY <2>1 DEF Balanced, a
  <2>2. CASE ~cc
    <3>1. x.package_window = circwindow - a /\ x.package_window >= 0
      BY <2>2 DEF Balanced, a, Sound, EdgeTypeOK
    <3>2. circwindow \in Nat
      BY Constants
    <3> HIDE DEF kn
    <3>3. a \in Int
      BY <1>1, <1>2, <1>3, <1>4
    <3> QED
      BY <3>1, <3>2, <3>3
  <2> QED
    BY <2>1, <2>2
<1>6. t <= d /\ kn <= d
  <2> HIDE DEF kn
  <2> QED
    BY <1>1, <1>2, <1>3, <1>4, <1>5
<1>7. d \div n \in Nat /\ K <= d \div n
  BY <1>1, <1>2, <1>6, QuotientBound
<1> QED
  BY <1>2, <1>6, <1>7 DEF t, K, n

(* A stream's window bounds the SENDMEs on their way for it.               *)
LEMMA StreamBounds ==
  ASSUME NEW cc \in BOOLEAN, NEW e, NEW f, NEW x, NEW y, Sound(cc, e, x), Sound(cc, f, y),
         NEW out \in Seq(Cells), NEW back \in Seq(Cells), Balanced(cc, x, y, out, back),
         NEW s \in Streams
  PROVE  LET b == Total(back, Kind("SENDME", s)) IN
         /\ b \in Nat /\ b * STREAMWINDOW_INCREMENT \in Nat
         /\ x.stream_package[s] + b * STREAMWINDOW_INCREMENT <= STREAMWINDOW_START
         /\ b * STREAMWINDOW_INCREMENT <= STREAMWINDOW_START
<1> DEFINE k == STREAMWINDOW_INCREMENT
           b == Total(back, Kind("SENDME", s))
           bk == b * k
           t == IF cc THEN 0 ELSE Total(out, Kind("DATA", s))
<1>1. b \in Nat /\ Total(out, Kind("DATA", s)) \in Nat /\ k \in Nat
  BY TotalIsNat, Constants
<1>2. t \in Nat
  BY <1>1
<1>3. x.stream_package[s] = y.stream_deliver[s] - t - bk
  BY DEF Balanced
<1> HIDE DEF b, k, t
<1>4. bk \in Nat
  BY <1>1
<1>5. x.stream_package[s] \in 0..STREAMWINDOW_START /\ y.stream_deliver[s] \in 0..STREAMWINDOW_START
      /\ STREAMWINDOW_START \in Nat
  BY Constants DEF Sound, EdgeTypeOK
<1> HIDE DEF bk
<1>6. x.stream_package[s] + bk <= STREAMWINDOW_START /\ bk <= STREAMWINDOW_START
  BY <1>2, <1>3, <1>4, <1>5, SMTT(40)
<1> QED
  BY <1>1, <1>4, <1>6 DEF bk, b, k

(* A SENDME is accepted: its version, and its digest.                      *)
LEMMA SendmeIsAccepted ==
  ASSUME VersionsAgree, NEW cc \in BOOLEAN, NEW e \in Ends, NEW x, NEW y,
         Sound(cc, e, x), Sound(cc, Peer(e), y),
         NEW out \in Seq(Cells), NEW back \in Seq(Cells), back # << >>, Head(back) \in Sendmes,
         Linked(cc, e, x, y, out, back, emit_min_version[Peer(e)] = 1)
  PROVE  sendme_is_valid(e, x, Head(back))
<1> DEFINE ld == x.last_digests
           K == Total(back, Sendmes)
           v == emit_min_version[Peer(e)] = 1
           c == Head(back)
<1>1. /\ ld \in Seq(Digests) /\ Inc(cc) \in Nat /\ Inc(cc) > 0
      /\ CIRCWINDOW_START - y.deliver_window \in Nat
  BY LinkTypes
<1>2. K \in Nat /\ K >= 1
  BY HeadCounts, KindsAreCells
<1>3. Recorded(e, ld, K, CIRCWINDOW_START - y.deliver_window, Inc(cc), y.received, out)
      /\ Matched(ld, back, v)
  BY DEF Linked
<1> HIDE DEF ld, K
<1>4. K <= Len(ld)
  BY <1>1, <1>2, <1>3, RecordCovers
<1>5. ld # << >> /\ ld[1] = Head(ld) /\ Head(ld) \in Digests
  BY <1>1, <1>2, <1>4
<1>6. 1 \in 1..Len(back) /\ back[1] = c /\ back[1] \in Sendmes
  OBVIOUS
<1>7. Count(back, 1, Sendmes) = 1
  <2>1. Count(back, 0 + 1, Sendmes) = Count(back, 0, Sendmes) + (IF back[0 + 1] \in Sendmes THEN 1 ELSE 0)
    BY CountNext
  <2>2. Count(back, 0, Sendmes) \in Nat /\ Count(back, 0, Sendmes) <= 0
    BY CountIsNat
  <2>3. 0 + 1 = 1
    OBVIOUS
  <2> QED
    BY <1>6, <2>1, <2>2, <2>3
<1>8. c.digest = IF v THEN Head(ld) ELSE << >>
  BY <1>3, <1>5, <1>6, <1>7 DEF Matched
<1>9. Head(ld) # << >>
  <2>1. PICK g \in Ends, k \in Nat : Head(ld) = <<g, k>>
    BY <1>5 DEF Digests
  <2>2. <<g, k>> # << >>
    <3>1. Len(<<g, k>>) = 2
      OBVIOUS
    <3>2. Len(<< >>) = 0 /\ 2 # 0
      OBVIOUS
    <3> SUFFICES ASSUME <<g, k>> = << >> PROVE FALSE
      OBVIOUS
    <3>3. Len(<<g, k>>) = Len(<< >>)
      OBVIOUS
    <3> QED
      BY <3>1, <3>2, <3>3
  <2> QED
    BY <2>1, <2>2
<1>10. /\ accept_min_version[e] <= 1 /\ accept_min_version[e] \in Nat
       /\ v \/ accept_min_version[e] = 0
  BY SendmeAssumption DEF VersionsAgree, SENDME_MAX_SUPPORTED_VERSION
<1> HIDE DEF v, c
<1>11. CASE v
  <2>1. c.digest = Head(ld) /\ c.digest # << >>
    BY <1>8, <1>9, <1>11
  <2>2. cell_version_can_be_handled(e, 1)
    BY <1>10 DEF cell_version_can_be_handled, SENDME_MAX_SUPPORTED_VERSION
  <2> QED
    BY <1>5, <2>1, <2>2 DEF sendme_is_valid, c, ld
<1>12. CASE ~v
  <2>1. c.digest = << >>
    BY <1>8, <1>12
  <2>2. cell_version_can_be_handled(e, 0)
    BY <1>10, <1>12 DEF cell_version_can_be_handled, SENDME_MAX_SUPPORTED_VERSION
  <2> QED
    BY <1>5, <2>1, <2>2 DEF sendme_is_valid, c, ld
<1> QED
  BY <1>11, <1>12

(* A bound on the cells an edge may have on their way.                     *)
Room(cc, e, d) ==
  d + d \div Inc(cc)
    + Cardinality(Streams) * (STREAMWINDOW_START \div STREAMWINDOW_INCREMENT) + OtherCells[e]

LEMMA QueueHasRoom ==
  ASSUME Types, Credit, NEW d \in Nat, Fits(d), circwindow <= d, Open, NEW e \in Ends
  PROVE  Len(edge[e].queue) <= Room(ccontrol, e, d)
<1> DEFINE f == Peer(e)
           x == edge[e]
           y == edge[f]
           q == Pipe(e)
           n == Inc(ccontrol)
           L == STREAMWINDOW_START \div STREAMWINDOW_INCREMENT
           C == Cardinality(Streams)
<1>1. f \in Ends /\ Peer(f) = e
  BY Peers
<1>2. Sound(ccontrol, e, x) /\ Sound(ccontrol, f, y) /\ ccontrol \in BOOLEAN
  BY <1>1 DEF Types
<1>3. q \in Seq(Cells) /\ Pipe(f) \in Seq(Cells)
  BY <1>1, PipeType
<1>4. Balanced(ccontrol, x, y, q, Pipe(f)) /\ Balanced(ccontrol, y, x, Pipe(f), q)
  BY <1>1 DEF Credit
<1>5. /\ (ccontrol => x.inflight <= d) /\ (ccontrol => y.inflight <= d)
      /\ (ccontrol => \A s \in Streams : Total(q, Kind("SENDME", s)) = 0)
      /\ Total(q, Others) + others[e] <= OtherCells[e]
  BY <1>1 DEF Fits
<1>6. others[e] \in Nat /\ OtherCells[e] \in Nat /\ IsFiniteSet(Streams)
  BY SendmeAssumption DEF Types
<1>7. Len(x.queue) <= Len(q)
  <2>1. wire[e] \in Seq(Cells) /\ x.queue \in Seq(Cells)
    BY <1>2 DEF Types, Sound, IsEdge
  <2> HIDE DEF x
  <2>2. Len(wire[e] \o x.queue) = Len(wire[e]) + Len(x.queue) /\ Len(wire[e]) \in Nat
        /\ Len(x.queue) \in Nat
    BY <2>1
  <2>3. q = wire[e] \o x.queue
    BY DEF Pipe, x
  <2> DEFINE a == Len(wire[e])
             b == Len(x.queue)
  <2>4. Len(q) = a + b
    BY <2>2, <2>3
  <2>5. a \in Nat /\ b \in Nat
    BY <2>2
  <2> HIDE DEF q, a, b
  <2>6. b <= Len(q)
    BY <2>4, <2>5
  <2> QED
    BY <2>6 DEF b
<1>8. STREAMWINDOW_INCREMENT \in Nat /\ STREAMWINDOW_INCREMENT > 0 /\ STREAMWINDOW_START \in Nat
  BY Constants
<1> HIDE DEF x, y, q, f
<1>9. Total(q, DataCells) <= d /\ Total(q, DataCells) \in Nat
  BY <1>2, <1>3, <1>4, <1>5, WindowBounds
<1>10. Total(q, Sendmes) <= d \div n /\ Total(q, Sendmes) \in Nat /\ d \div n \in Nat
  BY <1>2, <1>3, <1>4, <1>5, WindowBounds
<1>11. L \in Nat
  BY <1>8, Division
<1>12. ASSUME NEW s \in Streams PROVE Total(q, Kind("SENDME", s)) <= L
  <2> DEFINE b == Total(q, Kind("SENDME", s))
  <2>1. b \in Nat /\ b * STREAMWINDOW_INCREMENT <= STREAMWINDOW_START
    BY <1>2, <1>3, <1>4, StreamBounds
  <2> HIDE DEF b
  <2>2. b <= L
    BY <1>8, <2>1, QuotientBound
  <2> QED
    BY <2>2 DEF b
<1> HIDE DEF L
<1>13. Total(q, StreamSendmes) <= C * L
  BY <1>3, <1>6, <1>11, <1>12, StreamSendmesBound
<1>14. Total(q, StreamSendmes) \in Nat /\ Total(q, Others) \in Nat /\ C \in Nat
  BY <1>3, <1>6, TotalIsNat, FS_CardinalityType
<1> HIDE DEF C
<1>15. Total(q, Others) <= OtherCells[e]
  BY <1>5, <1>6, <1>14
<1>16. Len(q) = Total(q, DataCells) + Total(q, Sendmes) + Total(q, StreamSendmes)
                  + Total(q, Others)
  BY <1>3, PipeParts
<1> DEFINE cl == C * L
           dn == d \div n
<1>17. cl \in Nat /\ Total(q, StreamSendmes) <= cl /\ dn \in Nat /\ Total(q, Sendmes) <= dn
  BY <1>10, <1>11, <1>13, <1>14
<1>18. Room(ccontrol, e, d) = d + dn + cl + OtherCells[e]
  BY DEF Room, C, L
<1> HIDE DEF cl, dn
<1>19. Len(q) <= d + dn + cl + OtherCells[e]
  BY <1>6, <1>9, <1>10, <1>14, <1>15, <1>16, <1>17, SMTT(40)
<1>20. Len(x.queue) \in Nat /\ Len(q) \in Nat
  BY <1>2, <1>3, SMTT(40) DEF Sound, IsEdge
<1>21. d + dn + cl + OtherCells[e] \in Nat
  BY <1>6, <1>17
<1> QED
  BY <1>7, <1>18, <1>19, <1>20, <1>21 DEF x

(* Nothing is refused.                                                     *)
LEMMA NothingIsRefused ==
  ASSUME VersionsAgree, Types, Credit, Links, NEW d \in Nat, Fits(d), circwindow <= d,
         \A e \in Ends, cc \in BOOLEAN : Room(cc, e, d) < max_circuit_cell_queue_size,
         Open, NEW e \in Ends, NEW r, NEW p, Leaves(r, Pipe(Peer(e)), p),
         Refuses(ccontrol, e, edge[e], r)
  PROVE  FALSE
<1> DEFINE f == Peer(e)
           x == edge[e]
           y == edge[f]
           out == Pipe(e)
           back == Pipe(f)
           m == max_circuit_cell_queue_size
<1>1. f \in Ends /\ Peer(f) = e
  BY Peers
<1>2. Sound(ccontrol, e, x) /\ Sound(ccontrol, f, y) /\ ccontrol \in BOOLEAN
  BY <1>1 DEF Types
<1>3. out \in Seq(Cells) /\ back \in Seq(Cells)
  BY <1>1, PipeType
<1>4. /\ Balanced(ccontrol, x, y, out, back)
      /\ Linked(ccontrol, e, x, y, out, back, emit_min_version[Peer(e)] = 1)
  BY DEF Credit, Links
<1>5. ccontrol => \A s \in Streams : Total(back, Kind("SENDME", s)) = 0
  BY <1>1 DEF Fits
<1>6. r # NoCell => back # << >> /\ r = Head(back)
  BY DEF Leaves
<1>7. ~(Len(x.queue) >= m)
  <2>1. Len(x.queue) <= Room(ccontrol, e, d) /\ Room(ccontrol, e, d) < m
    BY <1>2, QueueHasRoom
  <2>2. Len(x.queue) \in Nat /\ m \in Nat
    BY <1>2, Constants DEF Sound, IsEdge
  <2>3. Room(ccontrol, e, d) \in Int
    <3>1. Inc(ccontrol) \in Nat /\ Inc(ccontrol) > 0 /\ STREAMWINDOW_START \in Nat
          /\ STREAMWINDOW_INCREMENT \in Nat /\ STREAMWINDOW_INCREMENT > 0
      BY <1>2, Constants
    <3>2. d \div Inc(ccontrol) \in Nat /\ STREAMWINDOW_START \div STREAMWINDOW_INCREMENT \in Nat
      BY <3>1, Division
    <3>3. Cardinality(Streams) \in Nat /\ OtherCells[e] \in Nat
      BY SendmeAssumption, FS_CardinalityType
    <3> DEFINE dn == d \div Inc(ccontrol)
               L == STREAMWINDOW_START \div STREAMWINDOW_INCREMENT
    <3> HIDE DEF dn, L
    <3> QED
      BY <3>2, <3>3 DEF Room, dn, L
  <2> HIDE DEF x, m
  <2> QED
    BY <2>1, <2>2, <2>3
<1> HIDE DEF x, y, out, back, f
<1>8. ~(r \in Sendmes /\ ~sendme_is_valid(e, x, r))
  <2> SUFFICES ASSUME r \in Sendmes PROVE sendme_is_valid(e, x, r)
    OBVIOUS
  <2>1. back # << >> /\ r = Head(back)
    BY <1>6, NoCellIsNone
  <2> QED
    BY <1>2, <1>3, <1>4, <2>1, SendmeIsAccepted DEF f
<1>9. ~(r \in Sendmes /\ ~ccontrol /\ x.package_window + CIRCWINDOW_INCREMENT > CIRCWINDOW_START)
  <2> SUFFICES ASSUME r \in Sendmes, ~ccontrol
               PROVE  ~(x.package_window + CIRCWINDOW_INCREMENT > CIRCWINDOW_START)
    OBVIOUS
  <2> DEFINE t == Total(out, DataCells)
             u == CIRCWINDOW_START - y.deliver_window
             K == Total(back, Sendmes)
             n == CIRCWINDOW_INCREMENT
             kn == K * n
  <2>1. back # << >> /\ r = Head(back)
    BY <1>6, NoCellIsNone
  <2>2. K \in Nat /\ K >= 1
    BY <1>3, <2>1, HeadCounts, KindsAreCells
  <2>3. t \in Nat /\ u \in Nat
    BY <1>2, <1>3, TotalIsNat, LinkTypes
  <2>4. x.package_window = circwindow - (t + u + kn)
    BY <1>4 DEF Balanced, Used, Inc
  <2>5. circwindow \in Nat /\ circwindow <= CIRCWINDOW_START /\ CIRCWINDOW_START \in Nat /\ n \in Nat
    BY Constants
  <2> HIDE DEF t, u, K
  <2>6. kn \in Nat /\ kn >= n
    BY <2>2, <2>5, AtLeastOnce
  <2> HIDE DEF kn
  <2> QED
    BY <2>3, <2>4, <2>5, <2>6
<1>10. ASSUME NEW s \in Streams, r \in Kind("SENDME", s)
       PROVE  ~(ccontrol \/ x.stream_package[s] + STREAMWINDOW_INCREMENT > STREAMWINDOW_START)
  <2> DEFINE b == Total(back, Kind("SENDME", s))
             k == STREAMWINDOW_INCREMENT
  <2>1. back # << >> /\ r = Head(back)
    BY <1>6, <1>10, NoCellIsNone
  <2>2. b \in Nat /\ b >= 1
    BY <1>3, <1>10, <2>1, HeadCounts, KindsAreCells
  <2>3. ~ccontrol
    BY <1>5, <2>2
  <2>4. b * k \in Nat /\ x.stream_package[s] + b * k <= STREAMWINDOW_START
    BY <1>2, <1>3, <1>4, StreamBounds
  <2>5. k \in Nat /\ STREAMWINDOW_START \in Nat /\ x.stream_package[s] \in Int
    BY <1>2, Constants DEF Sound, IsEdge
  <2> HIDE DEF b
  <2>6. b * k >= k
    BY <2>2, <2>5, AtLeastOnce
  <2> DEFINE bk == b * k
  <2>7. bk \in Nat /\ bk >= k /\ x.stream_package[s] + bk <= STREAMWINDOW_START
    BY <2>4, <2>6
  <2> HIDE DEF bk
  <2>8. ~(x.stream_package[s] + k > STREAMWINDOW_START)
    BY <2>5, <2>7
  <2> QED
    BY <2>3, <2>8
<1> QED
  BY <1>7, <1>8, <1>9, <1>10 DEF Refuses, x

(* Two edges that run this code never close the circuit on each other,     *)
(* whatever they send and however their steps interleave: every SENDME has *)
(* a version and a digest its receiver accepts (sendme_is_valid), every    *)
(* window check of sendme.c holds, and no cell queue reaches its maximum   *)
(* (append_cell_to_circuit_queue).  It takes windows that are in step,     *)
(* versions that agree and a queue with room for what the windows allow.   *)
THEOREM HonestCircuitsStayOpen ==
  (InStep /\ VersionsAgree /\ QueueSuffices) => (Spec => []HonestCircuitStaysOpen)
<1> SUFFICES ASSUME InStep, VersionsAgree, QueueSuffices
             PROVE  Spec => []HonestCircuitStaysOpen
  OBVIOUS
<1>1. PICK d \in Cwnds \cup {circwindow} :
        /\ \A w \in Cwnds \cup {circwindow} : w <= d
        /\ \A e \in Ends, n \in {CIRCWINDOW_INCREMENT, cc_sendme_inc} :
             d + d \div n
               + Cardinality(Streams) * (STREAMWINDOW_START \div STREAMWINDOW_INCREMENT)
               + OtherCells[e] < max_circuit_cell_queue_size
  BY DEF QueueSuffices
<1>2. d \in Nat /\ (\A w \in Cwnds : w <= d) /\ circwindow <= d
  BY <1>1, Constants
<1>3. \A e \in Ends, cc \in BOOLEAN : Room(cc, e, d) < max_circuit_cell_queue_size
  BY <1>1 DEF Room, Inc
<1>4. Init => Open /\ Fits(d)
  <2>1. Init => Open
    <3> SUFFICES ASSUME Init PROVE Open
      OBVIOUS
    <3>1. PICK w \in Cwnds : edge = [f \in Ends |-> NewEdge(f, w)]
      BY DEF Init
    <3> QED
      BY <3>1 DEF Open, NewEdge
  <2> QED
    BY <1>2, <2>1, InitFits
<1>5. (Types /\ Credit) /\ Links /\ (Open /\ Fits(d)) /\ [Next]_vars => (Open /\ Fits(d))'
  <2> SUFFICES ASSUME Types, Credit, Links, Open, Fits(d), [Next]_vars
               PROVE  Open' /\ Fits(d)'
    OBVIOUS
  <2>1. CASE Next
    <3>1. PICK e \in Ends : Happens(e)
      BY <2>1, EveryStep
    <3>2. Fits(d)'
      BY <1>2, <3>1, StepKeepsFits
    <3>3. ~edge'[e].closed
      <4> SUFFICES ASSUME edge'[e].closed PROVE FALSE
        OBVIOUS
      <4>1. PICK r \in Cells \cup {NoCell} :
              /\ Leaves(r, Pipe(Peer(e)), Pipe(Peer(e))')
              /\ Refuses(ccontrol, e, edge[e], r)
        BY <3>1 DEF Happens
      <4> QED
        BY <1>2, <1>3, <4>1, NothingIsRefused
    <3>4. edge'[Peer(e)] = edge[Peer(e)] /\ ~edge[Peer(e)].closed /\ Ends = {e, Peer(e)}
      BY <3>1, Peers DEF Happens, Open
    <3> QED
      BY <3>2, <3>3, <3>4 DEF Open
  <2>2. CASE UNCHANGED vars
    BY <2>2 DEF vars, Fits, Open, Pipe
  <2> QED
    BY <2>1, <2>2
<1>6. Open => HonestCircuitStaysOpen
  BY DEF HonestCircuitStaysOpen
<1> QED
  BY <1>4, <1>5, <1>6, CreditHolds, LinksHold, PTL DEF Spec
=============================================================================
