-------------------------- MODULE CpuWorkerProofs --------------------------
(***************************************************************************)
(* Proofs about CpuWorker: the links between circuits, jobs and onion      *)
(* queues, the counters and the turns of tap and ntor, for any numbers of  *)
(* circuits, channels and jobs and any values of the parameters.           *)
(***************************************************************************)
EXTENDS CpuWorker, SequenceLemmas, FiniteSetTheorems

(* The circuits on an onion queue, and that none is on it twice.           *)
Entry == [circ : Circuits, when_added : 0..MaxTime]
Circs(q) == {q[i].circ : i \in DOMAIN q}
Distinct(q) == \A i, k \in DOMAIN q : q[i].circ = q[k].circ => i = k

(* The inductive invariant, by what the parts depend on.                   *)
JobLinks ==
  /\ \A j \in Work : Out(j) => /\ job_circ[j] \in Circuits
                               /\ magic[job_circ[j]] # "free"
  /\ \A c \in Alloc, j \in Work :
       workqueue_entry[c] = j <=> Out(j) /\ job_circ[j] = c
  /\ DeadIsAwaited

QueueLinks ==
  /\ \A t \in Types : Circs(ol_list[t]) \subseteq Alloc /\ Distinct(ol_list[t])
  /\ \A c \in Alloc, t \in Types :
       onionqueue_entry[c] = t <=> c \in Circs(ol_list[t])

(* Beyond the properties of CpuWorker: what is not allocated has no links, *)
(* a circuit without a channel is marked, and one with a job or a queue    *)
(* entry is in the state in which circuit_about_to_free looks for them.    *)
CircuitLinks ==
  /\ \A c \in Circuits : c \notin Alloc =>
       workqueue_entry[c] = NULL /\ onionqueue_entry[c] = NULL
  /\ \A c \in Alloc :
       /\ workqueue_entry[c] = NULL \/ onionqueue_entry[c] = NULL
       /\ p_chan[c] = NULL => marked_for_close[c]
       /\ workqueue_entry[c] # NULL \/ onionqueue_entry[c] # NULL =>
            circ_state[c] = "onionskin_pending"
  /\ NoForgottenHandshake

JobCount ==
  /\ total_pending_tasks = Cardinality({j \in Work : Out(j)})
  /\ total_pending_tasks <= max_pending_tasks

QueueCount == \A t \in Types : ol_entries[t] = Len(ol_list[t])

TurnsCounted ==
  /\ passed_over <= recently_chosen_ntors
  /\ passed_over <= num_ntors_per_tap

CpuInv == /\ CpuTypeOK /\ JobLinks /\ QueueLinks /\ CircuitLinks
          /\ JobCount /\ QueueCount /\ TurnsCounted
-----------------------------------------------------------------------------
(* What the operations on an onion queue do to the circuits on it.         *)
LEMMA AppendCircs ==
  ASSUME NEW q \in Seq(Entry), NEW e \in Entry, Distinct(q), e.circ \notin Circs(q)
  PROVE  /\ Append(q, e) \in Seq(Entry)
         /\ Circs(Append(q, e)) = Circs(q) \cup {e.circ}
         /\ Distinct(Append(q, e))
         /\ Len(Append(q, e)) = Len(q) + 1
<1>1. /\ Append(q, e) \in Seq(Entry)
      /\ Len(q) + 1 \in DOMAIN Append(q, e)
      /\ Append(q, e)[Len(q) + 1] = e
      /\ \A i \in DOMAIN q : i \in DOMAIN Append(q, e) /\ Append(q, e)[i] = q[i]
      /\ \A i \in DOMAIN Append(q, e) : i = Len(q) + 1 \/ i \in DOMAIN q
  BY AppendIndex
<1>2. Circs(Append(q, e)) = Circs(q) \cup {e.circ}
  BY <1>1 DEF Circs
<1>3. Distinct(Append(q, e))
  BY <1>1 DEF Distinct, Circs
<1>4. Len(Append(q, e)) = Len(q) + 1
  OBVIOUS
<1> QED
  BY <1>1, <1>2, <1>3, <1>4

LEMMA DropCircs ==
  ASSUME NEW q \in Seq(Entry), NEW n \in 0..Len(q), Distinct(q)
  PROVE  LET r == SubSeq(q, n + 1, Len(q)) IN
         /\ r \in Seq(Entry) /\ Len(r) = Len(q) - n
         /\ Circs(r) = Circs(q) \ {q[i].circ : i \in 1..n}
         /\ Distinct(r)
<1> DEFINE r == SubSeq(q, n + 1, Len(q))
<1>1. /\ r \in Seq(Entry) /\ Len(r) = Len(q) - n
      /\ \A i \in DOMAIN r : i + n \in DOMAIN q /\ i + n > n /\ r[i] = q[i + n]
      /\ \A k \in DOMAIN q : k > n => k - n \in DOMAIN r /\ r[k - n] = q[k]
  BY DropIndex
<1>2. DOMAIN q = 1..Len(q) /\ Len(q) \in Nat /\ DOMAIN r \subseteq Int
  BY <1>1, LenProperties
<1> HIDE DEF r
<1>3. Circs(r) \subseteq Circs(q) \ {q[i].circ : i \in 1..n}
  <2> SUFFICES ASSUME NEW k \in DOMAIN r
               PROVE  /\ r[k].circ \in Circs(q)
                      /\ \A i \in 1..n : q[i].circ # r[k].circ
    BY DEF Circs
  <2>1. k + n \in DOMAIN q /\ k + n > n /\ r[k] = q[k + n]
    BY <1>1
  <2>2. \A i \in 1..n : i \in DOMAIN q /\ i # k + n
    BY <1>2, <2>1
  <2> QED
    BY <2>1, <2>2 DEF Circs, Distinct
<1>4. ASSUME NEW c \in Circs(q), c \notin {q[i].circ : i \in 1..n}
      PROVE  c \in Circs(r)
  <2>1. PICK k \in DOMAIN q : q[k].circ = c
    BY DEF Circs
  <2>2. k > n
    BY <2>1, <1>2, <1>4
  <2> QED
    BY <2>1, <2>2, <1>1 DEF Circs
<1>5. Distinct(r)
  <2> SUFFICES ASSUME NEW i \in DOMAIN r, NEW k \in DOMAIN r, r[i].circ = r[k].circ
               PROVE  i = k
    BY DEF Distinct
  <2>1. i + n = k + n
    BY <1>1, SMTT(30) DEF Distinct
  <2> QED
    BY <2>1, <1>2
<1> QED
  BY <1>1, <1>3, <1>4, <1>5 DEF r

LEMMA TailCircs ==
  ASSUME NEW q \in Seq(Entry), Distinct(q), q # <<>>
  PROVE  /\ Tail(q) \in Seq(Entry) /\ Len(Tail(q)) = Len(q) - 1
         /\ Head(q).circ \in Circs(q)
         /\ Circs(Tail(q)) = Circs(q) \ {Head(q).circ}
         /\ Distinct(Tail(q))
<1>1. /\ Tail(q) \in Seq(Entry)
      /\ 1 \in DOMAIN q /\ q[1] = Head(q)
      /\ \A i \in DOMAIN Tail(q) :
           i + 1 \in DOMAIN q /\ i + 1 # 1 /\ Tail(q)[i] = q[i + 1]
      /\ \A k \in DOMAIN q : k # 1 =>
           k - 1 \in DOMAIN Tail(q) /\ Tail(q)[k - 1] = q[k]
  BY TailIndex
<1>2. DOMAIN Tail(q) \subseteq Int /\ Len(Tail(q)) = Len(q) - 1
  OBVIOUS
<1>3. Head(q).circ \in Circs(q)
  BY <1>1 DEF Circs
<1>4. Circs(Tail(q)) \subseteq Circs(q) \ {Head(q).circ}
  BY <1>1 DEF Circs, Distinct
<1>5. ASSUME NEW c \in Circs(q), c # Head(q).circ
      PROVE  c \in Circs(Tail(q))
  <2>1. PICK k \in DOMAIN q : q[k].circ = c
    BY DEF Circs
  <2>2. k - 1 \in DOMAIN Tail(q) /\ Tail(q)[k - 1] = q[k]
    BY <2>1, <1>1, <1>5
  <2> QED
    BY <2>1, <2>2 DEF Circs
<1>6. Distinct(Tail(q))
  <2> SUFFICES ASSUME NEW i \in DOMAIN Tail(q), NEW k \in DOMAIN Tail(q),
                      Tail(q)[i].circ = Tail(q)[k].circ
               PROVE  i = k
    BY DEF Distinct
  <2>1. i + 1 = k + 1
    BY <1>1 DEF Distinct
  <2> QED
    BY <2>1, <1>2
<1> QED
  BY <1>1, <1>2, <1>3, <1>4, <1>5, <1>6

LEMMA RemoveAtCircs ==
  ASSUME NEW q \in Seq(Entry), NEW m \in DOMAIN q, Distinct(q)
  PROVE  /\ RemoveAt(q, m) \in Seq(Entry) /\ Len(RemoveAt(q, m)) = Len(q) - 1
         /\ Circs(RemoveAt(q, m)) = Circs(q) \ {q[m].circ}
         /\ Distinct(RemoveAt(q, m))
<1> DEFINE r == RemoveAt(q, m)
<1>1. r \in Seq(Entry) /\ Len(r) = Len(q) - 1
  BY RemoveAtType
<1>2. /\ \A k \in DOMAIN r : \E i \in DOMAIN q :
           i # m /\ r[k] = q[i] /\ i = IF k < m THEN k ELSE k + 1
      /\ \A i \in DOMAIN q : i # m => \E k \in DOMAIN r : r[k] = q[i]
  BY RemoveAtIndex
<1>3. DOMAIN r \subseteq Int /\ m \in Int
  BY <1>1, LenProperties
<1> HIDE DEF r
<1>4. Circs(r) \subseteq Circs(q) \ {q[m].circ}
  BY <1>2 DEF Circs, Distinct
<1>5. Circs(q) \ {q[m].circ} \subseteq Circs(r)
  BY <1>2 DEF Circs
<1>6. Distinct(r)
  <2> SUFFICES ASSUME NEW i \in DOMAIN r, NEW k \in DOMAIN r, r[i].circ = r[k].circ
               PROVE  i = k
    BY DEF Distinct
  <2>1. (IF i < m THEN i ELSE i + 1) = (IF k < m THEN k ELSE k + 1)
    BY <1>2 DEF Distinct
  <2> QED
    BY <2>1, <1>3
<1> QED
  BY <1>1, <1>4, <1>5, <1>6 DEF r

(* However many entries are too old, they are entries of the queue.        *)
LEMMA ElderlyInRange ==
  ASSUME NEW q \in Seq(Entry)
  PROVE  elderly(q) \in 0..Len(q)
<1> DEFINE old == {n \in 1..Len(q) :
                     \A i \in 1..n : now - q[i].when_added >= Cutoff}
<1>1. Len(q) \in Nat
  BY LenProperties
<1>2. IsFiniteSet(1..Len(q)) /\ Cardinality(1..Len(q)) = Len(q)
  BY <1>1, FS_Interval, SMTT(30)
<1>3. old \subseteq 1..Len(q)
  OBVIOUS
<1>4. Cardinality(old) \in Nat /\ Cardinality(old) <= Len(q)
  BY <1>2, <1>3, FS_Subset, FS_CardinalityType
<1> QED
  BY <1>1, <1>4 DEF elderly
-----------------------------------------------------------------------------
(* A part of the invariant stands while nothing it depends on changes.     *)
LEMMA JobLinksFrame ==
  ASSUME JobLinks, UNCHANGED <<magic, workqueue_entry, status, job_circ>>
  PROVE  JobLinks'
BY DEF JobLinks, DeadIsAwaited, Alloc, Out

LEMMA QueueLinksFrame ==
  ASSUME QueueLinks, UNCHANGED <<magic, onionqueue_entry, ol_list>>
  PROVE  QueueLinks'
BY DEF QueueLinks, Alloc, Circs, Distinct

LEMMA JobCountFrame ==
  ASSUME JobCount, UNCHANGED <<status, total_pending_tasks>>
  PROVE  JobCount'
BY DEF JobCount, Out

LEMMA QueueCountFrame ==
  ASSUME QueueCount, UNCHANGED <<ol_list, ol_entries>>
  PROVE  QueueCount'
BY DEF QueueCount

LEMMA TurnsFrame ==
  ASSUME TurnsCounted, UNCHANGED <<passed_over, recently_chosen_ntors>>
  PROVE  TurnsCounted'
BY DEF TurnsCounted

(* A job goes out, or comes back: the slots that are taken.                *)
LEMMA OneMoreOut ==
  ASSUME CpuTypeOK, JobCount, NEW j \in Work, status[j] = "free",
         status' = [status EXCEPT ![j] = "pending"],
         total_pending_tasks' = total_pending_tasks + 1,
         total_pending_tasks < max_pending_tasks
  PROVE  JobCount'
<1> DEFINE out == {k \in Work : Out(k)}
<1>1. IsFiniteSet(out)
  BY CpuAssumption, FS_Subset DEF CpuAssumption
<1>2. out' = out \cup {j} /\ j \notin out
  BY DEF Out, CpuTypeOK
<1>3. Cardinality(out') = Cardinality(out) + 1
  BY <1>1, <1>2, FS_AddElement
<1>4. max_pending_tasks \in Int
  BY <1>1, CpuAssumption, FS_CardinalityType DEF CpuAssumption
<1> QED
  BY <1>3, <1>4 DEF JobCount, CpuTypeOK

LEMMA OneLessOut ==
  ASSUME CpuTypeOK, JobCount, NEW j \in Work, Out(j),
         status' = [status EXCEPT ![j] = "free"],
         total_pending_tasks' = total_pending_tasks - 1
  PROVE  JobCount' /\ total_pending_tasks > 0
<1> DEFINE out == {k \in Work : Out(k)}
<1>1. IsFiniteSet(out) /\ IsFiniteSet(out')
  BY CpuAssumption, FS_Subset DEF CpuAssumption
<1>2. out' = out \ {j} /\ j \in out
  BY DEF Out, CpuTypeOK
<1>3. Cardinality(out') = Cardinality(out) - 1
  BY <1>1, <1>2, FS_RemoveElement
<1>4. max_pending_tasks \in Int /\ Cardinality(out') \in Nat /\ Cardinality(out) \in Nat
  BY <1>1, CpuAssumption, FS_CardinalityType DEF CpuAssumption
<1> HIDE DEF out
<1> QED
  BY <1>3, <1>4 DEF JobCount, CpuTypeOK, out
-----------------------------------------------------------------------------
(* One lemma for each action that disturbs the invariant.                  *)

(* The workers move a job on; who points to it stays.                      *)
LEMMA WorkerKeeps ==
  ASSUME CpuInv, NEW j \in Work,
         \/ worker_begins(j)
         \/ cpuworker_onion_handshake_threadfn(j)
  PROVE  CpuInv'
<1> USE DEF CpuInv, worker_begins, cpuworker_onion_handshake_threadfn, Start,
            Finish, Move, circs, onions
<1>1. CpuTypeOK'
  <2>1. status' \in [Work -> Status \ {"replying"}]
    BY DEF CpuTypeOK, Status
  <2> QED
    BY <2>1 DEF CpuTypeOK
<1>2. \A k \in Work : /\ Out(k)' <=> Out(k)
                      /\ status[k] \in {"running", "answered"} =>
                           status'[k] \in {"running", "answered"}
  BY DEF CpuTypeOK, Out
<1>3. JobLinks'
  BY <1>2 DEF JobLinks, DeadIsAwaited, Alloc
<1>4. JobCount'
  <2>1. {k \in Work : Out(k)}' = {k \in Work : Out(k)}
    BY <1>2
  <2> QED
    BY <2>1 DEF JobCount
<1>5. CircuitLinks'
  BY DEF CircuitLinks, NoForgottenHandshake, Alloc
<1> QED
  BY <1>1, <1>3, <1>4, <1>5, QueueLinksFrame, QueueCountFrame, TurnsFrame

(* cpuworker_onion_handshake_replyfn: the job is gone, and the circuit is  *)
(* freed if it was dead, for no other job points to it.                    *)
LEMMA ReplyKeeps ==
  ASSUME CpuInv, NEW j \in Work, cpuworker_onion_handshake_replyfn(j)
  PROVE  CpuInv'
<1> DEFINE c == job_circ[j]
<1> USE DEF CpuInv, cpuworker_onion_handshake_replyfn, reply_is_due,
            dead_circuit_freed, entry_cleared, onions
<1>1. Out(j) /\ c \in Circuits /\ magic[c] # "free"
  BY DEF JobLinks, Out
<1>2. CASE magic[c] = "DEAD_CIRCUIT_MAGIC"
  <2>1. /\ magic' = [magic EXCEPT ![c] = "free"]
        /\ UNCHANGED <<circ_state, marked_for_close, workqueue_entry, p_chan,
                       onionqueue_entry, ol_list>>
    BY <1>2
  <2>2. Alloc' = Alloc /\ c \notin Alloc
    BY <2>1, <1>1, <1>2 DEF Alloc, CpuTypeOK
  <2>3. \A k \in Work : Out(k) /\ job_circ[k] = c => k = j
    BY <1>1, <1>2 DEF JobLinks, DeadIsAwaited
  <2>4. \A k \in Work : Out(k)' <=> Out(k) /\ k # j
    BY DEF Out, CpuTypeOK
  <2>5. \A k \in Work : k # j => job_circ'[k] = job_circ[k] /\ status'[k] = status[k]
    BY DEF CpuTypeOK
  <2>6. CpuTypeOK'
    <3>1. /\ status' \in [Work -> Status \ {"replying"}]
          /\ job_circ' \in [Work -> Circuits \cup {NULL}]
      BY DEF CpuTypeOK, Status
    <3>2. magic' \in [Circuits -> {"free", "OR_CIRCUIT_MAGIC", "DEAD_CIRCUIT_MAGIC"}]
      BY <2>1 DEF CpuTypeOK
    <3>3. /\ total_pending_tasks' \in Int /\ main_pc' = "queue_pending_tasks"
          /\ UNCHANGED <<ol_list, ol_entries, recently_chosen_ntors, passed_over, now>>
      BY DEF CpuTypeOK
    <3> QED
      BY <3>1, <3>2, <3>3, <2>1, Zenon DEF CpuTypeOK
  <2>7. JobLinks'
    <3>1. \A k \in Work : Out(k)' => /\ job_circ'[k] \in Circuits
                                     /\ magic'[job_circ'[k]] # "free"
      BY <2>1, <2>3, <2>4, <2>5, <1>1 DEF JobLinks, CpuTypeOK
    <3>2. \A d \in Alloc, k \in Work :
            workqueue_entry'[d] = k <=> Out(k)' /\ job_circ'[k] = d
      BY <2>1, <2>2, <2>3, <2>4, <2>5, <1>1 DEF JobLinks
    <3>3. DeadIsAwaited'
      <4> SUFFICES ASSUME NEW d \in Circuits, magic'[d] = "DEAD_CIRCUIT_MAGIC"
                   PROVE  (\E i \in Work :
                            /\ status[i] \in {"running", "answered"} /\ job_circ[i] = d
                            /\ \A k \in Work : Out(k) /\ job_circ[k] = d => k = i)'
        BY DEF DeadIsAwaited
      <4>1. d # c /\ magic[d] = "DEAD_CIRCUIT_MAGIC"
        BY <2>1, <1>1 DEF CpuTypeOK
      <4>2. PICK i \in Work :
                   /\ status[i] \in {"running", "answered"} /\ job_circ[i] = d
                   /\ \A k \in Work : Out(k) /\ job_circ[k] = d => k = i
        BY <4>1 DEF JobLinks, DeadIsAwaited
      <4>3. i # j
        BY <4>1, <4>2
      <4> QED
        BY <4>2, <4>3, <2>4, <2>5
    <3> QED
      BY <3>1, <3>2, <3>3, <2>2 DEF JobLinks
  <2>8. QueueLinks'
    BY <2>1, <2>2 DEF QueueLinks
  <2>9. CircuitLinks'
    BY <2>1, <2>2 DEF CircuitLinks, NoForgottenHandshake
  <2> QED
    BY <2>6, <2>7, <2>8, <2>9, <1>1, OneLessOut, QueueCountFrame, TurnsFrame
<1>3. CASE magic[c] # "DEAD_CIRCUIT_MAGIC"
  <2>1. /\ workqueue_entry' = [workqueue_entry EXCEPT ![c] = NULL]
        /\ UNCHANGED <<magic, p_chan, onionqueue_entry, ol_list>>
    BY <1>3
  <2>2. Alloc' = Alloc /\ c \in Alloc
    BY <2>1, <1>1, <1>3 DEF Alloc, CpuTypeOK
  <2>3. workqueue_entry[c] = j /\ onionqueue_entry[c] = NULL
    BY <2>2, <1>1, CpuAssumption DEF JobLinks, CircuitLinks, CpuAssumption
  <2>4. \A k \in Work : Out(k)' <=> Out(k) /\ k # j
    BY DEF Out, CpuTypeOK
  <2>5. \A k \in Work : k # j => job_circ'[k] = job_circ[k] /\ status'[k] = status[k]
    BY DEF CpuTypeOK
  <2>6. CpuTypeOK'
    <3>1. marked_for_close' \in [Circuits -> BOOLEAN]
      <4>1. \/ marked_for_close' = marked_for_close
            \/ marked_for_close' = [marked_for_close EXCEPT ![c] = TRUE]
        BY <1>3
      <4> QED
        BY <4>1, <1>1, Zenon DEF CpuTypeOK
    <3>2. /\ status' \in [Work -> Status \ {"replying"}]
          /\ job_circ' \in [Work -> Circuits \cup {NULL}]
      BY DEF CpuTypeOK, Status
    <3>3. /\ circ_state' \in [Circuits -> {"onionskin_pending", "open"}]
          /\ workqueue_entry' \in [Circuits -> Work \cup {NULL}]
      BY <2>1, <1>3 DEF CpuTypeOK
    <3>4. /\ total_pending_tasks' \in Int /\ main_pc' = "queue_pending_tasks"
          /\ UNCHANGED <<ol_list, ol_entries, recently_chosen_ntors, passed_over, now>>
      BY DEF CpuTypeOK
    <3> QED
      BY <3>1, <3>2, <3>3, <3>4, <2>1 DEF CpuTypeOK
  <2>7. JobLinks'
    <3>1. \A k \in Work : Out(k)' => /\ job_circ'[k] \in Circuits
                                     /\ magic'[job_circ'[k]] # "free"
      BY <2>1, <2>4, <2>5 DEF JobLinks
    <3>2. \A d \in Alloc, k \in Work :
            workqueue_entry'[d] = k <=> Out(k)' /\ job_circ'[k] = d
      BY <2>1, <2>2, <2>3, <2>4, <2>5, CpuAssumption
      DEF JobLinks, CpuTypeOK, CpuAssumption, Alloc
    <3>3. DeadIsAwaited'
      <4> SUFFICES ASSUME NEW d \in Circuits, magic'[d] = "DEAD_CIRCUIT_MAGIC"
                   PROVE  (\E i \in Work :
                            /\ status[i] \in {"running", "answered"} /\ job_circ[i] = d
                            /\ \A k \in Work : Out(k) /\ job_circ[k] = d => k = i)'
        BY DEF DeadIsAwaited
      <4>1. d # c /\ magic[d] = "DEAD_CIRCUIT_MAGIC"
        BY <2>1, <1>3
      <4>2. PICK i \in Work :
                   /\ status[i] \in {"running", "answered"} /\ job_circ[i] = d
                   /\ \A k \in Work : Out(k) /\ job_circ[k] = d => k = i
        BY <4>1 DEF JobLinks, DeadIsAwaited
      <4>3. i # j
        BY <4>1, <4>2
      <4> QED
        BY <4>2, <4>3, <2>4, <2>5
    <3> QED
      BY <3>1, <3>2, <3>3, <2>2 DEF JobLinks
  <2>8. CircuitLinks'
    <3>1. \A d \in Circuits : d # c =>
            /\ workqueue_entry'[d] = workqueue_entry[d]
            /\ circ_state'[d] = circ_state[d]
            /\ marked_for_close'[d] = marked_for_close[d]
      BY <2>1, <1>1, <1>3 DEF CpuTypeOK
    <3>2. /\ workqueue_entry'[c] = NULL
          /\ marked_for_close[c] => marked_for_close'[c]
          /\ circ_state'[c] = "open" \/ marked_for_close'[c]
      BY <2>1, <1>1, <1>3 DEF CpuTypeOK
    <3>3. \A d \in Alloc : d \in Circuits
      BY DEF Alloc
    <3> QED
      BY <3>1, <3>2, <3>3, <2>1, <2>2, <2>3
      DEF CircuitLinks, NoForgottenHandshake
  <2> QED
    BY <2>1, <2>6, <2>7, <2>8, <1>1, OneLessOut, QueueLinksFrame,
       QueueCountFrame, TurnsFrame
<1> QED
  BY <1>2, <1>3
-----------------------------------------------------------------------------
(* command_process_create_cell.  Nothing points to a circuit object that   *)
(* is about to be allocated.                                               *)
LEMMA FreshCircuit ==
  ASSUME CpuInv, NEW c \in Circuits, magic[c] = "free",
         magic' = [magic EXCEPT ![c] = "OR_CIRCUIT_MAGIC"]
  PROVE  /\ c \notin Alloc /\ Alloc' = Alloc \cup {c}
         /\ workqueue_entry[c] = NULL /\ onionqueue_entry[c] = NULL
         /\ \A j \in Work : Out(j) => job_circ[j] # c
         /\ \A t \in Types : c \notin Circs(ol_list[t])
         /\ \A d \in Circuits : /\ magic'[d] = "free" => magic[d] = "free"
                                /\ magic'[d] = "DEAD_CIRCUIT_MAGIC" =>
                                     magic[d] = "DEAD_CIRCUIT_MAGIC"
         /\ magic' \in [Circuits -> {"free", "OR_CIRCUIT_MAGIC", "DEAD_CIRCUIT_MAGIC"}]
<1>1. /\ c \notin Alloc /\ Alloc' = Alloc \cup {c}
      /\ \A d \in Circuits : /\ magic'[d] = "free" => magic[d] = "free"
                             /\ magic'[d] = "DEAD_CIRCUIT_MAGIC" =>
                                  magic[d] = "DEAD_CIRCUIT_MAGIC"
      /\ magic' \in [Circuits -> {"free", "OR_CIRCUIT_MAGIC", "DEAD_CIRCUIT_MAGIC"}]
  BY DEF CpuInv, CpuTypeOK, Alloc
<1>2. \A j \in Work : Out(j) => job_circ[j] # c
  BY DEF CpuInv, JobLinks
<1>3. \A t \in Types : c \notin Circs(ol_list[t])
  BY <1>1 DEF CpuInv, QueueLinks
<1>4. workqueue_entry[c] = NULL /\ onionqueue_entry[c] = NULL
  BY <1>1 DEF CpuInv, CircuitLinks
<1> QED
  BY <1>1, <1>2, <1>3, <1>4

LEMMA FreshJobLinks ==
  ASSUME CpuInv, NEW c \in Circuits, magic[c] = "free",
         magic' = [magic EXCEPT ![c] = "OR_CIRCUIT_MAGIC"],
         UNCHANGED <<workqueue_entry, status, job_circ>>
  PROVE  JobLinks'
<1>1. \A k \in Work : Out(k)' => /\ job_circ'[k] \in Circuits
                                 /\ magic'[job_circ'[k]] # "free"
  BY FreshCircuit DEF CpuInv, JobLinks, Out
<1>2. \A d \in Alloc \cup {c}, k \in Work :
        workqueue_entry'[d] = k <=> Out(k)' /\ job_circ'[k] = d
  <2> SUFFICES ASSUME NEW d \in Alloc \cup {c}, NEW k \in Work
               PROVE  workqueue_entry'[d] = k <=> Out(k)' /\ job_circ'[k] = d
    OBVIOUS
  <2>1. CASE d = c
    <3>1. workqueue_entry'[c] = NULL /\ k # NULL
      BY FreshCircuit, CpuAssumption DEF CpuAssumption
    <3>2. ~(Out(k)' /\ job_circ'[k] = c)
      BY FreshCircuit DEF Out
    <3> QED
      BY <3>1, <3>2, <2>1
  <2>2. CASE d \in Alloc
    BY <2>2 DEF CpuInv, JobLinks, Out
  <2> QED
    BY <2>1, <2>2
<1>3. DeadIsAwaited'
  BY FreshCircuit DEF CpuInv, JobLinks, DeadIsAwaited, Out
<1>4. Alloc' = Alloc \cup {c}
  BY FreshCircuit
<1> QED
  BY <1>1, <1>2, <1>3, <1>4 DEF JobLinks

LEMMA FreshQueueLinks ==
  ASSUME CpuInv, NEW c \in Circuits, magic[c] = "free",
         magic' = [magic EXCEPT ![c] = "OR_CIRCUIT_MAGIC"],
         UNCHANGED <<onionqueue_entry, ol_list>>
  PROVE  QueueLinks'
<1>1. \A t \in Types : Circs(ol_list'[t]) \subseteq Alloc' /\ Distinct(ol_list'[t])
  BY FreshCircuit, ZenonT(30) DEF CpuInv, QueueLinks
<1>2. \A d \in Alloc \cup {c}, t \in Types :
        onionqueue_entry'[d] = t <=> d \in Circs(ol_list'[t])
  <2> SUFFICES ASSUME NEW d \in Alloc \cup {c}, NEW t \in Types
               PROVE  onionqueue_entry'[d] = t <=> d \in Circs(ol_list'[t])
    OBVIOUS
  <2>1. CASE d = c
    <3>1. onionqueue_entry'[c] = NULL /\ t # NULL
      BY FreshCircuit, CpuAssumption DEF CpuAssumption, Types
    <3>2. c \notin Circs(ol_list'[t])
      BY FreshCircuit
    <3> QED
      BY <3>1, <3>2, <2>1
  <2>2. CASE d \in Alloc
    BY <2>2 DEF CpuInv, QueueLinks
  <2> QED
    BY <2>1, <2>2
<1>3. Alloc' = Alloc \cup {c}
  BY FreshCircuit
<1> QED
  BY <1>1, <1>2, <1>3 DEF QueueLinks

(* The circuit's own fields after NewCircuit.                              *)
LEMMA NewCircuitFields ==
  ASSUME CpuTypeOK, NEW c \in Circuits, NEW chan \in Channels,
         NEW st \in {"onionskin_pending", "open"}, NEW marked \in BOOLEAN,
         NewCircuit(c, chan, st, marked)
  PROVE  /\ circ_state' \in [Circuits -> {"onionskin_pending", "open"}]
         /\ p_chan' \in [Circuits -> Channels \cup {NULL}]
         /\ marked_for_close' \in [Circuits -> BOOLEAN]
         /\ circ_state'[c] = st /\ marked_for_close'[c] = marked
         /\ p_chan'[c] = chan /\ p_chan'[c] # NULL
         /\ \A d \in Circuits : d # c =>
              /\ circ_state'[d] = circ_state[d]
              /\ marked_for_close'[d] = marked_for_close[d]
              /\ p_chan'[d] = p_chan[d]
<1>1. /\ circ_state' \in [Circuits -> {"onionskin_pending", "open"}]
      /\ p_chan' \in [Circuits -> Channels \cup {NULL}]
      /\ circ_state'[c] = st /\ p_chan'[c] = chan
      /\ \A d \in Circuits : d # c =>
           circ_state'[d] = circ_state[d] /\ p_chan'[d] = p_chan[d]
  BY DEF CpuTypeOK, NewCircuit
<1>2. \A d \in Circuits :
        marked_for_close'[d] = IF d = c THEN marked ELSE marked_for_close[d]
  BY DEF NewCircuit
<1>3. marked_for_close' \in [Circuits -> BOOLEAN]
  <2>1. \A d \in Circuits : (IF d = c THEN marked ELSE marked_for_close[d]) \in BOOLEAN
    BY DEF CpuTypeOK
  <2> QED
    BY <2>1, Zenon DEF NewCircuit
<1>4. chan # NULL
  BY CpuAssumption DEF CpuAssumption
<1> QED
  BY <1>1, <1>2, <1>3, <1>4

(* The cell does not parse, there is no room, or it was a CREATE_FAST.     *)
LEMMA CreateUnqueuedKeeps ==
  ASSUME CpuInv, NEW c \in Circuits, NEW chan \in Channels,
         NEW st \in {"onionskin_pending", "open"}, NEW marked \in BOOLEAN,
         magic[c] = "free", NewCircuit(c, chan, st, marked),
         marked \/ st = "open",
         UNCHANGED <<workqueue_entry, onionqueue_entry, onions, jobs, main_pc, now>>
  PROVE  CpuInv'
<1>1. magic' = [magic EXCEPT ![c] = "OR_CIRCUIT_MAGIC"]
  BY DEF NewCircuit
<1>2. UNCHANGED <<workqueue_entry, onionqueue_entry, ol_list, ol_entries,
                  recently_chosen_ntors, passed_over, status, job_circ,
                  total_pending_tasks, main_pc, now>>
  BY DEF onions, jobs
<1>3. CpuTypeOK'
  <2>1. /\ magic' \in [Circuits -> {"free", "OR_CIRCUIT_MAGIC", "DEAD_CIRCUIT_MAGIC"}]
        /\ circ_state' \in [Circuits -> {"onionskin_pending", "open"}]
        /\ p_chan' \in [Circuits -> Channels \cup {NULL}]
        /\ marked_for_close' \in [Circuits -> BOOLEAN]
    <3>1. CpuTypeOK
      BY DEF CpuInv
    <3>2. /\ circ_state' \in [Circuits -> {"onionskin_pending", "open"}]
          /\ p_chan' \in [Circuits -> Channels \cup {NULL}]
          /\ marked_for_close' \in [Circuits -> BOOLEAN]
      BY <3>1, NewCircuitFields
    <3> QED
      BY <1>1, <3>2, FreshCircuit
  <2> QED
    BY <2>1, <1>2, Zenon DEF CpuInv, CpuTypeOK
<1>4. CircuitLinks'
  <2>1. \A d \in Alloc : d \in Circuits
    BY DEF Alloc
  <2>2. /\ circ_state'[c] = st /\ marked_for_close'[c] = marked
        /\ p_chan'[c] # NULL
        /\ \A d \in Circuits : d # c =>
             /\ circ_state'[d] = circ_state[d]
             /\ marked_for_close'[d] = marked_for_close[d]
             /\ p_chan'[d] = p_chan[d]
    BY NewCircuitFields DEF CpuInv
  <2>3. /\ Alloc' = Alloc \cup {c}
        /\ workqueue_entry'[c] = NULL /\ onionqueue_entry'[c] = NULL
    BY <1>1, <1>2, FreshCircuit
  <2>4. \A d \in Circuits : d \notin Alloc' =>
          workqueue_entry'[d] = NULL /\ onionqueue_entry'[d] = NULL
    BY <2>3, <1>2 DEF CpuInv, CircuitLinks
  <2>5. ASSUME NEW d \in Alloc'
        PROVE  /\ workqueue_entry'[d] = NULL \/ onionqueue_entry'[d] = NULL
               /\ p_chan'[d] = NULL => marked_for_close'[d]
               /\ workqueue_entry'[d] # NULL \/ onionqueue_entry'[d] # NULL =>
                    circ_state'[d] = "onionskin_pending"
               /\ circ_state'[d] = "onionskin_pending" /\ ~marked_for_close'[d] =>
                    workqueue_entry'[d] # NULL \/ onionqueue_entry'[d] # NULL
    <3>1. CASE d = c
      BY <3>1, <2>2, <2>3
    <3>2. CASE d # c
      BY <3>2, <2>1, <2>2, <2>3, <1>2 DEF CpuInv, CircuitLinks, NoForgottenHandshake
    <3> QED
      BY <3>1, <3>2
  <2> QED
    BY <2>4, <2>5 DEF CircuitLinks, NoForgottenHandshake
<1> QED
  BY <1>1, <1>2, <1>3, <1>4, FreshJobLinks, FreshQueueLinks, JobCountFrame,
     QueueCountFrame, TurnsFrame DEF CpuInv

(* queue_job, for a circuit that is being created or comes off a queue.    *)
LEMMA QueueJobLinks ==
  ASSUME CpuInv, NEW c \in Circuits, NEW j \in Work, status[j] = "free",
         status' = [status EXCEPT ![j] = "pending"],
         job_circ' = [job_circ EXCEPT ![j] = c],
         workqueue_entry' = [workqueue_entry EXCEPT ![c] = j],
         Alloc' = Alloc \cup {c},
         \A k \in Work : Out(k) => job_circ[k] # c,
         magic'[c] = "OR_CIRCUIT_MAGIC",
         \A d \in Circuits : /\ magic'[d] = "free" => magic[d] = "free"
                             /\ magic'[d] = "DEAD_CIRCUIT_MAGIC" =>
                                  magic[d] = "DEAD_CIRCUIT_MAGIC"
  PROVE  /\ JobLinks'
         /\ status' \in [Work -> Status \ {"replying"}]
         /\ job_circ' \in [Work -> Circuits \cup {NULL}]
         /\ workqueue_entry' \in [Circuits -> Work \cup {NULL}]
<1>1. /\ status' \in [Work -> Status \ {"replying"}]
      /\ job_circ' \in [Work -> Circuits \cup {NULL}]
      /\ workqueue_entry' \in [Circuits -> Work \cup {NULL}]
  BY DEF CpuInv, CpuTypeOK, Status
<1>2. /\ Out(j)' /\ ~Out(j) /\ job_circ'[j] = c
      /\ \A k \in Work : k # j => /\ Out(k)' <=> Out(k)
                                  /\ status'[k] = status[k]
                                  /\ job_circ'[k] = job_circ[k]
  BY DEF CpuInv, CpuTypeOK, Out
<1>3. \A k \in Work : Out(k)' => /\ job_circ'[k] \in Circuits
                                 /\ magic'[job_circ'[k]] # "free"
  <2>1. \A k \in Work : Out(k) => job_circ[k] \in Circuits /\ magic[job_circ[k]] # "free"
    BY DEF CpuInv, JobLinks
  <2> QED
    BY <1>2, <2>1
<1>4. ASSUME NEW d \in Alloc \cup {c}, NEW k \in Work
      PROVE  workqueue_entry'[d] = k <=> Out(k)' /\ job_circ'[k] = d
  <2>1. CASE d = c
    <3>1. workqueue_entry'[c] = j
      BY DEF CpuInv, CpuTypeOK
    <3> QED
      BY <2>1, <3>1, <1>2
  <2>2. CASE d # c
    <3>1. workqueue_entry'[d] = workqueue_entry[d]
      BY <2>2 DEF CpuInv, CpuTypeOK, Alloc
    <3>2. workqueue_entry[d] = k <=> Out(k) /\ job_circ[k] = d
      BY <2>2 DEF CpuInv, JobLinks
    <3> QED
      BY <2>2, <3>1, <3>2, <1>2
  <2> QED
    BY <2>1, <2>2
<1>5. DeadIsAwaited'
  <2> SUFFICES ASSUME NEW d \in Circuits, magic'[d] = "DEAD_CIRCUIT_MAGIC"
               PROVE  (\E i \in Work :
                        /\ status[i] \in {"running", "answered"} /\ job_circ[i] = d
                        /\ \A k \in Work : Out(k) /\ job_circ[k] = d => k = i)'
    BY DEF DeadIsAwaited
  <2>1. d # c /\ magic[d] = "DEAD_CIRCUIT_MAGIC"
    OBVIOUS
  <2>2. PICK i \in Work :
               /\ status[i] \in {"running", "answered"} /\ job_circ[i] = d
               /\ \A k \in Work : Out(k) /\ job_circ[k] = d => k = i
    BY <2>1 DEF CpuInv, JobLinks, DeadIsAwaited
  <2>3. i # j
    BY <2>2
  <2> QED
    BY <2>1, <2>2, <2>3, <1>2
<1> QED
  BY <1>1, <1>3, <1>4, <1>5 DEF JobLinks

LEMMA CreateAssignKeeps ==
  ASSUME CpuInv, NEW c \in Circuits, NEW chan \in Channels,
         create_and_assign(c, chan)
  PROVE  CpuInv'
<1> DEFINE st == "onionskin_pending"
<1>1. /\ magic[c] = "free" /\ total_pending_tasks < max_pending_tasks
      /\ NewCircuit(c, chan, st, FALSE)
      /\ magic' = [magic EXCEPT ![c] = "OR_CIRCUIT_MAGIC"]
      /\ UNCHANGED <<onionqueue_entry, ol_list, ol_entries, recently_chosen_ntors,
                     passed_over, main_pc, now>>
  BY DEF create_and_assign, NewCircuit, onions
<1>2. PICK j \in Work :
        /\ status[j] = "free"
        /\ status' = [status EXCEPT ![j] = "pending"]
        /\ job_circ' = [job_circ EXCEPT ![j] = c]
        /\ total_pending_tasks' = total_pending_tasks + 1
        /\ workqueue_entry' = [workqueue_entry EXCEPT ![c] = j]
  BY DEF create_and_assign, queue_job
<1>3. /\ c \notin Alloc /\ Alloc' = Alloc \cup {c}
      /\ workqueue_entry[c] = NULL /\ onionqueue_entry[c] = NULL
      /\ \A k \in Work : Out(k) => job_circ[k] # c
      /\ \A d \in Circuits : /\ magic'[d] = "free" => magic[d] = "free"
                             /\ magic'[d] = "DEAD_CIRCUIT_MAGIC" =>
                                  magic[d] = "DEAD_CIRCUIT_MAGIC"
      /\ magic' \in [Circuits -> {"free", "OR_CIRCUIT_MAGIC", "DEAD_CIRCUIT_MAGIC"}]
  BY <1>1, FreshCircuit
<1>4. magic'[c] = "OR_CIRCUIT_MAGIC"
  BY <1>1 DEF CpuInv, CpuTypeOK
<1>5. /\ JobLinks'
      /\ status' \in [Work -> Status \ {"replying"}]
      /\ job_circ' \in [Work -> Circuits \cup {NULL}]
      /\ workqueue_entry' \in [Circuits -> Work \cup {NULL}]
  BY <1>2, <1>3, <1>4, QueueJobLinks
<1>6. /\ circ_state' \in [Circuits -> {"onionskin_pending", "open"}]
      /\ p_chan' \in [Circuits -> Channels \cup {NULL}]
      /\ marked_for_close' \in [Circuits -> BOOLEAN]
      /\ circ_state'[c] = st /\ p_chan'[c] # NULL
      /\ \A d \in Circuits : d # c =>
           /\ circ_state'[d] = circ_state[d]
           /\ marked_for_close'[d] = marked_for_close[d]
           /\ p_chan'[d] = p_chan[d]
  BY <1>1, NewCircuitFields DEF CpuInv
<1>7. CpuTypeOK'
  <2>1. total_pending_tasks' \in Int
    BY <1>2 DEF CpuInv, CpuTypeOK
  <2> QED
    BY <2>1, <1>1, <1>3, <1>5, <1>6, Zenon DEF CpuInv, CpuTypeOK
<1>8. CircuitLinks'
  <2>1. /\ workqueue_entry'[c] = j /\ j # NULL
        /\ \A d \in Circuits : d # c => workqueue_entry'[d] = workqueue_entry[d]
    BY <1>2, CpuAssumption DEF CpuInv, CpuTypeOK, CpuAssumption
  <2>2. \A d \in Circuits : d \notin Alloc' =>
          workqueue_entry'[d] = NULL /\ onionqueue_entry'[d] = NULL
    BY <2>1, <1>1, <1>3 DEF CpuInv, CircuitLinks
  <2>3. ASSUME NEW d \in Alloc \cup {c}
        PROVE  /\ workqueue_entry'[d] = NULL \/ onionqueue_entry'[d] = NULL
               /\ p_chan'[d] = NULL => marked_for_close'[d]
               /\ workqueue_entry'[d] # NULL \/ onionqueue_entry'[d] # NULL =>
                    circ_state'[d] = "onionskin_pending"
               /\ circ_state'[d] = "onionskin_pending" /\ ~marked_for_close'[d] =>
                    workqueue_entry'[d] # NULL \/ onionqueue_entry'[d] # NULL
    <3>1. CASE d = c
      BY <3>1, <2>1, <1>1, <1>3, <1>6
    <3>2. CASE d # c
      <4>1. d \in Alloc /\ d \in Circuits
        BY <3>2 DEF Alloc
      <4> QED
        BY <4>1, <3>2, <2>1, <1>1, <1>6 DEF CpuInv, CircuitLinks, NoForgottenHandshake
    <3> QED
      BY <3>1, <3>2
  <2> QED
    BY <2>2, <2>3, <1>3 DEF CircuitLinks, NoForgottenHandshake
<1>9. QueueLinks' /\ JobCount' /\ QueueCount' /\ TurnsCounted'
  BY <1>1, <1>2, FreshQueueLinks, OneMoreOut, QueueCountFrame, TurnsFrame DEF CpuInv
<1> QED
  BY <1>5, <1>7, <1>8, <1>9 DEF CpuInv

(* onion_pending_add: the circuit goes to the end of its queue, and those  *)
(* that have waited too long leave it, marked.                             *)
LEMMA CreateQueueKeeps ==
  ASSUME CpuInv, NEW c \in Circuits, NEW chan \in Channels, NEW t \in Types,
         create_and_queue(c, chan, t)
  PROVE  CpuInv'
<1> DEFINE e == [circ |-> c, when_added |-> now]
           q == Append(ol_list[t], e)
           n == elderly(q)
           culled == {q[i].circ : i \in 1..n}
           r == SubSeq(q, n + 1, Len(q))
<1>1. /\ magic[c] = "free"
      /\ magic' = [magic EXCEPT ![c] = "OR_CIRCUIT_MAGIC"]
      /\ circ_state' = [circ_state EXCEPT ![c] = "onionskin_pending"]
      /\ p_chan' = [p_chan EXCEPT ![c] = chan]
      /\ UNCHANGED <<workqueue_entry, recently_chosen_ntors, passed_over, status,
                     job_circ, total_pending_tasks, main_pc, now>>
  BY DEF create_and_queue, jobs
<1>2. /\ ol_list' = [ol_list EXCEPT ![t] = r]
      /\ ol_entries' = [ol_entries EXCEPT ![t] = ol_entries[t] + 1 - n]
      /\ onionqueue_entry' = [x \in Circuits |->
           IF x \in culled THEN NULL ELSE IF x = c THEN t ELSE onionqueue_entry[x]]
      /\ marked_for_close' = [x \in Circuits |->
           marked_for_close[x] \/ x \in culled]
  BY DEF create_and_queue, onion_pending_add, entries_after_add, circuits_to_close
<1>3. /\ c \notin Alloc /\ Alloc' = Alloc \cup {c}
      /\ workqueue_entry[c] = NULL /\ onionqueue_entry[c] = NULL
      /\ \A u \in Types : c \notin Circs(ol_list[u])
      /\ magic' \in [Circuits -> {"free", "OR_CIRCUIT_MAGIC", "DEAD_CIRCUIT_MAGIC"}]
  BY <1>1, FreshCircuit
<1>4. /\ ol_list \in [Types -> Seq(Entry)] /\ ol_list[t] \in Seq(Entry)
      /\ e \in Entry /\ e.circ = c /\ Distinct(ol_list[t])
  BY DEF CpuInv, CpuTypeOK, QueueLinks, Entry
<1>5. /\ q \in Seq(Entry) /\ Distinct(q)
      /\ Circs(q) = Circs(ol_list[t]) \cup {c}
      /\ Len(q) = Len(ol_list[t]) + 1
  <2> HIDE DEF e
  <2> QED
    BY <1>3, <1>4, AppendCircs
<1> HIDE DEF q
<1>6. n \in 0..Len(q)
  BY <1>5, ElderlyInRange
<1> HIDE DEF n
<1>7. /\ r \in Seq(Entry) /\ Len(r) = Len(q) - n
      /\ Circs(r) = (Circs(ol_list[t]) \cup {c}) \ culled /\ Distinct(r)
  BY <1>5, <1>6, DropCircs
<1>8. culled \subseteq Circs(ol_list[t]) \cup {c}
  <2>1. 1..n \subseteq DOMAIN q
    BY <1>5, <1>6, LenProperties
  <2> QED
    BY <2>1, <1>5 DEF Circs
<1> HIDE DEF r, culled
<1>9. /\ \A u \in Types : u # t => ol_list'[u] = ol_list[u]
      /\ ol_list'[t] = r /\ ol_list' \in [Types -> Seq(Entry)]
  BY <1>2, <1>4, <1>7
<1>10. CpuTypeOK'
  <2>1. /\ circ_state' \in [Circuits -> {"onionskin_pending", "open"}]
        /\ p_chan' \in [Circuits -> Channels \cup {NULL}]
        /\ onionqueue_entry' \in [Circuits -> Types \cup {NULL}]
    BY <1>1, <1>2 DEF CpuInv, CpuTypeOK
  <2>2. marked_for_close' \in [Circuits -> BOOLEAN]
    <3>1. \A x \in Circuits : (marked_for_close[x] \/ x \in culled) \in BOOLEAN
      OBVIOUS
    <3> QED
      BY <3>1, <1>2, Zenon
  <2>3. ol_entries' \in [Types -> Int]
    <3>1. n \in Int
      BY <1>5, <1>6, LenProperties
    <3> QED
      BY <3>1, <1>2 DEF CpuInv, CpuTypeOK
  <2> QED
    BY <2>1, <2>2, <2>3, <1>1, <1>3, <1>9, Zenon DEF CpuInv, CpuTypeOK, Entry
<1>11. QueueLinks'
  <2>1. ASSUME NEW u \in Types
        PROVE  Circs(ol_list'[u]) \subseteq Alloc \cup {c} /\ Distinct(ol_list'[u])
    BY <1>7, <1>9 DEF CpuInv, QueueLinks
  <2>2. ASSUME NEW d \in Alloc \cup {c}, NEW u \in Types
        PROVE  onionqueue_entry'[d] = u <=> d \in Circs(ol_list'[u])
    <3>1. d \in Circuits /\ u # NULL
      BY CpuAssumption DEF Alloc, CpuAssumption, Types
    <3>2. onionqueue_entry'[d] = IF d \in culled THEN NULL
                                 ELSE IF d = c THEN t ELSE onionqueue_entry[d]
      BY <3>1, <1>2
    <3>3. d # c => (onionqueue_entry[d] = u <=> d \in Circs(ol_list[u]))
      BY DEF CpuInv, QueueLinks
    <3>4. d # c => (onionqueue_entry[d] = t <=> d \in Circs(ol_list[t]))
      BY DEF CpuInv, QueueLinks
    <3>5. CASE u = t
      BY <3>5, <3>1, <3>2, <3>3, <1>7, <1>9
    <3>6. CASE u # t
      BY <3>6, <3>1, <3>2, <3>3, <3>4, <1>3, <1>8, <1>9
    <3> QED
      BY <3>5, <3>6
  <2> QED
    BY <2>1, <2>2, <1>3 DEF QueueLinks
<1>12. CircuitLinks'
  <2>1. /\ \A d \in Circuits : d # c =>
             p_chan'[d] = p_chan[d] /\ circ_state'[d] = circ_state[d]
        /\ p_chan'[c] # NULL /\ circ_state'[c] = "onionskin_pending"
    BY <1>1, CpuAssumption DEF CpuInv, CpuTypeOK, CpuAssumption
  <2>2. \A d \in Circuits :
          /\ onionqueue_entry'[d] = IF d \in culled THEN NULL
                                    ELSE IF d = c THEN t ELSE onionqueue_entry[d]
          /\ marked_for_close'[d] <=> marked_for_close[d] \/ d \in culled
    BY <1>2
  <2>3. t # NULL
    BY CpuAssumption DEF CpuAssumption, Types
  <2>4. \A d \in Circuits : d \notin Alloc' =>
          workqueue_entry'[d] = NULL /\ onionqueue_entry'[d] = NULL
    BY <2>2, <1>1, <1>3 DEF CpuInv, CircuitLinks
  <2>5. ASSUME NEW d \in Alloc \cup {c}
        PROVE  /\ workqueue_entry'[d] = NULL \/ onionqueue_entry'[d] = NULL
               /\ p_chan'[d] = NULL => marked_for_close'[d]
               /\ workqueue_entry'[d] # NULL \/ onionqueue_entry'[d] # NULL =>
                    circ_state'[d] = "onionskin_pending"
               /\ circ_state'[d] = "onionskin_pending" /\ ~marked_for_close'[d] =>
                    workqueue_entry'[d] # NULL \/ onionqueue_entry'[d] # NULL
    <3>1. CASE d = c
      BY <3>1, <2>1, <2>2, <2>3, <1>1, <1>3
    <3>2. CASE d # c
      <4>1. d \in Alloc /\ d \in Circuits
        BY <3>2 DEF Alloc
      <4> QED
        BY <4>1, <3>2, <2>1, <2>2, <1>1 DEF CpuInv, CircuitLinks, NoForgottenHandshake
    <3> QED
      BY <3>1, <3>2
  <2> QED
    BY <2>4, <2>5, <1>3 DEF CircuitLinks, NoForgottenHandshake
<1>13. QueueCount'
  <2>1. ol_entries[t] = Len(ol_list[t]) /\ Len(ol_list[t]) \in Nat /\ n \in Int
    BY <1>4, <1>5, <1>6, LenProperties DEF CpuInv, QueueCount
  <2>2. ol_entries'[t] = Len(r)
    BY <2>1, <1>2, <1>5, <1>7 DEF CpuInv, CpuTypeOK
  <2>3. \A u \in Types : u # t => ol_entries'[u] = ol_entries[u]
    BY <1>2 DEF CpuInv, CpuTypeOK
  <2> QED
    BY <2>2, <2>3, <1>9 DEF CpuInv, QueueCount
<1> QED
  BY <1>1, <1>10, <1>11, <1>12, <1>13, FreshJobLinks, JobCountFrame, TurnsFrame
  DEF CpuInv
-----------------------------------------------------------------------------
(* decide_next_handshake_type: its choice, and the count of ntors.  While  *)
(* a tap waits, an ntor is chosen only if the count goes up and stays      *)
(* within num_ntors_per_tap.                                               *)
LEMMA DecideRange ==
  ASSUME CpuTypeOK
  PROVE  LET t == decide_next_handshake_type[1]
             n == decide_next_handshake_type[2] IN
         /\ t \in Types /\ n \in 0..(num_ntors_per_tap + 1)
         /\ t = "ntor" /\ ol_entries["tap"] # 0 =>
              n = recently_chosen_ntors + 1 /\ n <= num_ntors_per_tap
<1>1. num_ntors_per_tap \in Nat /\ recently_chosen_ntors \in 0..(num_ntors_per_tap + 1)
  BY CpuAssumption DEF CpuAssumption, CpuTypeOK
<1>2. CASE ol_entries["ntor"] = 0
  BY <1>1, <1>2 DEF decide_next_handshake_type, Types
<1>3. CASE ol_entries["ntor"] # 0 /\ ol_entries["tap"] = 0
  BY <1>1, <1>3 DEF decide_next_handshake_type, Types
<1>4. CASE ol_entries["ntor"] # 0 /\ ol_entries["tap"] # 0
  BY <1>1, <1>4 DEF decide_next_handshake_type, Types
<1> QED
  BY <1>2, <1>3, <1>4

(* A round of queue_pending_tasks: the circuit leaves the queue and gets a *)
(* job, unless its channel is gone, when it is marked already.             *)
LEMMA NextTaskKeeps ==
  ASSUME CpuInv, queue_next_task
  PROVE  CpuInv'
<1> DEFINE t == decide_next_handshake_type[1]
           n == decide_next_handshake_type[2]
           c == Head(ol_list[t]).circ
<1>1. /\ total_pending_tasks < max_pending_tasks
      /\ ol_list[t] # <<>>
      /\ recently_chosen_ntors' = n
      /\ passed_over' = IF t = "ntor" /\ ol_list["tap"] # <<>>
                        THEN passed_over + 1 ELSE 0
      /\ ol_list' = [ol_list EXCEPT ![t] = Tail(ol_list[t])]
      /\ ol_entries' = [ol_entries EXCEPT ![t] = ol_entries[t] - 1]
      /\ onionqueue_entry' = [onionqueue_entry EXCEPT ![c] = NULL]
      /\ UNCHANGED <<magic, circ_state, marked_for_close, p_chan, main_pc, now>>
  BY DEF queue_next_task
<1>2. \/ p_chan[c] = NULL /\ UNCHANGED <<workqueue_entry, status, job_circ,
                                         total_pending_tasks>>
      \/ p_chan[c] # NULL /\ queue_job(c)
  BY DEF queue_next_task, jobs
<1>3. /\ t \in Types /\ n \in 0..(num_ntors_per_tap + 1)
      /\ t = "ntor" /\ ol_entries["tap"] # 0 =>
           n = recently_chosen_ntors + 1 /\ n <= num_ntors_per_tap
  BY DecideRange DEF CpuInv
<1> HIDE DEF t, n
<1>4. /\ ol_list \in [Types -> Seq(Entry)] /\ ol_list[t] \in Seq(Entry)
      /\ Distinct(ol_list[t]) /\ Circs(ol_list[t]) \subseteq Alloc
  BY <1>3 DEF CpuInv, CpuTypeOK, QueueLinks, Entry
<1>5. /\ Tail(ol_list[t]) \in Seq(Entry)
      /\ Len(Tail(ol_list[t])) = Len(ol_list[t]) - 1
      /\ c \in Circs(ol_list[t])
      /\ Circs(Tail(ol_list[t])) = Circs(ol_list[t]) \ {c}
      /\ Distinct(Tail(ol_list[t]))
  BY <1>1, <1>4, TailCircs
<1> HIDE DEF c
<1>6. /\ c \in Alloc /\ c \in Circuits
      /\ onionqueue_entry[c] = t /\ t # NULL
      /\ workqueue_entry[c] = NULL
      /\ circ_state[c] = "onionskin_pending"
      /\ magic[c] = "OR_CIRCUIT_MAGIC"
      /\ p_chan[c] = NULL => marked_for_close[c]
  <2>1. c \in Alloc /\ c \in Circuits /\ magic[c] = "OR_CIRCUIT_MAGIC"
    BY <1>4, <1>5 DEF Alloc
  <2>2. onionqueue_entry[c] = t /\ t # NULL
    BY <2>1, <1>3, <1>5, CpuAssumption DEF CpuInv, QueueLinks, CpuAssumption, Types
  <2> QED
    BY <2>1, <2>2 DEF CpuInv, CircuitLinks
<1>7. /\ \A u \in Types : u # t => ol_list'[u] = ol_list[u]
      /\ ol_list'[t] = Tail(ol_list[t]) /\ ol_list' \in [Types -> Seq(Entry)]
  BY <1>1, <1>3, <1>4, <1>5
<1>8. /\ onionqueue_entry'[c] = NULL
      /\ \A d \in Circuits : d # c => onionqueue_entry'[d] = onionqueue_entry[d]
      /\ onionqueue_entry' \in [Circuits -> Types \cup {NULL}]
  BY <1>1, <1>6 DEF CpuInv, CpuTypeOK
<1>9. Alloc' = Alloc
  BY <1>1 DEF Alloc
<1>10. QueueLinks'
  <2>1. \A u \in Types : Circs(ol_list'[u]) \subseteq Alloc /\ Distinct(ol_list'[u])
    <3> SUFFICES ASSUME NEW u \in Types
                 PROVE  Circs(ol_list'[u]) \subseteq Alloc /\ Distinct(ol_list'[u])
      OBVIOUS
    <3>1. CASE u = t
      BY <3>1, <1>4, <1>5, <1>7
    <3>2. CASE u # t
      BY <3>2, <1>7 DEF CpuInv, QueueLinks
    <3> QED
      BY <3>1, <3>2
  <2>2. ASSUME NEW d \in Alloc, NEW u \in Types
        PROVE  onionqueue_entry'[d] = u <=> d \in Circs(ol_list'[u])
    <3>1. d \in Circuits /\ u # NULL
      BY CpuAssumption DEF Alloc, CpuAssumption, Types
    <3>2. onionqueue_entry[d] = u <=> d \in Circs(ol_list[u])
      BY DEF CpuInv, QueueLinks
    <3>3. CASE u = t
      BY <3>1, <3>2, <3>3, <1>5, <1>7, <1>8
    <3>4. CASE u # t
      BY <3>1, <3>2, <3>4, <1>6, <1>7, <1>8
    <3> QED
      BY <3>3, <3>4
  <2> QED
    BY <2>1, <2>2, <1>9 DEF QueueLinks
<1>11. QueueCount'
  <2>1. ol_entries[t] = Len(ol_list[t])
    BY <1>3 DEF CpuInv, QueueCount
  <2>2. ol_entries'[t] = ol_entries[t] - 1
    BY <1>1, <1>3 DEF CpuInv, CpuTypeOK
  <2>3. \A u \in Types : u # t => ol_entries'[u] = ol_entries[u]
    BY <1>1 DEF CpuInv, CpuTypeOK
  <2> QED
    BY <2>1, <2>2, <2>3, <1>5, <1>7 DEF CpuInv, QueueCount
<1>12. TurnsCounted' /\ passed_over' \in Nat
  <2>1. /\ num_ntors_per_tap \in Nat /\ passed_over \in Nat /\ n \in Nat
        /\ recently_chosen_ntors \in Nat
    BY <1>3, CpuAssumption DEF CpuAssumption, CpuInv, CpuTypeOK
  <2>2. CASE t = "ntor" /\ ol_list["tap"] # <<>>
    <3>1. ol_entries["tap"] # 0
      <4>1. ol_entries["tap"] = Len(ol_list["tap"]) /\ ol_list["tap"] \in Seq(Entry)
        BY <1>4 DEF CpuInv, QueueCount, Types
      <4> QED
        BY <4>1, <2>2, EmptySeq, LenProperties
    <3> QED
      BY <3>1, <2>1, <2>2, <1>1, <1>3 DEF CpuInv, TurnsCounted
  <2>3. CASE ~(t = "ntor" /\ ol_list["tap"] # <<>>)
    <3>1. passed_over' = 0
      BY <2>3, <1>1
    <3> QED
      BY <3>1, <2>1, <1>1 DEF TurnsCounted
  <2> QED
    BY <2>2, <2>3
<1>13. /\ ol_entries' \in [Types -> Int]
       /\ recently_chosen_ntors' \in 0..(num_ntors_per_tap + 1)
  BY <1>1, <1>3, SMTT(30) DEF CpuInv, CpuTypeOK
<1>14. \A k \in Work : Out(k) => job_circ[k] # c
  BY <1>6, CpuAssumption DEF CpuInv, JobLinks, CpuAssumption
<1>15. CASE /\ p_chan[c] = NULL
            /\ UNCHANGED <<workqueue_entry, status, job_circ, total_pending_tasks>>
  <2>1. CpuTypeOK'
    <3>1. /\ status' \in [Work -> Status \ {"replying"}]
          /\ job_circ' \in [Work -> Circuits \cup {NULL}]
          /\ workqueue_entry' \in [Circuits -> Work \cup {NULL}]
          /\ total_pending_tasks' \in Int
      BY <1>15 DEF CpuInv, CpuTypeOK
    <3> QED
      BY <3>1, <1>1, <1>7, <1>8, <1>12, <1>13, Zenon DEF CpuInv, CpuTypeOK, Entry
  <2>2. CircuitLinks'
    <3>1. \A d \in Circuits : d \notin Alloc =>
            workqueue_entry'[d] = NULL /\ onionqueue_entry'[d] = NULL
      BY <1>6, <1>8, <1>15 DEF CpuInv, CircuitLinks
    <3>2. ASSUME NEW d \in Alloc
          PROVE  /\ workqueue_entry'[d] = NULL \/ onionqueue_entry'[d] = NULL
                 /\ p_chan'[d] = NULL => marked_for_close'[d]
                 /\ workqueue_entry'[d] # NULL \/ onionqueue_entry'[d] # NULL =>
                      circ_state'[d] = "onionskin_pending"
                 /\ circ_state'[d] = "onionskin_pending" /\ ~marked_for_close'[d] =>
                      workqueue_entry'[d] # NULL \/ onionqueue_entry'[d] # NULL
      <4>1. CASE d = c
        BY <4>1, <1>1, <1>6, <1>8, <1>15
      <4>2. CASE d # c
        <5>1. d \in Circuits
          BY DEF Alloc
        <5> QED
          BY <5>1, <4>2, <1>1, <1>8, <1>15 DEF CpuInv, CircuitLinks, NoForgottenHandshake
      <4> QED
        BY <4>1, <4>2
    <3> QED
      BY <3>1, <3>2, <1>9 DEF CircuitLinks, NoForgottenHandshake
  <2> QED
    BY <2>1, <2>2, <1>1, <1>10, <1>11, <1>12, <1>15, JobLinksFrame, JobCountFrame
    DEF CpuInv
<1>16. CASE p_chan[c] # NULL /\ queue_job(c)
  <2>1. PICK j \in Work :
          /\ status[j] = "free"
          /\ status' = [status EXCEPT ![j] = "pending"]
          /\ job_circ' = [job_circ EXCEPT ![j] = c]
          /\ total_pending_tasks' = total_pending_tasks + 1
          /\ workqueue_entry' = [workqueue_entry EXCEPT ![c] = j]
    BY <1>16 DEF queue_job
  <2>2. /\ JobLinks'
        /\ status' \in [Work -> Status \ {"replying"}]
        /\ job_circ' \in [Work -> Circuits \cup {NULL}]
        /\ workqueue_entry' \in [Circuits -> Work \cup {NULL}]
    <3>1. Alloc' = Alloc \cup {c} /\ magic'[c] = "OR_CIRCUIT_MAGIC" /\ magic' = magic
      BY <1>1, <1>6, <1>9
    <3> QED
      BY <2>1, <3>1, <1>6, <1>14, QueueJobLinks
  <2>3. JobCount'
    BY <2>1, <1>1, OneMoreOut DEF CpuInv
  <2>4. CpuTypeOK'
    <3>1. total_pending_tasks' \in Int
      BY <2>1 DEF CpuInv, CpuTypeOK
    <3> QED
      BY <3>1, <2>2, <1>1, <1>7, <1>8, <1>12, <1>13, Zenon DEF CpuInv, CpuTypeOK, Entry
  <2>5. CircuitLinks'
    <3>1. /\ workqueue_entry'[c] # NULL
          /\ \A d \in Circuits : d # c => workqueue_entry'[d] = workqueue_entry[d]
      BY <2>1, <1>6, CpuAssumption DEF CpuInv, CpuTypeOK, CpuAssumption
    <3>2. \A d \in Circuits : d \notin Alloc =>
            workqueue_entry'[d] = NULL /\ onionqueue_entry'[d] = NULL
      BY <3>1, <1>6, <1>8 DEF CpuInv, CircuitLinks
    <3>3. ASSUME NEW d \in Alloc
          PROVE  /\ workqueue_entry'[d] = NULL \/ onionqueue_entry'[d] = NULL
                 /\ p_chan'[d] = NULL => marked_for_close'[d]
                 /\ workqueue_entry'[d] # NULL \/ onionqueue_entry'[d] # NULL =>
                      circ_state'[d] = "onionskin_pending"
                 /\ circ_state'[d] = "onionskin_pending" /\ ~marked_for_close'[d] =>
                      workqueue_entry'[d] # NULL \/ onionqueue_entry'[d] # NULL
      <4>1. CASE d = c
        BY <4>1, <3>1, <1>1, <1>6, <1>8
      <4>2. CASE d # c
        <5>1. d \in Circuits
          BY DEF Alloc
        <5> QED
          BY <5>1, <4>2, <3>1, <1>1, <1>8 DEF CpuInv, CircuitLinks, NoForgottenHandshake
      <4> QED
        BY <4>1, <4>2
    <3> QED
      BY <3>2, <3>3, <1>9 DEF CircuitLinks, NoForgottenHandshake
  <2> QED
    BY <2>2, <2>3, <2>4, <2>5, <1>10, <1>11, <1>12 DEF CpuInv
<1> QED
  BY <1>2, <1>15, <1>16
-----------------------------------------------------------------------------
(* Marking a circuit, and unlinking it from its channel as it is marked.   *)
LEMMA MarkKeeps ==
  ASSUME CpuInv,
         marked_for_close' \in [Circuits -> BOOLEAN],
         p_chan' \in [Circuits -> Channels \cup {NULL}],
         \A d \in Circuits : /\ marked_for_close[d] => marked_for_close'[d]
                             /\ p_chan'[d] = p_chan[d] \/ marked_for_close'[d],
         UNCHANGED <<magic, circ_state, workqueue_entry, onionqueue_entry,
                     onions, jobs, main_pc, now>>
  PROVE  CpuInv'
<1>1. UNCHANGED <<magic, circ_state, workqueue_entry, onionqueue_entry, ol_list,
                  ol_entries, recently_chosen_ntors, passed_over, status,
                  job_circ, total_pending_tasks, main_pc, now>>
  BY DEF onions, jobs
<1>2. CpuTypeOK'
  BY <1>1, Zenon DEF CpuInv, CpuTypeOK
<1>3. CircuitLinks'
  BY <1>1 DEF CpuInv, CircuitLinks, NoForgottenHandshake, Alloc
<1> QED
  BY <1>1, <1>2, <1>3, JobLinksFrame, QueueLinksFrame, JobCountFrame,
     QueueCountFrame, TurnsFrame DEF CpuInv

(* A round of circuit_close_all_marked.  The state of the circuit is still *)
(* onionskin_pending if it has a job or an entry, so that both are looked  *)
(* for; a job that has begun keeps it as DEAD_CIRCUIT_MAGIC.               *)
LEMMA CloseMarkedKeeps ==
  ASSUME CpuInv, NEW c \in Circuits, circuit_close_marked(c)
  PROVE  CpuInv'
<1> DEFINE j == workqueue_entry[c]
           t == onionqueue_entry[c]
           cancel == circ_state[c] = "onionskin_pending" /\ cancellable(c)
<1>1. /\ c \in Alloc /\ magic[c] = "OR_CIRCUIT_MAGIC"
      /\ magic' = [magic EXCEPT ![c] = IF should_free(c)
                                       THEN "free" ELSE "DEAD_CIRCUIT_MAGIC"]
      /\ p_chan' = [p_chan EXCEPT ![c] = NULL]
      /\ workqueue_entry' = [workqueue_entry EXCEPT ![c] = NULL]
      /\ onionqueue_entry' = [onionqueue_entry EXCEPT ![c] = NULL]
      /\ marked_for_close' = [marked_for_close EXCEPT ![c] = FALSE]
      /\ circ_state' = [circ_state EXCEPT ![c] = "onionskin_pending"]
      /\ UNCHANGED <<recently_chosen_ntors, passed_over, main_pc, now>>
  BY DEF circuit_close_marked, circuits_pending_close, Alloc
<1>2. /\ j # NULL \/ t # NULL => circ_state[c] = "onionskin_pending"
      /\ j \in Work \cup {NULL} /\ t \in Types \cup {NULL}
  BY <1>1 DEF CpuInv, CircuitLinks, CpuTypeOK
<1>3. IF t # NULL THEN onion_queue_entry_remove(c) ELSE UNCHANGED <<ol_list, ol_entries>>
  BY <1>2 DEF circuit_close_marked
<1>4. IF cancel
      THEN /\ status' = [status EXCEPT ![j] = "free"]
           /\ job_circ' = [job_circ EXCEPT ![j] = NULL]
           /\ total_pending_tasks' = total_pending_tasks - 1
      ELSE UNCHANGED <<status, job_circ, total_pending_tasks>>
  BY DEF circuit_close_marked, jobs, slot_returned
<1>5. /\ cancel <=> j # NULL /\ status[j] = "pending"
      /\ should_free(c) <=> j = NULL \/ cancel
  BY <1>2 DEF should_free, cancellable
<1> HIDE DEF cancel
<1>6. /\ Alloc' = Alloc \ {c}
      /\ \A d \in Circuits : d # c => magic'[d] = magic[d]
      /\ magic'[c] = IF j = NULL \/ cancel THEN "free" ELSE "DEAD_CIRCUIT_MAGIC"
      /\ magic' \in [Circuits -> {"free", "OR_CIRCUIT_MAGIC", "DEAD_CIRCUIT_MAGIC"}]
  <2>1. /\ \A d \in Circuits : d # c => magic'[d] = magic[d]
        /\ magic'[c] = IF j = NULL \/ cancel THEN "free" ELSE "DEAD_CIRCUIT_MAGIC"
        /\ magic' \in [Circuits -> {"free", "OR_CIRCUIT_MAGIC", "DEAD_CIRCUIT_MAGIC"}]
    BY <1>1, <1>5 DEF CpuInv, CpuTypeOK
  <2>2. Alloc' = Alloc \ {c}
    BY <2>1 DEF Alloc
  <2> QED
    BY <2>1, <2>2
<1>7. /\ \A d \in Circuits : d # c =>
           /\ p_chan'[d] = p_chan[d]
           /\ workqueue_entry'[d] = workqueue_entry[d]
           /\ onionqueue_entry'[d] = onionqueue_entry[d]
           /\ marked_for_close'[d] = marked_for_close[d]
           /\ circ_state'[d] = circ_state[d]
      /\ workqueue_entry'[c] = NULL /\ onionqueue_entry'[c] = NULL
  BY <1>1 DEF CpuInv, CpuTypeOK
<1>8. CircuitLinks'
  <2>1. \A d \in Circuits : d \notin Alloc' =>
          workqueue_entry'[d] = NULL /\ onionqueue_entry'[d] = NULL
    BY <1>6, <1>7 DEF CpuInv, CircuitLinks
  <2>2. ASSUME NEW d \in Alloc \ {c}
        PROVE  /\ workqueue_entry'[d] = NULL \/ onionqueue_entry'[d] = NULL
               /\ p_chan'[d] = NULL => marked_for_close'[d]
               /\ workqueue_entry'[d] # NULL \/ onionqueue_entry'[d] # NULL =>
                    circ_state'[d] = "onionskin_pending"
               /\ circ_state'[d] = "onionskin_pending" /\ ~marked_for_close'[d] =>
                    workqueue_entry'[d] # NULL \/ onionqueue_entry'[d] # NULL
    <3>1. d \in Alloc /\ d \in Circuits /\ d # c
      BY DEF Alloc
    <3> QED
      BY <3>1, <1>7 DEF CpuInv, CircuitLinks, NoForgottenHandshake
  <2> QED
    BY <2>1, <2>2, <1>6 DEF CircuitLinks, NoForgottenHandshake
<1>9. /\ ol_list' \in [Types -> Seq(Entry)] /\ ol_entries' \in [Types -> Int]
      /\ QueueLinks' /\ QueueCount'
  <2>1. ol_list \in [Types -> Seq(Entry)] /\ ol_entries \in [Types -> Int]
    BY DEF CpuInv, CpuTypeOK, Entry
  <2>2. \A d \in Alloc, u \in Types : onionqueue_entry[d] = u <=> d \in Circs(ol_list[u])
    BY DEF CpuInv, QueueLinks
  <2>3. \A u \in Types : /\ Circs(ol_list[u]) \subseteq Alloc /\ Distinct(ol_list[u])
                         /\ ol_entries[u] = Len(ol_list[u])
    BY DEF CpuInv, QueueLinks, QueueCount
  <2>4. NULL \notin Types
    BY CpuAssumption DEF CpuAssumption, Types
  <2>5. ASSUME /\ \A u \in Types : Circs(ol_list'[u]) = Circs(ol_list[u]) \ {c}
               /\ \A u \in Types : Distinct(ol_list'[u])
        PROVE  QueueLinks'
    <3>1. \A u \in Types : Circs(ol_list'[u]) \subseteq Alloc \ {c}
      BY <2>3, <2>5
    <3>2. \A d \in Alloc \ {c}, u \in Types :
            onionqueue_entry'[d] = u <=> d \in Circs(ol_list'[u])
      BY <2>2, <2>5, <1>7 DEF Alloc
    <3> QED
      BY <3>1, <3>2, <2>5, <1>6 DEF QueueLinks
  <2>6. CASE t = NULL
    <3>1. UNCHANGED <<ol_list, ol_entries>>
      BY <2>6, <1>3
    <3>2. \A u \in Types : c \notin Circs(ol_list[u])
      BY <2>2, <2>4, <2>6, <1>1
    <3> QED
      BY <3>1, <3>2, <2>1, <2>3, <2>5, QueueCountFrame DEF CpuInv
  <2>7. CASE t # NULL
    <3>1. t \in Types
      BY <2>7, <1>2
    <3>2. PICK i \in DOMAIN ol_list[t] :
                 /\ ol_list[t][i].circ = c
                 /\ ol_list' = [ol_list EXCEPT ![t] = RemoveAt(ol_list[t], i)]
      BY <2>7, <1>3 DEF onion_queue_entry_remove
    <3>3. ol_entries' = [ol_entries EXCEPT ![t] = ol_entries[t] - 1]
      BY <2>7, <1>3 DEF onion_queue_entry_remove
    <3>4. /\ RemoveAt(ol_list[t], i) \in Seq(Entry)
          /\ Len(RemoveAt(ol_list[t], i)) = Len(ol_list[t]) - 1
          /\ Circs(RemoveAt(ol_list[t], i)) = Circs(ol_list[t]) \ {c}
          /\ Distinct(RemoveAt(ol_list[t], i))
      BY <3>1, <3>2, <2>1, <2>3, RemoveAtCircs
    <3>5. /\ ol_list'[t] = RemoveAt(ol_list[t], i) /\ ol_entries'[t] = ol_entries[t] - 1
          /\ \A u \in Types : u # t => /\ ol_list'[u] = ol_list[u]
                                       /\ ol_entries'[u] = ol_entries[u]
          /\ ol_list' \in [Types -> Seq(Entry)] /\ ol_entries' \in [Types -> Int]
      BY <3>1, <3>2, <3>3, <3>4, <2>1
    <3>6. \A u \in Types : u # t => c \notin Circs(ol_list[u])
      BY <3>1, <2>2, <1>1
    <3>7. QueueLinks'
      BY <3>4, <3>5, <3>6, <2>3, <2>5
    <3>8. QueueCount'
      BY <3>4, <3>5, <2>3 DEF QueueCount
    <3> QED
      BY <3>5, <3>7, <3>8
  <2> QED
    BY <2>6, <2>7
<1>10. JobLinks' /\ JobCount' /\ total_pending_tasks' \in Int
       /\ status' \in [Work -> Status \ {"replying"}]
       /\ job_circ' \in [Work -> Circuits \cup {NULL}]
  <2>1. /\ \A k \in Work : Out(k) => job_circ[k] \in Circuits /\ magic[job_circ[k]] # "free"
        /\ \A d \in Alloc, k \in Work :
             workqueue_entry[d] = k <=> Out(k) /\ job_circ[k] = d
        /\ NULL \notin Work
    BY CpuAssumption DEF CpuInv, JobLinks, CpuAssumption
  <2>2. CASE cancel
    <3>1. j \in Work /\ status[j] = "pending" /\ Out(j) /\ job_circ[j] = c
      BY <2>1, <2>2, <1>1, <1>2, <1>5
    <3>2. /\ status' = [status EXCEPT ![j] = "free"]
          /\ job_circ' = [job_circ EXCEPT ![j] = NULL]
          /\ total_pending_tasks' = total_pending_tasks - 1
      BY <2>2, <1>4
    <3>3. /\ \A k \in Work : /\ Out(k)' <=> Out(k) /\ k # j
                             /\ k # j => /\ status'[k] = status[k]
                                         /\ job_circ'[k] = job_circ[k]
          /\ total_pending_tasks' \in Int
          /\ status' \in [Work -> Status \ {"replying"}]
          /\ job_circ' \in [Work -> Circuits \cup {NULL}]
      BY <3>1, <3>2 DEF CpuInv, CpuTypeOK, Out, Status
    <3>4. \A k \in Work : Out(k) /\ k # j => job_circ[k] # c
      BY <2>1, <1>1
    <3>5. \A k \in Work : Out(k)' => /\ job_circ'[k] \in Circuits
                                     /\ magic'[job_circ'[k]] # "free"
      BY <3>3, <3>4, <2>1, <1>6
    <3>6. \A d \in Alloc \ {c}, k \in Work :
            workqueue_entry'[d] = k <=> Out(k)' /\ job_circ'[k] = d
      <4> SUFFICES ASSUME NEW d \in Alloc \ {c}, NEW k \in Work
                   PROVE  workqueue_entry'[d] = k <=> Out(k)' /\ job_circ'[k] = d
        OBVIOUS
      <4>1. workqueue_entry'[d] = workqueue_entry[d]
        BY <1>7 DEF Alloc
      <4> QED
        BY <4>1, <3>1, <3>3, <2>1
    <3>7. DeadIsAwaited'
      <4> SUFFICES ASSUME NEW d \in Circuits, magic'[d] = "DEAD_CIRCUIT_MAGIC"
                   PROVE  (\E i \in Work :
                            /\ status[i] \in {"running", "answered"} /\ job_circ[i] = d
                            /\ \A k \in Work : Out(k) /\ job_circ[k] = d => k = i)'
        BY DEF DeadIsAwaited
      <4>1. d # c /\ magic[d] = "DEAD_CIRCUIT_MAGIC"
        BY <2>2, <1>6
      <4>2. PICK i \in Work :
                   /\ status[i] \in {"running", "answered"} /\ job_circ[i] = d
                   /\ \A k \in Work : Out(k) /\ job_circ[k] = d => k = i
        BY <4>1 DEF CpuInv, JobLinks, DeadIsAwaited
      <4>3. i # j
        BY <4>2, <3>1
      <4> QED
        BY <4>2, <4>3, <3>3
    <3> QED
      BY <3>1, <3>2, <3>3, <3>5, <3>6, <3>7, <1>6, OneLessOut DEF CpuInv, JobLinks
  <2>3. CASE ~cancel
    <3>1. UNCHANGED <<status, job_circ, total_pending_tasks>>
      BY <2>3, <1>4
    <3>2. \A k \in Work : Out(k) /\ job_circ[k] = c => k = j
      BY <2>1, <1>1
    <3>3. \A k \in Work : Out(k)' => /\ job_circ'[k] \in Circuits
                                     /\ magic'[job_circ'[k]] # "free"
      BY <3>1, <3>2, <2>1, <2>3, <1>6 DEF Out
    <3>4. \A d \in Alloc \ {c}, k \in Work :
            workqueue_entry'[d] = k <=> Out(k)' /\ job_circ'[k] = d
      <4> SUFFICES ASSUME NEW d \in Alloc \ {c}, NEW k \in Work
                   PROVE  workqueue_entry'[d] = k <=> Out(k)' /\ job_circ'[k] = d
        OBVIOUS
      <4>1. workqueue_entry'[d] = workqueue_entry[d]
        BY <1>7 DEF Alloc
      <4> QED
        BY <4>1, <3>1, <2>1 DEF Out
    <3>5. DeadIsAwaited'
      <4> SUFFICES ASSUME NEW d \in Circuits, magic'[d] = "DEAD_CIRCUIT_MAGIC"
                   PROVE  \E i \in Work :
                            /\ status[i] \in {"running", "answered"} /\ job_circ[i] = d
                            /\ \A k \in Work : Out(k) /\ job_circ[k] = d => k = i
        BY <3>1 DEF DeadIsAwaited, Out
      <4>1. CASE d = c
        <5>1. j \in Work /\ Out(j) /\ job_circ[j] = c /\ status[j] # "pending"
          BY <4>1, <2>1, <2>3, <1>1, <1>2, <1>5, <1>6
        <5>2. status[j] \in {"running", "answered"}
          BY <5>1 DEF CpuInv, CpuTypeOK, Status, Out
        <5> QED
          BY <5>1, <5>2, <4>1, <3>2
      <4>2. CASE d # c
        BY <4>2, <1>6 DEF CpuInv, JobLinks, DeadIsAwaited
      <4> QED
        BY <4>1, <4>2
    <3> QED
      BY <3>1, <3>3, <3>4, <3>5, <1>6, JobCountFrame DEF CpuInv, CpuTypeOK, JobLinks
  <2> QED
    BY <2>2, <2>3
<1>11. CpuTypeOK'
  <2>1. /\ circ_state' \in [Circuits -> {"onionskin_pending", "open"}]
        /\ p_chan' \in [Circuits -> Channels \cup {NULL}]
        /\ workqueue_entry' \in [Circuits -> Work \cup {NULL}]
        /\ onionqueue_entry' \in [Circuits -> Types \cup {NULL}]
    BY <1>1 DEF CpuInv, CpuTypeOK
  <2>2. marked_for_close' \in [Circuits -> BOOLEAN]
    BY <1>1, Zenon DEF CpuInv, CpuTypeOK
  <2> QED
    BY <2>1, <2>2, <1>1, <1>6, <1>9, <1>10, Zenon DEF CpuInv, CpuTypeOK, Entry
<1> QED
  BY <1>1, <1>8, <1>9, <1>10, <1>11, TurnsFrame DEF CpuInv
-----------------------------------------------------------------------------
LEMMA CpuInitInv == CpuInit => CpuInv
<1> SUFFICES ASSUME CpuInit
             PROVE  CpuInv
  OBVIOUS
<1> USE DEF CpuInit, PoolInit
<1>1. CpuTypeOK
  <2>1. ol_list \in [Types -> Seq([circ : Circuits, when_added : 0..MaxTime])]
    OBVIOUS
  <2>2. marked_for_close \in [Circuits -> BOOLEAN]
    BY Zenon
  <2>3. recently_chosen_ntors \in 0..(num_ntors_per_tap + 1) /\ now \in 0..MaxTime
    BY CpuAssumption DEF CpuAssumption
  <2> QED
    BY <2>1, <2>2, <2>3 DEF CpuTypeOK, Status
<1>2. Alloc = {} /\ \A j \in Work : ~Out(j)
  BY DEF Alloc, Out
<1>3. \A t \in Types : ol_list[t] = <<>> /\ Circs(ol_list[t]) = {} /\ Distinct(ol_list[t])
  BY DEF Circs, Distinct
<1>4. JobLinks
  BY <1>2 DEF JobLinks, DeadIsAwaited
<1>5. QueueLinks
  BY <1>2, <1>3 DEF QueueLinks
<1>6. CircuitLinks
  BY <1>2 DEF CircuitLinks, NoForgottenHandshake
<1>7. JobCount
  <2>1. {j \in Work : Out(j)} = {}
    BY <1>2
  <2>2. Cardinality({}) = 0
    BY FS_EmptySet
  <2>3. 0 <= max_pending_tasks
    <3>1. Cardinality(Work) \in Nat
      BY CpuAssumption, FS_CardinalityType DEF CpuAssumption
    <3> QED
      BY <3>1, CpuAssumption DEF CpuAssumption
  <2> QED
    BY <2>1, <2>2, <2>3 DEF JobCount
<1>8. QueueCount
  BY <1>3 DEF QueueCount
<1>9. TurnsCounted
  BY CpuAssumption DEF TurnsCounted, CpuAssumption
<1> QED
  BY <1>1, <1>4, <1>5, <1>6, <1>7, <1>8, <1>9 DEF CpuInv

(* Nothing but the main thread's place and the clock changes.              *)
LEMMA IdleKeeps ==
  ASSUME CpuInv, UNCHANGED <<circs, onions, jobs>>,
         main_pc' \in {"loop", "queue_pending_tasks", "close_all_marked",
                       "clear_pending_onions", "exit"},
         now' \in 0..MaxTime
  PROVE  CpuInv'
<1>1. UNCHANGED <<magic, circ_state, marked_for_close, p_chan, workqueue_entry,
                  onionqueue_entry, ol_list, ol_entries, recently_chosen_ntors,
                  passed_over, status, job_circ, total_pending_tasks>>
  BY DEF circs, onions, jobs
<1>2. CpuTypeOK'
  BY <1>1, Zenon DEF CpuInv, CpuTypeOK
<1>3. CircuitLinks'
  BY <1>1 DEF CpuInv, CircuitLinks, NoForgottenHandshake, Alloc
<1> QED
  BY <1>1, <1>2, <1>3, JobLinksFrame, QueueLinksFrame, JobCountFrame,
     QueueCountFrame, TurnsFrame DEF CpuInv

LEMMA CpuNextInv == CpuInv /\ [CpuNext]_cpu_vars => CpuInv'
<1> SUFFICES ASSUME CpuInv, [CpuNext]_cpu_vars
             PROVE  CpuInv'
  OBVIOUS
<1>0. CpuTypeOK
  BY DEF CpuInv
<1>1. ASSUME NEW j \in Work,
             \/ worker_begins(j)
             \/ cpuworker_onion_handshake_threadfn(j)
      PROVE  CpuInv'
  BY <1>1, WorkerKeeps
<1>2. ASSUME NEW j \in Work, cpuworker_onion_handshake_replyfn(j)
      PROVE  CpuInv'
  BY <1>2, ReplyKeeps
<1>3. ASSUME command_process_create_cell
      PROVE  CpuInv'
  <2>1. PICK c \in Circuits, chan \in Channels :
          \/ create_and_assign(c, chan)
          \/ \E t \in Types : create_and_queue(c, chan, t) \/ create_no_room(c, chan, t)
          \/ create_bogus(c, chan)
          \/ create_fast(c, chan)
    BY <1>3 DEF command_process_create_cell
  <2>2. CASE create_and_assign(c, chan)
    BY <2>2, CreateAssignKeeps
  <2>3. ASSUME NEW t \in Types, create_and_queue(c, chan, t)
        PROVE  CpuInv'
    BY <2>3, CreateQueueKeeps
  <2>4. CASE create_bogus(c, chan) \/ \E t \in Types : create_no_room(c, chan, t)
    <3>1. /\ magic[c] = "free" /\ NewCircuit(c, chan, "onionskin_pending", TRUE)
          /\ UNCHANGED <<workqueue_entry, onionqueue_entry, onions, jobs, main_pc, now>>
      BY <2>4 DEF create_bogus, create_no_room
    <3> QED
      BY <3>1, CreateUnqueuedKeeps
  <2>5. CASE create_fast(c, chan)
    <3>1. /\ magic[c] = "free" /\ NewCircuit(c, chan, "open", FALSE)
          /\ UNCHANGED <<workqueue_entry, onionqueue_entry, onions, jobs, main_pc, now>>
      BY <2>5 DEF create_fast
    <3> QED
      BY <3>1, CreateUnqueuedKeeps
  <2> QED
    BY <2>1, <2>2, <2>3, <2>4, <2>5
<1>4. ASSUME queue_next_task
      PROVE  CpuInv'
  BY <1>4, NextTaskKeeps
<1>5. ASSUME NEW c \in Circuits,
             circuit_mark_for_close(c) \/ command_process_destroy_cell(c)
      PROVE  CpuInv'
  <2>1. /\ marked_for_close' = [marked_for_close EXCEPT ![c] = TRUE]
        /\ p_chan' = p_chan \/ p_chan' = [p_chan EXCEPT ![c] = NULL]
        /\ UNCHANGED <<magic, circ_state, workqueue_entry, onionqueue_entry,
                       onions, jobs, main_pc, now>>
    BY <1>5 DEF circuit_mark_for_close, command_process_destroy_cell
  <2>2. marked_for_close' \in [Circuits -> BOOLEAN]
    BY <2>1, <1>0, Zenon DEF CpuTypeOK
  <2>3. p_chan' \in [Circuits -> Channels \cup {NULL}]
    BY <2>1, <1>0 DEF CpuTypeOK
  <2>4. \A d \in Circuits : /\ marked_for_close[d] => marked_for_close'[d]
                            /\ p_chan'[d] = p_chan[d] \/ marked_for_close'[d]
    BY <2>1, <1>0 DEF CpuTypeOK
  <2> QED
    BY <2>1, <2>2, <2>3, <2>4, MarkKeeps
<1>6. ASSUME NEW chan \in Channels, circuit_unlink_all_from_channel(chan)
      PROVE  CpuInv'
  <2> DEFINE detached == {c \in Alloc : p_chan[c] = chan}
  <2>1. /\ p_chan' = [c \in Circuits |-> IF c \in detached THEN NULL ELSE p_chan[c]]
        /\ marked_for_close' = [c \in Circuits |-> c \in detached \/ marked_for_close[c]]
        /\ UNCHANGED <<magic, circ_state, workqueue_entry, onionqueue_entry,
                       onions, jobs, main_pc, now>>
    BY <1>6 DEF circuit_unlink_all_from_channel
  <2> HIDE DEF detached
  <2>2. marked_for_close' \in [Circuits -> BOOLEAN]
    <3>1. \A c \in Circuits : (c \in detached \/ marked_for_close[c]) \in BOOLEAN
      OBVIOUS
    <3> QED
      BY <3>1, <2>1, Zenon
  <2>3. p_chan' \in [Circuits -> Channels \cup {NULL}]
    BY <2>1, <1>0 DEF CpuTypeOK
  <2>4. \A d \in Circuits : /\ marked_for_close[d] => marked_for_close'[d]
                            /\ p_chan'[d] = p_chan[d] \/ marked_for_close'[d]
    BY <2>1
  <2> QED
    BY <2>1, <2>2, <2>3, <2>4, MarkKeeps
<1>7. ASSUME NEW c \in Circuits, circuit_close_marked(c)
      PROVE  CpuInv'
  BY <1>7, CloseMarkedKeeps
<1>8. ASSUME \/ queue_pending_tasks_returns
             \/ postloop_cleanup_cb
             \/ circuit_close_all_marked_returns
             \/ TimePasses
             \/ UNCHANGED cpu_vars
      PROVE  CpuInv'
  <2>1. now \in 0..MaxTime /\ MaxTime \in Nat
    BY <1>0, CpuAssumption DEF CpuTypeOK, CpuAssumption
  <2>2. UNCHANGED <<circs, onions, jobs>>
    BY <1>8 DEF queue_pending_tasks_returns, postloop_cleanup_cb,
                circuit_close_all_marked_returns, TimePasses, cpu_vars
  <2>3. main_pc' \in {"loop", "queue_pending_tasks", "close_all_marked",
                      "clear_pending_onions", "exit"}
    BY <1>8, <1>0 DEF queue_pending_tasks_returns, postloop_cleanup_cb,
                circuit_close_all_marked_returns, TimePasses, cpu_vars, CpuTypeOK
  <2>4. now' \in 0..MaxTime
    BY <1>8, <2>1 DEF queue_pending_tasks_returns, postloop_cleanup_cb,
                circuit_close_all_marked_returns, TimePasses, cpu_vars
  <2> QED
    BY <2>2, <2>3, <2>4, IdleKeeps
<1> QED
  BY <1>1, <1>2, <1>3, <1>4, <1>5, <1>6, <1>7, <1>8 DEF CpuNext

LEMMA CpuInvariance == CpuSpec => []CpuInv
BY CpuInitInv, CpuNextInv, PTL DEF CpuSpec
-----------------------------------------------------------------------------
(* Every variable of cpuworker.c, onion_queue.c and the circuits keeps its *)
(* type, the count of ntors in a row its range among them.                 *)
THEOREM CpuTypeCorrect == CpuSpec => []CpuTypeOK
<1>1. CpuInv => CpuTypeOK
  BY DEF CpuInv
<1> QED
  BY <1>1, CpuInvariance, PTL

(* No job that is out and no onion queue entry ever points to freed        *)
(* memory, and a circuit's links to its job and its queue entry are        *)
(* answered by links back, whatever the order in which circuits are        *)
(* closed, jobs cancelled and replies handled.                             *)
THEOREM LinksAlwaysAgree == CpuSpec => []LinksAgree
<1>1. CpuInv => LinksAgree
  <2> SUFFICES ASSUME CpuInv
               PROVE  LinksAgree
    OBVIOUS
  <2>1. \A j \in Work : Out(j) => job_circ[j] # NULL /\ magic[job_circ[j]] # "free"
    BY CpuAssumption DEF CpuInv, JobLinks, CpuAssumption
  <2>2. \A c \in Alloc, j \in Work :
          workqueue_entry[c] = j <=> Out(j) /\ job_circ[j] = c
    BY DEF CpuInv, JobLinks
  <2>3. \A t \in Types : \A i \in DOMAIN ol_list[t] : ol_list[t][i].circ \in Alloc
    BY DEF CpuInv, QueueLinks, Circs
  <2>4. \A c \in Alloc, t \in Types :
          onionqueue_entry[c] = t <=> \E i \in DOMAIN ol_list[t] : ol_list[t][i].circ = c
    <3>1. \A c \in Alloc, t \in Types : onionqueue_entry[c] = t <=> c \in Circs(ol_list[t])
      BY DEF CpuInv, QueueLinks
    <3> QED
      BY <3>1 DEF Circs
  <2>5. \A t \in Types : \A i, k \in DOMAIN ol_list[t] :
          ol_list[t][i].circ = ol_list[t][k].circ => i = k
    BY DEF CpuInv, QueueLinks, Distinct
  <2>6. \A c \in Alloc : workqueue_entry[c] = NULL \/ onionqueue_entry[c] = NULL
    BY DEF CpuInv, CircuitLinks
  <2> QED
    BY <2>1, <2>2, <2>3, <2>4, <2>5, <2>6 DEF LinksAgree
<1> QED
  BY <1>1, CpuInvariance, PTL

(* A circuit whose handshake is not done and that is not about to be       *)
(* closed is on a queue or has a job.                                      *)
THEOREM HandshakeIsKept == CpuSpec => []NoForgottenHandshake
<1>1. CpuInv => NoForgottenHandshake
  BY DEF CpuInv, CircuitLinks
<1> QED
  BY <1>1, CpuInvariance, PTL

(* A circuit left with DEAD_CIRCUIT_MAGIC belongs to exactly one job, which *)
(* has begun and whose reply frees it.                                     *)
THEOREM DeadIsAlwaysAwaited == CpuSpec => []DeadIsAwaited
<1>1. CpuInv => DeadIsAwaited
  BY DEF CpuInv, JobLinks
<1> QED
  BY <1>1, CpuInvariance, PTL

(* total_pending_tasks and ol_entries count what they should: in           *)
(* particular the assertion total_pending_tasks > 0 of the reply function  *)
(* holds whenever a job is answered.                                       *)
THEOREM CountersStayExact == CpuSpec => []CountersAreExact
<1>1. CpuInv => CountersAreExact
  BY DEF CpuInv, JobCount, QueueCount, CountersAreExact
<1> QED
  BY <1>1, CpuInvariance, PTL

(* While tap onionskins wait no more than num_ntors_per_tap ntor ones are  *)
(* taken in a row.                                                         *)
THEOREM TapIsServed == CpuSpec => []TapIsNotStarved
<1>1. CpuInv => TapIsNotStarved
  BY DEF CpuInv, TurnsCounted, TapIsNotStarved
<1> QED
  BY <1>1, CpuInvariance, PTL
=============================================================================
