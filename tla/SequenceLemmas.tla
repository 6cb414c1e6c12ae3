--------------------------- MODULE SequenceLemmas ---------------------------
(***************************************************************************)
(* What taking an element off a queue, putting one on it and removing one  *)
(* from the middle do to its elements: facts the proofs about the pool and *)
(* about the onion queues share.                                           *)
(***************************************************************************)
EXTENDS SequencesExt, SequenceTheorems, TLAPS

(* RemoveAt only takes an element out.                                     *)
LEMMA RemoveAtType ==
  ASSUME NEW S, NEW s \in Seq(S), NEW i \in DOMAIN s
  PROVE  /\ RemoveAt(s, i) \in Seq(S)
         /\ Len(RemoveAt(s, i)) = Len(s) - 1
         /\ \A k \in DOMAIN RemoveAt(s, i) :
              RemoveAt(s, i)[k] = IF k < i THEN s[k] ELSE s[k + 1]
<1> DEFINE a == SubSeq(s, 1, i - 1)
           b == SubSeq(s, i + 1, Len(s))
<1>0. i \in 1..Len(s) /\ Len(s) \in Nat
  OBVIOUS
<1>1. /\ a \in Seq(S) /\ Len(a) = i - 1
      /\ \A k \in 1..(i - 1) : a[k] = s[k]
  BY <1>0, SubSeqProperties
<1>2. /\ b \in Seq(S) /\ Len(b) = Len(s) - i
      /\ \A k \in 1..(Len(s) - i) : b[k] = s[i + k]
  BY <1>0, SubSeqProperties
<1> HIDE DEF a, b
<1>3. /\ a \o b \in Seq(S) /\ Len(a \o b) = Len(s) - 1
      /\ \A k \in 1..(Len(s) - 1) :
           (a \o b)[k] = IF k <= i - 1 THEN a[k] ELSE b[k - (i - 1)]
  <2>1. /\ a \o b \in Seq(S) /\ Len(a \o b) = Len(a) + Len(b)
        /\ \A k \in 1..(Len(a) + Len(b)) :
             (a \o b)[k] = IF k <= Len(a) THEN a[k] ELSE b[k - Len(a)]
    BY <1>1, <1>2, ConcatProperties
  <2>2. Len(a) + Len(b) = Len(s) - 1
    BY <1>0, <1>1, <1>2
  <2> QED
    BY <2>1, <2>2, <1>1
<1>4. \A k \in 1..(Len(s) - 1) : (a \o b)[k] = IF k < i THEN s[k] ELSE s[k + 1]
  <2> SUFFICES ASSUME NEW k \in 1..(Len(s) - 1)
               PROVE  (a \o b)[k] = IF k < i THEN s[k] ELSE s[k + 1]
    OBVIOUS
  <2>1. CASE k < i
    BY <2>1, <1>0, <1>1, <1>3
  <2>2. CASE ~(k < i)
    <3>1. k - (i - 1) \in 1..(Len(s) - i) /\ i + (k - (i - 1)) = k + 1
      BY <2>2, <1>0
    <3>2. (a \o b)[k] = b[k - (i - 1)]
      BY <2>2, <1>0, <1>3
    <3>3. b[k - (i - 1)] = s[i + (k - (i - 1))]
      BY <3>1, <1>2
    <3> QED
      BY <3>1, <3>2, <3>3, <2>2
  <2> QED
    BY <2>1, <2>2
<1>5. RemoveAt(s, i) = a \o b
  BY DEF RemoveAt, a, b
<1>6. DOMAIN (a \o b) = 1..(Len(s) - 1)
  BY <1>3, LenProperties
<1> QED
  BY <1>3, <1>4, <1>5, <1>6, Zenon

(* The elements of a queue after Tail, Append and RemoveAt, by their index. *)
LEMMA TailIndex ==
  ASSUME NEW S, NEW s \in Seq(S), s # <<>>
  PROVE  /\ Head(s) \in S /\ Tail(s) \in Seq(S)
         /\ 1 \in DOMAIN s /\ s[1] = Head(s)
         /\ \A i \in DOMAIN Tail(s) :
              i + 1 \in DOMAIN s /\ i + 1 # 1 /\ Tail(s)[i] = s[i + 1]
         /\ \A k \in DOMAIN s : k # 1 =>
              k - 1 \in DOMAIN Tail(s) /\ Tail(s)[k - 1] = s[k]
  OBVIOUS

LEMMA AppendIndex ==
  ASSUME NEW S, NEW s \in Seq(S), NEW e \in S
  PROVE  /\ Append(s, e) \in Seq(S)
         /\ Len(s) + 1 \in DOMAIN Append(s, e)
         /\ Append(s, e)[Len(s) + 1] = e
         /\ \A i \in DOMAIN s : i \in DOMAIN Append(s, e) /\ Append(s, e)[i] = s[i]
         /\ \A i \in DOMAIN Append(s, e) : i = Len(s) + 1 \/ i \in DOMAIN s
         /\ Len(s) + 1 \notin DOMAIN s
  OBVIOUS

LEMMA RemoveAtIndex ==
  ASSUME NEW S, NEW s \in Seq(S), NEW i \in DOMAIN s
  PROVE  /\ \A k \in DOMAIN RemoveAt(s, i) :
              \E m \in DOMAIN s : m # i /\ RemoveAt(s, i)[k] = s[m]
                                 /\ m = IF k < i THEN k ELSE k + 1
         /\ \A m \in DOMAIN s : m # i =>
              \E k \in DOMAIN RemoveAt(s, i) : RemoveAt(s, i)[k] = s[m]
<1>1. /\ DOMAIN s = 1..Len(s) /\ Len(s) \in Nat
      /\ DOMAIN RemoveAt(s, i) = 1..(Len(s) - 1)
  BY RemoveAtType, LenProperties
<1>2. ASSUME NEW k \in DOMAIN RemoveAt(s, i)
      PROVE \E m \in DOMAIN s : m # i /\ RemoveAt(s, i)[k] = s[m]
                                 /\ m = IF k < i THEN k ELSE k + 1
  <2>1. (IF k < i THEN k ELSE k + 1) \in DOMAIN s
    BY <1>1
  <2>2. (IF k < i THEN k ELSE k + 1) # i
    BY <1>1
  <2>3. RemoveAt(s, i)[k] = s[IF k < i THEN k ELSE k + 1]
    BY RemoveAtType
  <2> QED
    BY <2>1, <2>2, <2>3
<1>3. ASSUME NEW m \in DOMAIN s, m # i
      PROVE \E k \in DOMAIN RemoveAt(s, i) : RemoveAt(s, i)[k] = s[m]
  <2> DEFINE k == IF m < i THEN m ELSE m - 1
  <2>1. k \in DOMAIN RemoveAt(s, i) /\ (IF k < i THEN k ELSE k + 1) = m
    BY <1>1, <1>3
  <2>2. RemoveAt(s, i)[k] = s[IF k < i THEN k ELSE k + 1]
    BY <2>1, RemoveAtType
  <2> QED
    BY <2>1, <2>2
<1> QED
  BY <1>2, <1>3

(* Dropping the first n elements.                                          *)
LEMMA DropIndex ==
  ASSUME NEW S, NEW s \in Seq(S), NEW n \in 0..Len(s)
  PROVE  LET r == SubSeq(s, n + 1, Len(s)) IN
         /\ r \in Seq(S) /\ Len(r) = Len(s) - n
         /\ \A i \in DOMAIN r : i + n \in DOMAIN s /\ i + n > n /\ r[i] = s[i + n]
         /\ \A k \in DOMAIN s : k > n => k - n \in DOMAIN r /\ r[k - n] = s[k]
<1> DEFINE r == SubSeq(s, n + 1, Len(s))
<1>1. Len(s) \in Nat /\ DOMAIN s = 1..Len(s)
  BY LenProperties
<1>2. /\ r \in Seq(S) /\ Len(r) = Len(s) - n
      /\ \A i \in 1..(Len(s) - n) : r[i] = s[n + i]
  <2>1. n + 1 \in 1..(Len(s) + 1) /\ Len(s) \in n..Len(s)
    BY <1>1
  <2>2. /\ r \in Seq(S)
        /\ Len(r) = IF n + 1 <= Len(s) THEN Len(s) - (n + 1) + 1 ELSE 0
        /\ \A i \in 1..(Len(s) - (n + 1) + 1) : r[i] = s[(n + 1) + i - 1]
    BY <2>1, <1>1, SubSeqProperties
  <2>3. ASSUME NEW i \in 1..(Len(s) - n)
        PROVE  i \in 1..(Len(s) - (n + 1) + 1) /\ (n + 1) + i - 1 = n + i
    BY <1>1
  <2> HIDE DEF r
  <2>4. Len(r) = Len(s) - n
    <3>1. CASE n < Len(s)
      <4>1. n + 1 <= Len(s) /\ Len(s) - (n + 1) + 1 = Len(s) - n
        BY <3>1, <1>1
      <4> QED
        BY <4>1, <2>2
    <3>2. CASE n = Len(s)
      <4>1. ~(n + 1 <= Len(s)) /\ Len(s) - n = 0
        BY <3>2, <1>1
      <4> QED
        BY <4>1, <2>2, Zenon
    <3>3. \A a, b \in Nat : a \in 0..b => a < b \/ a = b
      OBVIOUS
    <3>4. n \in Nat
      BY <1>1
    <3> QED
      BY <3>1, <3>2, <3>3, <3>4, <1>1, Zenon
  <2>5. ASSUME NEW i \in 1..(Len(s) - n)
        PROVE  r[i] = s[n + i]
    BY <2>2, <2>3
  <2> QED
    BY <2>2, <2>4, <2>5
<1> HIDE DEF r
<1>3. DOMAIN r = 1..(Len(s) - n)
  BY <1>2, LenProperties
<1>4. ASSUME NEW i \in DOMAIN r
      PROVE  i + n \in DOMAIN s /\ i + n > n /\ r[i] = s[i + n]
  <2>1. n + i = i + n /\ i \in 1..(Len(s) - n)
    BY <1>1, <1>3
  <2> QED
    BY <2>1, <1>1, <1>2
<1>5. ASSUME NEW k \in DOMAIN s, k > n
      PROVE  k - n \in DOMAIN r /\ r[k - n] = s[k]
  <2>1. k - n \in 1..(Len(s) - n) /\ n + (k - n) = k
    BY <1>1, <1>5
  <2> QED
    BY <2>1, <1>2, <1>3
<1> QED
  BY <1>2, <1>4, <1>5 DEF r
=============================================================================
