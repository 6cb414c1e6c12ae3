-------------------------- MODULE EntryGuardsProofs --------------------------
(***************************************************************************)
(* Proofs about EntryGuards: the types, and that the flags and lists of a  *)
(* guard selection agree with each other and with the circuits.  Handlers  *)
(* are compositions of operators on a selection; each operator has a lemma *)
(* that says what it keeps, and an action composes them.                   *)
(***************************************************************************)
EXTENDS EntryGuards, FiniteSetTheorems, TLAPS

(* The shape of a guard selection.                                         *)
Selections ==
  [sampled : SUBSET Guards, next : 1..(LastGuard + 1),
   reach : [Guards -> {YES, NO, MAYBE}],
   filtered : SUBSET Guards, usable : SUBSET Guards,
   confirmed_idx : [Guards -> Int], next_confirmed_idx : Nat,
   primary : SUBSET Guards, pending : SUBSET Guards, up_to_date : BOOLEAN]

(* What holds of a selection at any point of a handler: a guard yet to be  *)
(* sampled is in no list, and a guard is usable if it passes the filter    *)
(* and is not known to be down.                                            *)
Lists(s) ==
  /\ s \in Selections
  /\ \A g \in s.sampled : g < s.next
  /\ s.filtered \subseteq s.sampled /\ s.primary \subseteq s.sampled
  /\ s.pending \subseteq s.sampled /\ Confirmed(s) \subseteq s.sampled
  /\ s.usable = {g \in s.filtered : s.reach[g] # NO}

(* The indexes of the confirmed guards order them.                         *)
Order(s) ==
  \A g, h \in Confirmed(s) : /\ s.confirmed_idx[g] < s.next_confirmed_idx
                             /\ s.confirmed_idx[g] = s.confirmed_idx[h] => g = h

Numbered(s) == Order(s) /\ s.next_confirmed_idx = Cardinality(Confirmed(s))

(* The primary guards are the ones entry_guards_update_primary chooses.    *)
Ranked(s) ==
  /\ s.primary \subseteq s.filtered
  /\ \A g \in (Confirmed(s) \intersect s.filtered) \ s.primary :
       /\ Cardinality(s.primary) = N_PRIMARY_GUARDS
       /\ \A p \in s.primary : p \in Confirmed(s) /\ p < g

(* Out of date selections are the ones that need not be ranked.            *)
Cached(s) == s.up_to_date => Ranked(s)

(* The confirmed guards are not touched.                                   *)
SameIndexes(s, t) ==
  t.confirmed_idx = s.confirmed_idx /\ t.next_confirmed_idx = s.next_confirmed_idx

(* From s to t the sample may grow, by guards that were never in it.       *)
Grows(s, t) ==
  /\ SameIndexes(s, t)
  /\ s.sampled \subseteq t.sampled /\ s.next <= t.next
  /\ \A g \in t.sampled \ s.sampled : g >= s.next
  /\ t.filtered \intersect s.sampled = s.filtered
  /\ t.pending = s.pending

(* The primary guards stay, and are up to date only if the filtered ones    *)
(* have stayed too.                                                        *)
KeepsPrimary(s, t) ==
  /\ t.primary = s.primary
  /\ t.up_to_date => s.up_to_date /\ t.filtered = s.filtered

-----------------------------------------------------------------------------
(* Sets of guards.                                                         *)

LEMMA GuardsFinite ==
  /\ IsFiniteSet(Guards)
  /\ \A S \in SUBSET Guards : IsFiniteSet(S) /\ Cardinality(S) \in Nat
<1>1. IsFiniteSet(Guards)
  BY FS_Interval, EntryGuardsAssumption DEF Guards
<1> QED
  BY <1>1, FS_Subset, FS_CardinalityType

(* The members of S that f puts before g.                                  *)
Before(S, f, g) == {h \in S : f[h] < f[g]}

(* Counting a set of guards in the order f gives them: the number of       *)
(* members before it numbers a member, from 0 and without gaps.            *)
LEMMA RankIsBijective ==
  ASSUME NEW S \in SUBSET Guards, NEW f, \A g \in S : f[g] \in Int,
         \A g, h \in S : f[g] = f[h] => g = h
  PROVE  [g \in S |-> Cardinality(Before(S, f, g))]
           \in Bijection(S, 0..(Cardinality(S) - 1))
<1> DEFINE rank == [g \in S |-> Cardinality(Before(S, f, g))]
           T == 0..(Cardinality(S) - 1)
<1>1. IsFiniteSet(S) /\ Cardinality(S) \in Nat
  BY GuardsFinite
<1>2. ASSUME NEW g \in S
      PROVE  /\ Before(S, f, g) \in SUBSET S /\ g \notin Before(S, f, g)
             /\ IsFiniteSet(Before(S, f, g)) /\ Cardinality(Before(S, f, g)) \in Nat
  <2>1. Before(S, f, g) \in SUBSET S /\ g \notin Before(S, f, g)
    BY DEF Before
  <2>2. Before(S, f, g) \in SUBSET Guards
    BY <2>1
  <2> QED
    BY <2>1, <2>2, GuardsFinite
<1>3. ASSUME NEW g \in S
      PROVE  rank[g] \in T
  <2>1. Cardinality(Before(S, f, g)) <= Cardinality(S)
        /\ (Cardinality(S) = Cardinality(Before(S, f, g)) => S = Before(S, f, g))
    BY <1>1, <1>2, FS_Subset
  <2>2. Cardinality(Before(S, f, g)) \in T
    BY <2>1, <1>1, <1>2
  <2> QED
    BY <2>2
<1>4. ASSUME NEW g \in S, NEW k \in S, f[g] < f[k]
      PROVE  rank[g] < rank[k]
  <2>1. Before(S, f, g) \in SUBSET Before(S, f, k) /\ g \in Before(S, f, k)
    BY <1>4 DEF Before
  <2>2. Cardinality(Before(S, f, g)) <= Cardinality(Before(S, f, k))
        /\ (Cardinality(Before(S, f, k)) = Cardinality(Before(S, f, g))
              => Before(S, f, k) = Before(S, f, g))
    BY <2>1, <1>2, FS_Subset
  <2>3. Cardinality(Before(S, f, g)) < Cardinality(Before(S, f, k))
    BY <2>1, <2>2, <1>2
  <2> QED
    BY <2>3
<1>5. rank \in [S -> T]
  BY <1>3
<1>6. \A g, k \in S : rank[g] = rank[k] => g = k
  <2> SUFFICES ASSUME NEW g \in S, NEW k \in S, g # k
               PROVE  rank[g] # rank[k]
    OBVIOUS
  <2>1. f[g] < f[k] \/ f[k] < f[g]
    OBVIOUS
  <2>2. rank[g] \in Nat /\ rank[k] \in Nat
    BY <1>3, <1>1
  <2> HIDE DEF rank
  <2> QED
    BY <2>1, <2>2, <1>4
<1> HIDE DEF rank
<1>7. rank \in Injection(S, T)
  BY <1>5, <1>6 DEF Injection, IsInjective
<1>8. IsFiniteSet(T) /\ Cardinality(T) = Cardinality(S)
  BY <1>1, FS_Interval, SMTT(30)
<1>9. rank \in Surjection(S, T)
  BY <1>7, <1>8, FS_Injection
<1>10. rank \in Bijection(S, T)
  BY <1>7, <1>9 DEF Bijection
<1> QED
  BY <1>10 DEF rank

(* Who is not among the first n of S: there are n of them, all before.     *)
LEMMA FirstNBefore ==
  ASSUME NEW S \in SUBSET Guards, NEW n \in Nat, NEW g \in S, g \notin FirstN(S, n)
  PROVE  /\ Cardinality(FirstN(S, n)) = n
         /\ \A p \in FirstN(S, n) : p < g
<1> DEFINE rank == [h \in S |-> Cardinality({k \in S : k < h})]
           F == FirstN(S, n)
<1>1. rank \in Bijection(S, 0..(Cardinality(S) - 1))
  <2> DEFINE id == [h \in S |-> h]
  <2>1. \A h \in S : id[h] \in Int
    BY EntryGuardsAssumption DEF Guards
  <2>2. \A h, k \in S : id[h] = id[k] => h = k
    OBVIOUS
  <2>3. \A h \in S : Before(S, id, h) = {k \in S : k < h}
    BY DEF Before
  <2>4. rank = [h \in S |-> Cardinality(Before(S, id, h))]
    BY <2>3
  <2> HIDE DEF id, rank
  <2> QED
    BY <2>1, <2>2, <2>4, RankIsBijective
<1>2. F = {h \in S : rank[h] < n}
  BY DEF FirstN
<1>3. \A h, k \in S : h <= k => rank[h] <= rank[k]
  <2> SUFFICES ASSUME NEW h \in S, NEW k \in S, h <= k
               PROVE  rank[h] <= rank[k]
    OBVIOUS
  <2>1. \A i \in S : i \in Nat
    BY EntryGuardsAssumption DEF Guards
  <2>2. {i \in S : i < h} \in SUBSET {i \in S : i < k}
    BY <2>1
  <2>3. {i \in S : i < k} \in SUBSET Guards
    OBVIOUS
  <2>4. IsFiniteSet({i \in S : i < k})
    BY <2>3, GuardsFinite
  <2>5. Cardinality({i \in S : i < h}) <= Cardinality({i \in S : i < k})
    BY <2>2, <2>4, FS_Subset
  <2> QED
    BY <2>5
<1>4. Cardinality(S) \in Nat
  BY GuardsFinite
<1> HIDE DEF rank, F
<1>5. \A h \in S : rank[h] \in 0..(Cardinality(S) - 1)
  BY <1>1 DEF Bijection, Injection
<1>6. rank[g] >= n
  BY <1>2, <1>5, <1>4 DEF F
<1>7. \A p \in F : p < g
  <2> SUFFICES ASSUME NEW p \in F
               PROVE  p < g
    OBVIOUS
  <2>1. p \in S /\ rank[p] < n
    BY <1>2
  <2>2. p \in Nat /\ g \in Nat
    BY <2>1, EntryGuardsAssumption DEF Guards
  <2>3. rank[p] \in Nat /\ rank[g] \in Nat
    BY <2>1, <1>5, <1>4
  <2> QED
    BY <2>1, <2>2, <2>3, <1>3, <1>6
<1> DEFINE r == [h \in F |-> rank[h]]
           T == 0..(n - 1)
<1>8. r \in [F -> T]
  BY <1>2, <1>5, <1>4
<1>9. \A h, k \in F : r[h] = r[k] => h = k
  BY <1>1, <1>2 DEF Bijection, Injection, IsInjective
<1>10. \A j \in T : \E h \in F : r[h] = j
  <2> SUFFICES ASSUME NEW j \in T
               PROVE  \E h \in F : r[h] = j
    OBVIOUS
  <2>1. j \in 0..(Cardinality(S) - 1)
    BY <1>5, <1>6, <1>4
  <2>2. PICK h \in S : rank[h] = j
    BY <1>1, <2>1 DEF Bijection, Surjection
  <2>3. h \in F
    BY <2>2, <1>2
  <2> QED
    BY <2>2, <2>3
<1> HIDE DEF r
<1>11. r \in Injection(F, T) /\ r \in Surjection(F, T)
  BY <1>8, <1>9, <1>10 DEF Injection, IsInjective, Surjection
<1>12. IsFiniteSet(T) /\ Cardinality(T) = n
  <2>1. \A a, b \in Int : /\ IsFiniteSet(a..b)
                          /\ Cardinality(a..b) = IF a > b THEN 0 ELSE b - a + 1
    BY FS_Interval
  <2>2. IsFiniteSet(T) /\ Cardinality(T) = IF 0 > n - 1 THEN 0 ELSE (n - 1) - 0 + 1
    BY <2>1
  <2> QED
    BY <2>2
<1>13. Cardinality(F) = n
  BY <1>11, <1>12, FS_Injection
<1> QED
  BY <1>7, <1>13 DEF F

LEMMA FirstNNone ==
  ASSUME NEW S \in SUBSET Guards
  PROVE  FirstN(S, 0) = {}
<1>1. \A g \in S : Cardinality({h \in S : h < g}) \in Nat
  BY GuardsFinite
<1> QED
  BY <1>1 DEF FirstN

-----------------------------------------------------------------------------
(* What the operators on a selection keep.                                 *)

(* Only reachability may change.                                           *)
SameLists(s, t) ==
  /\ SameIndexes(s, t)
  /\ t.sampled = s.sampled /\ t.next = s.next /\ t.filtered = s.filtered
  /\ t.primary = s.primary /\ t.pending = s.pending /\ t.up_to_date = s.up_to_date

LEMMA SameConfirmed ==
  ASSUME NEW s, NEW t, SameIndexes(s, t)
  PROVE  Confirmed(t) = Confirmed(s) /\ (Order(s) => Order(t)) /\ (Numbered(s) => Numbered(t))
BY DEF SameIndexes, Confirmed, Order, Numbered

LEMMA SameIsRanked ==
  ASSUME NEW s, NEW t, SameLists(s, t)
  PROVE  /\ Ranked(s) => Ranked(t)
         /\ Cached(s) => Cached(t)
         /\ Lists(s) => Grows(s, t)
<1>1. Confirmed(t) = Confirmed(s)
  BY SameConfirmed DEF SameLists
<1>2. Ranked(s) => Ranked(t)
  BY <1>1 DEF Ranked, SameLists
<1>3. ASSUME Lists(s)
      PROVE  Grows(s, t)
  <2>1. s.next \in Int
    BY <1>3, EntryGuardsAssumption DEF Lists, Selections
  <2>2. s.filtered \subseteq s.sampled
    BY <1>3 DEF Lists
  <2> QED
    BY <2>1, <2>2 DEF Grows, SameLists
<1> QED
  BY <1>2, <1>3 DEF Cached, SameLists

LEMMA GrowsTransitive ==
  ASSUME NEW r, NEW s, NEW t, Lists(r), Lists(s), Lists(t), Grows(r, s), Grows(s, t)
  PROVE  Grows(r, t)
<1>1. r.next \in Int /\ s.next \in Int /\ t.next \in Int
  BY EntryGuardsAssumption DEF Lists, Selections
<1>2. \A g \in t.sampled : g \in Int
  BY EntryGuardsAssumption DEF Lists, Selections, Guards
<1>3. r.next <= t.next
  BY <1>1 DEF Grows
<1>4. ASSUME NEW g \in t.sampled \ r.sampled
      PROVE  g >= r.next
  BY <1>1, <1>2 DEF Grows
<1>5. SameIndexes(r, t) /\ r.sampled \subseteq t.sampled /\ t.pending = r.pending
  BY DEF Grows, SameIndexes
<1>6. t.filtered \intersect r.sampled = r.filtered
  BY DEF Grows
<1> QED
  BY <1>3, <1>4, <1>5, <1>6 DEF Grows

LEMMA ReachableMaybeKeeps ==
  ASSUME NEW s, Lists(s), NEW S
  PROVE  Lists(ReachableMaybe(s, S)) /\ SameLists(s, ReachableMaybe(s, S))
<1> DEFINE again == S \intersect Down(s)
           t == ReachableMaybe(s, S)
<1>1. s \in Selections
  BY DEF Lists
<1>2. /\ t.reach = [g \in Guards |-> IF g \in again THEN MAYBE ELSE s.reach[g]]
      /\ t.usable = s.usable \union (again \intersect s.filtered)
      /\ SameLists(s, t)
  BY <1>1 DEF Selections, ReachableMaybe, SameLists, SameIndexes
<1>3. t \in Selections
  BY <1>1 DEF Selections, ReachableMaybe, Lists
<1>4. again \subseteq s.sampled /\ s.filtered \subseteq Guards /\ \A g \in again : s.reach[g] = NO
  BY <1>1 DEF Down, Selections
<1>5. s.usable = {g \in s.filtered : s.reach[g] # NO}
  BY DEF Lists
<1> HIDE DEF again, t
<1>6. t.usable = {g \in t.filtered : t.reach[g] # NO}
  BY <1>2, <1>4, <1>5 DEF SameLists, NO, MAYBE
<1>7. Confirmed(t) = Confirmed(s)
  BY <1>2, SameConfirmed DEF SameLists
<1>8. Lists(t)
  BY <1>2, <1>3, <1>6, <1>7 DEF Lists, SameLists
<1> QED
  BY <1>2, <1>8 DEF t

LEMMA ConsiderRetryKeeps ==
  ASSUME NEW s, Lists(s), NEW due
  PROVE  /\ Lists(entry_guard_consider_retry(s, due))
         /\ SameLists(s, entry_guard_consider_retry(s, due))
BY ReachableMaybeKeeps DEF entry_guard_consider_retry

(* Setting the filtered flags of the guards of S: the primary guards stay  *)
(* up to date only if no flag has changed.                                 *)
Reflagged(s, S, ok, t) ==
  /\ SameIndexes(s, t)
  /\ t.sampled = s.sampled /\ t.next = s.next
  /\ t.primary = s.primary /\ t.pending = s.pending
  /\ t.filtered = (s.filtered \ S) \union (S \intersect ok)
  /\ t.up_to_date => s.up_to_date /\ t.filtered = s.filtered

LEMMA SetFilteredKeeps ==
  ASSUME NEW s, Lists(s), NEW S \in SUBSET s.sampled, NEW ok, NEW due
  PROVE  /\ Lists(entry_guard_set_filtered_flags(s, S, ok, due))
         /\ Reflagged(s, S, ok, entry_guard_set_filtered_flags(s, S, ok, due))
<1> DEFINE new == S \intersect ok
           f == [s EXCEPT !.filtered = (@ \ S) \union new,
                          !.usable = (@ \ S) \union {g \in new : s.reach[g] # NO},
                          !.up_to_date = @ /\ s.filtered \intersect S = new]
           t == entry_guard_set_filtered_flags(s, S, ok, due)
<1>1. s \in Selections
  BY DEF Lists
<1>2. /\ f.filtered = (s.filtered \ S) \union new
      /\ f.usable = (s.usable \ S) \union {g \in new : s.reach[g] # NO}
      /\ f.up_to_date = (s.up_to_date /\ s.filtered \intersect S = new)
      /\ f.sampled = s.sampled /\ f.next = s.next /\ f.reach = s.reach
      /\ f.primary = s.primary /\ f.pending = s.pending
      /\ SameIndexes(s, f)
  BY <1>1 DEF Selections, SameIndexes
<1>3. new \subseteq S /\ S \subseteq s.sampled
  OBVIOUS
<1>4. f \in Selections
  <2>1. (s.filtered \ S) \union new \in SUBSET Guards
    BY <1>1, <1>3 DEF Selections
  <2>2. (s.usable \ S) \union {g \in new : s.reach[g] # NO} \in SUBSET Guards
    BY <1>1, <1>3 DEF Selections
  <2>3. (s.up_to_date /\ s.filtered \intersect S = new) \in BOOLEAN
    OBVIOUS
  <2> QED
    BY <1>1, <2>1, <2>2, <2>3 DEF Selections
<1>5. t = entry_guard_consider_retry(f, due \intersect new)
  BY DEF entry_guard_set_filtered_flags
<1>6. Confirmed(f) = Confirmed(s)
  BY <1>2, SameConfirmed
<1> HIDE DEF new, f, t
<1>7. f.usable = {g \in f.filtered : f.reach[g] # NO}
  BY <1>2, <1>3 DEF Lists
<1>8. f.filtered \subseteq s.sampled
  BY <1>2, <1>3 DEF Lists
<1>9. Lists(f)
  BY <1>2, <1>4, <1>6, <1>7, <1>8 DEF Lists
<1>10. Lists(t) /\ SameLists(f, t)
  BY <1>5, <1>9, ConsiderRetryKeeps
<1>11. f.up_to_date => s.up_to_date /\ f.filtered = s.filtered
  BY <1>2
<1>12. /\ SameIndexes(s, t)
       /\ t.sampled = s.sampled /\ t.next = s.next
       /\ t.primary = s.primary /\ t.pending = s.pending
       /\ t.filtered = (s.filtered \ S) \union new
       /\ t.up_to_date => s.up_to_date /\ t.filtered = s.filtered
  BY <1>2, <1>10, <1>11 DEF SameLists, SameIndexes
<1> QED
  BY <1>10, <1>12 DEF t, new, Reflagged

(* The guards that the loop of entry_guards_expand_sample adds are the next *)
(* ones in sampled order, without a gap: they are fewer than `next' grows.  *)
NewGuards(next, u, n, ok) ==
  {g \in next..LastGuard :
     /\ u + Cardinality((next..(g - 1)) \intersect ok) < MIN_FILTERED_SAMPLE
     /\ n + (g - next) < MAX_SAMPLE}

LEMMA NewGuardsAreNext ==
  ASSUME NEW next \in 1..(LastGuard + 1), NEW u \in Int, NEW n \in Int, NEW ok
  PROVE  /\ next + Cardinality(NewGuards(next, u, n, ok)) \in next..(LastGuard + 1)
         /\ \A g \in NewGuards(next, u, n, ok) :
              g < next + Cardinality(NewGuards(next, u, n, ok))
<1> DEFINE before(g) == (next..(g - 1)) \intersect ok
           new == {g \in next..LastGuard :
                     /\ u + Cardinality(before(g)) < MIN_FILTERED_SAMPLE
                     /\ n + (g - next) < MAX_SAMPLE}
<1>1. LastGuard \in Nat /\ MIN_FILTERED_SAMPLE \in Nat /\ MAX_SAMPLE \in Nat
  BY EntryGuardsAssumption
<1>2. \A a, b \in Int : /\ IsFiniteSet(a..b)
                        /\ Cardinality(a..b) = IF a > b THEN 0 ELSE b - a + 1
  BY FS_Interval
<1>3. IsFiniteSet(next..LastGuard) /\ Cardinality(next..LastGuard) = LastGuard - next + 1
  <2>1. next \in Int /\ LastGuard \in Int /\ next <= LastGuard + 1
    BY <1>1
  <2>2. IsFiniteSet(next..LastGuard)
        /\ Cardinality(next..LastGuard) = IF next > LastGuard THEN 0 ELSE LastGuard - next + 1
    BY <1>2, <2>1
  <2> QED
    BY <2>1, <2>2
<1>4. new \in SUBSET (next..LastGuard)
  OBVIOUS
<1>5. IsFiniteSet(new) /\ Cardinality(new) <= LastGuard - next + 1
  BY <1>3, <1>4, FS_Subset, ZenonT(30)
<1>6. Cardinality(new) \in Nat
  BY <1>5, FS_CardinalityType
<1>7. ASSUME NEW g \in next..LastGuard
      PROVE  IsFiniteSet(before(g)) /\ Cardinality(before(g)) \in Nat
  <2>1. before(g) \in SUBSET (next..(g - 1)) /\ IsFiniteSet(next..(g - 1))
    BY <1>1, <1>2
  <2>2. IsFiniteSet(before(g))
    BY <2>1, FS_Subset
  <2> QED
    BY <2>2, FS_CardinalityType
<1>8. ASSUME NEW g \in next..LastGuard, NEW h \in next..g
      PROVE  Cardinality(before(h)) <= Cardinality(before(g))
  <2>1. before(h) \in SUBSET before(g)
    BY <1>1
  <2> QED
    BY <2>1, <1>7, FS_Subset
<1>9. ASSUME NEW g \in new
      PROVE  next..g \in SUBSET new
  <2> SUFFICES ASSUME NEW h \in next..g
               PROVE  h \in new
    OBVIOUS
  <2>1. h \in next..LastGuard /\ g \in next..LastGuard
    BY <1>1
  <2>2. Cardinality(before(h)) \in Nat /\ Cardinality(before(g)) \in Nat
    BY <2>1, <1>7
  <2>3. Cardinality(before(h)) <= Cardinality(before(g))
    BY <2>1, <1>8
  <2>4. u + Cardinality(before(g)) < MIN_FILTERED_SAMPLE /\ n + (g - next) < MAX_SAMPLE
    BY <1>9
  <2> HIDE DEF before
  <2> QED
    BY <1>1, <2>1, <2>2, <2>3, <2>4
<1>10. ASSUME NEW g \in new
       PROVE  g < next + Cardinality(new)
  <2>1. Cardinality(next..g) <= Cardinality(new)
    BY <1>5, <1>9, FS_Subset
  <2>2. g \in Int /\ next <= g
    BY <1>1, <1>4
  <2>3. Cardinality(next..g) = g - next + 1
    BY <1>2, <2>2
  <2> HIDE DEF new
  <2> QED
    BY <1>6, <2>1, <2>2, <2>3
<1>11. next + Cardinality(new) \in next..(LastGuard + 1)
  <2> HIDE DEF new
  <2> QED
    BY <1>1, <1>5, <1>6
<1>12. new = NewGuards(next, u, n, ok)
  BY DEF NewGuards
<1> QED
  BY <1>10, <1>11, <1>12

LEMMA ExpandSampleKeeps ==
  ASSUME NEW s, Lists(s), NEW ok
  PROVE  LET t == entry_guards_expand_sample(s, ok)
         IN  Lists(t) /\ Grows(s, t) /\ KeepsPrimary(s, t)
<1> DEFINE new == NewGuards(s.next, Cardinality(s.usable), Cardinality(s.sampled), ok)
           x == [s EXCEPT !.sampled = @ \union new, !.next = @ + Cardinality(new)]
           t == entry_guards_expand_sample(s, ok)
<1>1. t = entry_guard_set_filtered_flags(x, new, ok, {})
  BY DEF entry_guards_expand_sample, NewGuards
<1>2. s \in Selections /\ s.next \in 1..(LastGuard + 1) /\ LastGuard \in Nat
  BY EntryGuardsAssumption DEF Lists, Selections
<1>3. Cardinality(s.usable) \in Nat /\ Cardinality(s.sampled) \in Nat
  BY <1>2, GuardsFinite DEF Selections
<1>4. /\ s.next + Cardinality(new) \in s.next..(LastGuard + 1)
      /\ \A g \in new : g < s.next + Cardinality(new)
  BY <1>2, <1>3, NewGuardsAreNext
<1>5. new \subseteq Guards /\ \A g \in new : g >= s.next /\ g \in Int
  BY <1>2 DEF Guards, NewGuards
<1> HIDE DEF new
<1>6. /\ x.sampled = s.sampled \union new /\ x.next = s.next + Cardinality(new)
      /\ x.reach = s.reach /\ x.filtered = s.filtered /\ x.usable = s.usable
      /\ x.primary = s.primary /\ x.pending = s.pending
      /\ x.up_to_date = s.up_to_date /\ SameIndexes(s, x)
  BY <1>2 DEF Selections, SameIndexes
<1>7. x \in Selections
  <2>1. s.next + Cardinality(new) \in 1..(LastGuard + 1)
    BY <1>2, <1>4
  <2>2. s.sampled \union new \in SUBSET Guards
    BY <1>2, <1>5 DEF Selections
  <2> QED
    BY <1>2, <2>1, <2>2 DEF Selections
<1> HIDE DEF x, t
<1>8. Confirmed(x) = Confirmed(s)
  BY <1>6, SameConfirmed
<1>9. \A g \in x.sampled : g < x.next
  <2> SUFFICES ASSUME NEW g \in s.sampled
               PROVE  g < x.next
    BY <1>4, <1>6
  <2>1. g \in Int /\ g < s.next
    BY <1>2 DEF Lists, Selections, Guards
  <2> QED
    BY <1>2, <1>4, <1>6, <2>1
<1>10. Lists(x)
  BY <1>6, <1>7, <1>8, <1>9 DEF Lists
<1>11. new \in SUBSET x.sampled
  BY <1>6
<1>12. Lists(t) /\ Reflagged(x, new, ok, t)
  BY <1>1, <1>10, <1>11, SetFilteredKeeps
<1>13. new \intersect s.sampled = {}
  BY <1>2, <1>5 DEF Lists, Selections, Guards
<1>14. t.filtered \intersect s.sampled = s.filtered
  BY <1>6, <1>12, <1>13 DEF Lists, Reflagged
<1>15. s.next <= t.next
  BY <1>2, <1>4, <1>6, <1>12 DEF Reflagged
<1>16. Grows(s, t)
  BY <1>5, <1>6, <1>12, <1>14, <1>15 DEF Grows, SameIndexes, Reflagged
<1>17. KeepsPrimary(s, t)
  BY <1>6, <1>12 DEF KeepsPrimary, Reflagged
<1> QED
  BY <1>12, <1>16, <1>17 DEF t

LEMMA SampleEnoughKeeps ==
  ASSUME NEW s, Lists(s), NEW rst, NEW ok, NEW due
  PROVE  LET t == sample_enough(s, rst, ok, due)
         IN  Lists(t) /\ Grows(s, t) /\ KeepsPrimary(s, t)
<1> DEFINE r == entry_guard_consider_retry(s, due)
           t == sample_enough(s, rst, ok, due)
<1>1. Lists(r) /\ SameLists(s, r) /\ Grows(s, r)
  BY ConsiderRetryKeeps, SameIsRanked
<1>2. t = entry_guards_expand_sample(r, ok) \/ t = r
  BY DEF sample_enough
<1> HIDE DEF r, t
<1>3. CASE t = r
  BY <1>1, <1>3 DEF SameLists, KeepsPrimary, t
<1>4. CASE t = entry_guards_expand_sample(r, ok)
  <2>1. Lists(t) /\ Grows(r, t) /\ KeepsPrimary(r, t)
    BY <1>1, <1>4, ExpandSampleKeeps
  <2>2. Grows(s, t)
    BY <1>1, <2>1, GrowsTransitive
  <2> QED
    BY <1>1, <2>1, <2>2 DEF SameLists, KeepsPrimary, t
<1> QED
  BY <1>2, <1>3, <1>4

(* Updating the primary guards ranks them, whatever the selection was like. *)
Settled(t) == Lists(t) /\ Ranked(t) /\ t.up_to_date

LEMMA FirstNSubset ==
  ASSUME NEW S, NEW n
  PROVE  FirstN(S, n) \subseteq S
BY DEF FirstN

LEMMA UpdatePrimaryKeeps ==
  ASSUME NEW s, Lists(s), NEW ok, NEW due
  PROVE  LET t == entry_guards_update_primary(s, ok, due)
         IN  Settled(t) /\ Grows(s, t)
<1> DEFINE N == N_PRIMARY_GUARDS
           CF == Confirmed(s) \intersect s.filtered
           best == FirstN(CF, N)
           rest == (s.primary \ best) \intersect s.filtered
           kept == FirstN(rest, N - Cardinality(best))
           old == [s EXCEPT !.primary = best \union kept]
           filled == IF Cardinality(old.primary) < N THEN sample_enough(old, None, ok, due)
                                                     ELSE old
           new == filled.usable \ (Confirmed(s) \union old.primary)
           fill == FirstN(new, N - Cardinality(old.primary))
           t == entry_guards_update_primary(s, ok, due)
<1>1. t = [filled EXCEPT !.primary = @ \union fill, !.up_to_date = TRUE]
  BY DEF entry_guards_update_primary
<1>2. s \in Selections /\ s.filtered \subseteq s.sampled /\ s.sampled \subseteq Guards
  BY DEF Lists, Selections
<1>3. best \subseteq CF /\ kept \subseteq rest /\ fill \subseteq new
  BY FirstNSubset
<1>4. old.primary = best \union kept
  BY <1>2 DEF Selections
<1>5. /\ old.sampled = s.sampled /\ old.next = s.next /\ old.reach = s.reach
      /\ old.filtered = s.filtered /\ old.usable = s.usable
      /\ old.pending = s.pending /\ SameIndexes(s, old)
  BY <1>2 DEF Selections, SameIndexes
<1>6. best \union kept \subseteq s.filtered
  BY <1>3
<1>7. old \in Selections
  <2>1. best \union kept \in SUBSET Guards
    BY <1>2, <1>6
  <2> HIDE DEF best, kept
  <2> QED
    BY <1>2, <2>1 DEF Selections
<1>8. Confirmed(old) = Confirmed(s)
  BY <1>5, SameConfirmed
<1> HIDE DEF best, kept, old
<1>9. Lists(old)
  BY <1>2, <1>4, <1>5, <1>6, <1>7, <1>8 DEF Lists
<1>10. Grows(s, old)
  <2>1. s.next \in Int
    BY <1>2, EntryGuardsAssumption DEF Selections
  <2> QED
    BY <1>2, <1>5, <2>1 DEF Grows
<1>11. Lists(filled) /\ Grows(old, filled) /\ filled.primary = old.primary
  <2>1. CASE filled = old
    <3>1. SameLists(old, old)
      BY DEF SameLists, SameIndexes
    <3> QED
      BY <1>9, <2>1, <3>1, SameIsRanked
  <2>2. CASE filled = sample_enough(old, None, ok, due)
    BY <1>9, <2>2, SampleEnoughKeeps DEF KeepsPrimary
  <2> QED
    BY <2>1, <2>2
<1>12. Grows(s, filled)
  BY <1>9, <1>10, <1>11, GrowsTransitive
<1> HIDE DEF filled, fill
<1>13. filled \in Selections /\ filled.filtered \subseteq Guards
       /\ filled.filtered \subseteq filled.sampled /\ filled.usable \subseteq filled.filtered
  BY <1>11 DEF Lists, Selections
<1>14. /\ t.primary = filled.primary \union fill /\ t.up_to_date
       /\ t.sampled = filled.sampled /\ t.next = filled.next /\ t.reach = filled.reach
       /\ t.filtered = filled.filtered /\ t.usable = filled.usable
       /\ t.pending = filled.pending /\ SameIndexes(filled, t)
  BY <1>1, <1>13 DEF Selections, SameIndexes
<1>15. t.primary = (best \union kept) \union fill
  BY <1>4, <1>11, <1>14
<1>16. t.primary \subseteq t.filtered
  BY <1>3, <1>6, <1>12, <1>13, <1>14, <1>15 DEF Grows
<1>17. t \in Selections
  <2>1. filled.primary \union fill \in SUBSET Guards
    BY <1>13, <1>14, <1>16
  <2> QED
    BY <1>1, <1>13, <2>1 DEF Selections
<1>18. SameIndexes(s, t)
  BY <1>12, <1>14 DEF Grows, SameIndexes
<1>19. Confirmed(t) = Confirmed(s) /\ Confirmed(t) = Confirmed(filled)
  BY <1>14, <1>18, SameConfirmed
<1> HIDE DEF t
<1>20. Lists(t)
  BY <1>11, <1>13, <1>14, <1>16, <1>17, <1>19 DEF Lists
<1>21. Grows(s, t)
  BY <1>12, <1>14, <1>18 DEF Grows
<1>22. Confirmed(t) \intersect t.filtered = CF
  BY <1>12, <1>14, <1>19 DEF Grows, Lists
<1>23. ASSUME NEW g \in CF, g \notin t.primary
       PROVE  /\ Cardinality(t.primary) = N
              /\ \A p \in t.primary : p \in Confirmed(t) /\ p < g
  <2>1. N \in Nat /\ CF \in SUBSET Guards /\ rest \in SUBSET Guards /\ new \in SUBSET Guards
    BY <1>2, <1>13, EntryGuardsAssumption
  <2>2. g \notin FirstN(CF, N)
    BY <1>15, <1>23 DEF best
  <2>3. Cardinality(best) = N /\ \A p \in best : p < g
    BY <2>1, <2>2, FirstNBefore DEF best
  <2>4. N - Cardinality(best) = 0
    BY <2>1, <2>3
  <2>5. kept = {}
    BY <2>1, <2>4, FirstNNone DEF kept
  <2>6. N - Cardinality(old.primary) = 0
    BY <1>4, <2>4, <2>5
  <2>7. fill = {}
    BY <2>1, <2>6, FirstNNone DEF fill
  <2>8. t.primary = best
    BY <1>15, <2>5, <2>7
  <2> QED
    BY <1>3, <1>19, <2>3, <2>8
<1>24. Ranked(t)
  BY <1>16, <1>22, <1>23 DEF Ranked
<1> QED
  BY <1>14, <1>20, <1>21, <1>24 DEF t, Settled

LEMMA PrimaryUpToDateKeeps ==
  ASSUME NEW s, Lists(s), Cached(s), NEW ok, NEW due
  PROVE  Settled(PrimaryUpToDate(s, ok, due)) /\ Grows(s, PrimaryUpToDate(s, ok, due))
<1>1. CASE s.up_to_date
  <2>1. SameLists(s, s)
    BY DEF SameLists, SameIndexes
  <2> QED
    BY <1>1, <2>1, SameIsRanked DEF PrimaryUpToDate, Settled, Cached
<1>2. CASE ~s.up_to_date
  <2>1. PrimaryUpToDate(s, ok, due) = entry_guards_update_primary(s, ok, due)
    BY <1>2 DEF PrimaryUpToDate
  <2> QED
    BY <2>1, UpdatePrimaryKeeps
<1> QED
  BY <1>1, <1>2

(* Trying guards again leaves a settled selection settled.                 *)
LEMMA RetryStaysSettled ==
  ASSUME NEW s, Settled(s), NEW S
  PROVE  /\ Settled(ReachableMaybe(s, S)) /\ Grows(s, ReachableMaybe(s, S))
         /\ Settled(entry_guard_consider_retry(s, S))
         /\ Grows(s, entry_guard_consider_retry(s, S))
<1> DEFINE t == ReachableMaybe(s, S)
<1>1. Lists(t) /\ SameLists(s, t)
  BY ReachableMaybeKeeps DEF Settled
<1> HIDE DEF t
<1>2. Settled(t) /\ Grows(s, t)
  BY <1>1, SameIsRanked DEF Settled, SameLists
<1> QED
  BY <1>2 DEF t, entry_guard_consider_retry

LEMMA SettledGrows ==
  ASSUME NEW r, NEW s, NEW t, Settled(r), Settled(s), Settled(t), Grows(r, s), Grows(s, t)
  PROVE  Grows(r, t)
BY GrowsTransitive DEF Settled

-----------------------------------------------------------------------------
(* The circuits.                                                           *)

CircuitRecords ==
  [state : {USABLE_ON_COMPLETION, USABLE_IF_NO_BETTER_GUARD, WAITING_FOR_BETTER_GUARD,
            COMPLETE, DEAD, FREE},
   guard : Guards \union {0}, rst : Guards \union {None}]

(* What circuits q and a selection s know of each other.  The guard of a   *)
(* circuit has been sampled at some time, though it may be gone.           *)
CircuitsAgree(s, q) ==
  /\ q \in [Circuits -> CircuitRecords]
  /\ \A c \in Circuits : q[c] = NoCircuit \/ (q[c].guard \in Guards /\ q[c].guard < s.next)
  /\ \A g \in s.pending : \E c \in Circuits :
       q[c].guard = g /\ q[c].state = USABLE_IF_NO_BETTER_GUARD
  /\ \A c \in Circuits :
       q[c].state = WAITING_FOR_BETTER_GUARD /\ q[c].guard \in s.sampled
         => q[c].guard \in Confirmed(s)

Inv ==
  /\ Settled(gs) /\ Numbered(gs)
  /\ CircuitsAgree(gs, circ)
  /\ passes \subseteq Guards /\ alive \subseteq Guards

LEMMA NoCircuitType == NoCircuit \in CircuitRecords
BY DEF NoCircuit, CircuitRecords, None

(* New guards in the sample are the guards of no circuit.                  *)
LEMMA CircuitsStayAgreed ==
  ASSUME NEW s, NEW t, Lists(s), Lists(t), Grows(s, t), NEW q, CircuitsAgree(s, q)
  PROVE  CircuitsAgree(t, q)
<1>1. s.next \in Int /\ t.next \in Int /\ s.next <= t.next
  <2>1. s.next \in Int /\ t.next \in Int
    BY EntryGuardsAssumption DEF Lists, Selections
  <2> QED
    BY <2>1 DEF Grows
<1>2. \A g \in Guards : g \in Int
  BY EntryGuardsAssumption DEF Guards
<1>3. Confirmed(t) = Confirmed(s)
  BY SameConfirmed DEF Grows
<1>4. \A c \in Circuits : q[c] = NoCircuit \/ (q[c].guard \in Guards /\ q[c].guard < t.next)
  <2> SUFFICES ASSUME NEW c \in Circuits, q[c] # NoCircuit
               PROVE  q[c].guard \in Guards /\ q[c].guard < t.next
    OBVIOUS
  <2>1. q[c].guard \in Guards /\ q[c].guard < s.next
    BY DEF CircuitsAgree
  <2> QED
    BY <1>1, <1>2, <2>1
<1>5. ASSUME NEW c \in Circuits, q[c].state = WAITING_FOR_BETTER_GUARD,
             q[c].guard \in t.sampled
      PROVE  q[c].guard \in Confirmed(t)
  <2>1. q[c] # NoCircuit
    BY <1>5 DEF NoCircuit, WAITING_FOR_BETTER_GUARD, FREE
  <2>2. q[c].guard \in Guards /\ q[c].guard < s.next
    BY <2>1 DEF CircuitsAgree
  <2>3. q[c].guard \in s.sampled
    BY <1>1, <1>2, <1>5, <2>2 DEF Grows
  <2> QED
    BY <1>3, <1>5, <2>3 DEF CircuitsAgree
<1> QED
  BY <1>4, <1>5 DEF CircuitsAgree, Grows

(* A settled selection that has grown from gs is one gs may become.        *)
LEMMA GrowsKeepsInv ==
  ASSUME NEW s, NEW t, Settled(s), Numbered(s), Settled(t), Grows(s, t),
         NEW q, CircuitsAgree(s, q)
  PROVE  Settled(t) /\ Numbered(t) /\ CircuitsAgree(t, q)
<1>1. Numbered(t)
  BY SameConfirmed DEF Grows
<1>2. CircuitsAgree(t, q)
  BY CircuitsStayAgreed DEF Settled
<1> QED
  BY <1>1, <1>2

(* A circuit gets a guard of the sample, which is pending if it may have to *)
(* wait for a better one.                                                  *)
LEMMA AssignAgrees ==
  ASSUME NEW s, Lists(s), NEW q, CircuitsAgree(s, q), NEW c \in Circuits,
         q[c].state = FREE, NEW g \in s.sampled, NEW rst \in Guards \union {None},
         NEW st \in {USABLE_ON_COMPLETION, USABLE_IF_NO_BETTER_GUARD},
         NEW t, t.next = s.next, t.sampled = s.sampled, Confirmed(t) = Confirmed(s),
         \A h \in t.pending : h \in s.pending \/ (h = g /\ st = USABLE_IF_NO_BETTER_GUARD)
  PROVE  CircuitsAgree(t, [q EXCEPT ![c] = [state |-> st, guard |-> g, rst |-> rst]])
<1> DEFINE r == [state |-> st, guard |-> g, rst |-> rst]
           p == [q EXCEPT ![c] = r]
<1>1. g \in Guards /\ g < s.next
  BY DEF Lists, Selections
<1>2. r \in CircuitRecords /\ r.guard = g /\ r.state = st
  BY <1>1 DEF CircuitRecords
<1>3. q \in [Circuits -> CircuitRecords]
  BY DEF CircuitsAgree
<1> HIDE DEF r
<1>4. p \in [Circuits -> CircuitRecords] /\ p[c] = r
      /\ \A d \in Circuits : d # c => p[d] = q[d]
  BY <1>2, <1>3
<1> HIDE DEF p
<1>5. \A d \in Circuits : p[d] = NoCircuit \/ (p[d].guard \in Guards /\ p[d].guard < t.next)
  BY <1>1, <1>2, <1>4 DEF CircuitsAgree
<1>6. \A h \in t.pending : \E d \in Circuits :
        p[d].guard = h /\ p[d].state = USABLE_IF_NO_BETTER_GUARD
  BY <1>2, <1>4 DEF CircuitsAgree, USABLE_IF_NO_BETTER_GUARD, FREE
<1>7. \A d \in Circuits :
        p[d].state = WAITING_FOR_BETTER_GUARD /\ p[d].guard \in t.sampled
          => p[d].guard \in Confirmed(t)
  BY <1>2, <1>4 DEF CircuitsAgree, WAITING_FOR_BETTER_GUARD,
                    USABLE_ON_COMPLETION, USABLE_IF_NO_BETTER_GUARD
<1>8. CircuitsAgree(t, p)
  BY <1>4, <1>5, <1>6, <1>7 DEF CircuitsAgree
<1> QED
  BY <1>8 DEF p, r

(* The pending flag and reachability may be changed for one guard.         *)
LEMMA PendingKeepsSettled ==
  ASSUME NEW s, Settled(s), NEW t \in Selections, SameIndexes(s, t),
         t.sampled = s.sampled, t.next = s.next, t.filtered = s.filtered,
         t.primary = s.primary, t.up_to_date = s.up_to_date,
         t.pending \subseteq s.sampled, t.usable = {g \in t.filtered : t.reach[g] # NO}
  PROVE  Settled(t) /\ (Numbered(s) => Numbered(t)) /\ Confirmed(t) = Confirmed(s)
<1>1. Confirmed(t) = Confirmed(s) /\ (Numbered(s) => Numbered(t))
  BY SameConfirmed
<1>2. Lists(t)
  BY <1>1 DEF Settled, Lists
<1>3. Ranked(t)
  BY <1>1 DEF Settled, Ranked
<1> QED
  BY <1>1, <1>2, <1>3 DEF Settled

-----------------------------------------------------------------------------
(* One lemma for each action.                                              *)

(* A retry and a larger sample leave the selection good enough for         *)
(* PrimaryUpToDate.                                                        *)
LEMMA EnoughIsCached ==
  ASSUME NEW s, Settled(s), NEW rst, NEW ok, NEW due
  PROVE  LET t == sample_enough(s, rst, ok, due) IN Lists(t) /\ Cached(t) /\ Grows(s, t)
<1> DEFINE t == sample_enough(s, rst, ok, due)
<1>1. Lists(t) /\ Grows(s, t) /\ KeepsPrimary(s, t)
  BY SampleEnoughKeeps DEF Settled
<1> HIDE DEF t
<1>2. Confirmed(t) = Confirmed(s)
  BY <1>1, SameConfirmed DEF Grows
<1>3. Cached(t)
  BY <1>1, <1>2 DEF Settled, Ranked, Cached, KeepsPrimary
<1> QED
  BY <1>1, <1>3 DEF t

(* Each of the three selections a guard is picked in is settled, and what  *)
(* it offers is sampled.                                                   *)
LEMMA OffersAreSound ==
  ASSUME Settled(gs), NEW rst, NEW due, NEW i \in 1..3
  PROVE  /\ Settled(Offers(rst, due)[i].in)
         /\ Grows(gs, Offers(rst, due)[i].in)
         /\ Offers(rst, due)[i].guards \subseteq Offers(rst, due)[i].in.sampled
<1> DEFINE now == PrimaryUpToDate(gs, passes, due)
           s0 == entry_guard_consider_retry(now, due \intersect now.primary)
           s1 == entry_guard_consider_retry(s0, due)
           e == sample_enough(s1, rst, passes, due)
           s2 == PrimaryUpToDate(e, passes, due)
<1>1. Settled(now) /\ Grows(gs, now)
  BY PrimaryUpToDateKeeps DEF Settled, Cached
<1> HIDE DEF now
<1>2. Settled(s0) /\ Grows(now, s0)
  BY <1>1, RetryStaysSettled
<1> HIDE DEF s0
<1>3. Settled(s1) /\ Grows(s0, s1)
  BY <1>2, RetryStaysSettled
<1> HIDE DEF s1
<1>4. Lists(e) /\ Cached(e) /\ Grows(s1, e)
  BY <1>3, EnoughIsCached
<1> HIDE DEF e
<1>5. Settled(s2) /\ Grows(e, s2)
  BY <1>4, PrimaryUpToDateKeeps
<1> HIDE DEF s2
<1>6. Grows(gs, s0)
  BY <1>1, <1>2, SettledGrows
<1>7. Grows(gs, s1)
  BY <1>2, <1>3, <1>6, SettledGrows
<1>8. Grows(gs, s2)
  <2>1. Grows(s1, s2)
    BY <1>3, <1>4, <1>5, GrowsTransitive DEF Settled
  <2> QED
    BY <1>3, <1>5, <1>7, <2>1, SettledGrows
<1>9. select_primary_guard_for_circuit(s0, rst) \subseteq s0.sampled
  BY <1>2, FirstNSubset DEF select_primary_guard_for_circuit, Settled, Lists
<1>10. select_confirmed_guard_for_circuit(s1, rst) \subseteq s1.sampled
  BY <1>3, FirstNSubset DEF select_confirmed_guard_for_circuit, Settled, Lists
<1>11. select_filtered_guard_for_circuit(s2, rst) \subseteq s2.sampled
  BY <1>5, FirstNSubset DEF select_filtered_guard_for_circuit, Settled, Lists
<1>12. Offers(rst, due) =
         <<[in |-> s0, guards |-> select_primary_guard_for_circuit(s0, rst)],
           [in |-> s1, guards |-> select_confirmed_guard_for_circuit(s1, rst)],
           [in |-> s2, guards |-> select_filtered_guard_for_circuit(s2, rst)]>>
  BY DEF Offers, s2, e, s1, s0, now
<1>13. CASE i = 1
  BY <1>2, <1>6, <1>9, <1>12, <1>13
<1>14. CASE i = 2
  BY <1>3, <1>7, <1>10, <1>12, <1>14
<1>15. CASE i = 3
  BY <1>5, <1>8, <1>11, <1>12, <1>15
<1> QED
  BY <1>13, <1>14, <1>15

LEMMA PickInv ==
  ASSUME Inv, NEW c \in Circuits, Pick(c)
  PROVE  Inv'
<1>1. PICK rst \in Exits \union {None}, due \in Due :
        entry_guard_pick_for_circuit(c, rst, due) /\ UNCHANGED <<passes, alive>>
  BY DEF Pick, World
<1> DEFINE offers == Offers(rst, due)
<1>2. Settled(gs) /\ Numbered(gs) /\ CircuitsAgree(gs, circ)
  BY DEF Inv
<1>3. \A i \in 1..3 : /\ Settled(offers[i].in) /\ Grows(gs, offers[i].in)
                      /\ offers[i].guards \subseteq offers[i].in.sampled
  BY <1>2, OffersAreSound
<1>4. /\ circ[c].state = FREE
      /\ \/ \E g \in offers[1].guards :
              gs' = offers[1].in /\ Assign(c, rst, g, USABLE_ON_COMPLETION)
         \/ \E i \in 2..3 : \E g \in offers[i].guards :
              /\ gs' = [offers[i].in EXCEPT !.pending = @ \union {g}]
              /\ Assign(c, rst, g, USABLE_IF_NO_BETTER_GUARD)
         \/ gs' = mark_all_guards_maybe_reachable(offers[3].in) /\ UNCHANGED circ
  BY <1>1 DEF entry_guard_pick_for_circuit
<1> HIDE DEF offers
<1>5. rst \in Guards \union {None}
  BY EntryGuardsAssumption
<1>6. \A i \in 1..3 : Numbered(offers[i].in) /\ CircuitsAgree(offers[i].in, circ)
  BY <1>2, <1>3, GrowsKeepsInv
<1>7. ASSUME NEW g \in offers[1].guards, gs' = offers[1].in,
             Assign(c, rst, g, USABLE_ON_COMPLETION)
      PROVE  Settled(gs') /\ Numbered(gs') /\ CircuitsAgree(gs', circ')
  <2> DEFINE s == offers[1].in
  <2>1. Settled(s) /\ Numbered(s) /\ CircuitsAgree(s, circ) /\ g \in s.sampled
    BY <1>3, <1>6
  <2>2. circ' = [circ EXCEPT ![c] = [state |-> USABLE_ON_COMPLETION, guard |-> g, rst |-> rst]]
    BY <1>7 DEF Assign
  <2> HIDE DEF s
  <2>3. CircuitsAgree(s, circ')
    BY <1>4, <1>5, <2>1, <2>2, AssignAgrees DEF Settled
  <2> QED
    BY <1>7, <2>1, <2>3 DEF s
<1>8. ASSUME NEW i \in 2..3, NEW g \in offers[i].guards,
             gs' = [offers[i].in EXCEPT !.pending = @ \union {g}],
             Assign(c, rst, g, USABLE_IF_NO_BETTER_GUARD)
      PROVE  Settled(gs') /\ Numbered(gs') /\ CircuitsAgree(gs', circ')
  <2> DEFINE s == offers[i].in
             t == [s EXCEPT !.pending = @ \union {g}]
  <2>1. Settled(s) /\ Numbered(s) /\ CircuitsAgree(s, circ) /\ g \in s.sampled
    BY <1>3, <1>6
  <2>2. circ' = [circ EXCEPT ![c] = [state |-> USABLE_IF_NO_BETTER_GUARD,
                                     guard |-> g, rst |-> rst]]
    BY <1>8 DEF Assign
  <2> HIDE DEF s
  <2>3. s \in Selections /\ s.sampled \subseteq Guards /\ s.pending \subseteq s.sampled
        /\ s.usable = {h \in s.filtered : s.reach[h] # NO}
    BY <2>1 DEF Settled, Lists, Selections
  <2>4. /\ t \in Selections /\ SameIndexes(s, t)
        /\ t.sampled = s.sampled /\ t.next = s.next /\ t.filtered = s.filtered
        /\ t.primary = s.primary /\ t.up_to_date = s.up_to_date
        /\ t.usable = s.usable /\ t.reach = s.reach /\ t.pending = s.pending \union {g}
    BY <2>1, <2>3 DEF Selections, SameIndexes
  <2> HIDE DEF t
  <2>5. t.pending \subseteq s.sampled /\ t.usable = {h \in t.filtered : t.reach[h] # NO}
    BY <2>1, <2>3, <2>4
  <2>6. Settled(t) /\ Numbered(t) /\ Confirmed(t) = Confirmed(s)
    BY <2>1, <2>4, <2>5, PendingKeepsSettled
  <2>7. CircuitsAgree(t, circ')
    <3>1. \A h \in t.pending :
            h \in s.pending \/ (h = g /\ USABLE_IF_NO_BETTER_GUARD = USABLE_IF_NO_BETTER_GUARD)
      BY <2>4
    <3>2. Lists(s)
      BY <2>1 DEF Settled
    <3> QED
      BY <1>4, <1>5, <2>1, <2>2, <2>4, <2>6, <3>1, <3>2, AssignAgrees
  <2> QED
    BY <1>8, <2>6, <2>7 DEF t, s
<1>9. ASSUME gs' = mark_all_guards_maybe_reachable(offers[3].in), UNCHANGED circ
      PROVE  Settled(gs') /\ Numbered(gs') /\ CircuitsAgree(gs', circ')
  <2> DEFINE s == offers[3].in
  <2>1. Settled(s) /\ Numbered(s) /\ CircuitsAgree(s, circ)
    BY <1>3, <1>6
  <2> HIDE DEF s
  <2>2. Settled(ReachableMaybe(s, s.sampled)) /\ Grows(s, ReachableMaybe(s, s.sampled))
    BY <2>1, RetryStaysSettled
  <2>3. gs' = ReachableMaybe(s, s.sampled)
    BY <1>9 DEF mark_all_guards_maybe_reachable, s
  <2> QED
    BY <1>9, <2>1, <2>2, <2>3, GrowsKeepsInv
<1> QED
  BY <1>1, <1>4, <1>7, <1>8, <1>9 DEF Inv

(* A guard has answered: it is reachable and not pending.                  *)
Answered(s, g) ==
  [s EXCEPT !.reach[g] = YES, !.pending = @ \ {g},
            !.usable = @ \union ({g} \intersect s.filtered)]

LEMMA AnsweredKeeps ==
  ASSUME NEW s, Settled(s), Numbered(s), NEW g \in s.sampled
  PROVE  /\ Settled(Answered(s, g)) /\ Numbered(Answered(s, g))
         /\ Confirmed(Answered(s, g)) = Confirmed(s)
         /\ Answered(s, g).sampled = s.sampled /\ Answered(s, g).next = s.next
         /\ Answered(s, g).pending = s.pending \ {g}
<1> DEFINE t == Answered(s, g)
<1>1. s \in Selections /\ g \in Guards /\ s.pending \subseteq s.sampled
      /\ s.filtered \subseteq Guards /\ s.usable = {h \in s.filtered : s.reach[h] # NO}
  BY DEF Settled, Lists, Selections
<1>2. /\ SameIndexes(s, t)
      /\ t.sampled = s.sampled /\ t.next = s.next /\ t.filtered = s.filtered
      /\ t.primary = s.primary /\ t.up_to_date = s.up_to_date
      /\ t.usable = s.usable \union ({g} \intersect s.filtered)
      /\ t.reach = [s.reach EXCEPT ![g] = YES] /\ t.pending = s.pending \ {g}
  BY <1>1 DEF Answered, Selections, SameIndexes
<1>3. t \in Selections
  <2>1. [s.reach EXCEPT ![g] = YES] \in [Guards -> {YES, NO, MAYBE}]
    BY <1>1 DEF Selections
  <2>2. s.pending \ {g} \in SUBSET Guards
        /\ s.usable \union ({g} \intersect s.filtered) \in SUBSET Guards
    BY <1>1 DEF Selections
  <2> QED
    BY <1>1, <2>1, <2>2 DEF Answered, Selections
<1> HIDE DEF t
<1>4. t.usable = {h \in t.filtered : t.reach[h] # NO}
  <2>1. \A h \in Guards : t.reach[h] = IF h = g THEN YES ELSE s.reach[h]
    BY <1>1, <1>2 DEF Selections
  <2> QED
    BY <1>1, <1>2, <2>1 DEF YES, NO
<1>5. t.pending \subseteq s.sampled
  BY <1>1, <1>2
<1>6. Settled(t) /\ Numbered(t) /\ Confirmed(t) = Confirmed(s)
  BY <1>2, <1>3, <1>4, <1>5, PendingKeepsSettled
<1> QED
  BY <1>2, <1>6 DEF t

LEMMA ConfirmKeeps ==
  ASSUME NEW s, Settled(s), Numbered(s), NEW g \in s.sampled, g \notin Confirmed(s)
  PROVE  LET t == make_guard_confirmed(s, g)
         IN  /\ Lists(t) /\ Cached(t) /\ Numbered(t)
             /\ Confirmed(t) = Confirmed(s) \union {g}
             /\ t.sampled = s.sampled /\ t.next = s.next /\ t.pending = s.pending
<1> DEFINE t == make_guard_confirmed(s, g)
<1>1. s \in Selections /\ g \in Guards /\ s.sampled \subseteq Guards
      /\ s.next_confirmed_idx \in Nat /\ s.confirmed_idx \in [Guards -> Int]
  BY DEF Settled, Lists, Selections
<1>2. /\ t.sampled = s.sampled /\ t.next = s.next /\ t.filtered = s.filtered
      /\ t.primary = s.primary /\ t.up_to_date = FALSE /\ t.usable = s.usable
      /\ t.reach = s.reach /\ t.pending = s.pending
      /\ t.confirmed_idx = [s.confirmed_idx EXCEPT ![g] = s.next_confirmed_idx]
      /\ t.next_confirmed_idx = s.next_confirmed_idx + 1
  BY <1>1 DEF make_guard_confirmed, Selections
<1>3. t \in Selections
  <2>1. [s.confirmed_idx EXCEPT ![g] = s.next_confirmed_idx] \in [Guards -> Int]
        /\ s.next_confirmed_idx + 1 \in Nat
    BY <1>1
  <2>2. t = [s EXCEPT !.confirmed_idx = [s.confirmed_idx EXCEPT ![g] = s.next_confirmed_idx],
                      !.next_confirmed_idx = s.next_confirmed_idx + 1, !.up_to_date = FALSE]
    BY <1>1 DEF make_guard_confirmed, Selections
  <2> QED
    BY <1>1, <2>1, <2>2 DEF Selections
<1> HIDE DEF t
<1>4. \A h \in Guards : t.confirmed_idx[h] = IF h = g THEN s.next_confirmed_idx
                                                      ELSE s.confirmed_idx[h]
  BY <1>1, <1>2
<1>5. Confirmed(t) = Confirmed(s) \union {g}
  BY <1>1, <1>4 DEF Confirmed
<1>6. Lists(t)
  BY <1>1, <1>2, <1>3, <1>5 DEF Settled, Lists
<1>7. Order(t)
  <2>1. \A h \in Confirmed(s) : h \in Guards /\ h # g /\ s.confirmed_idx[h] \in Int
                                /\ s.confirmed_idx[h] < s.next_confirmed_idx
    BY <1>1 DEF Confirmed, Numbered, Order
  <2>2. \A h, k \in Confirmed(s) : s.confirmed_idx[h] = s.confirmed_idx[k] => h = k
    BY DEF Numbered, Order
  <2> QED
    BY <1>1, <1>2, <1>4, <1>5, <2>1, <2>2 DEF Order
<1>8. t.next_confirmed_idx = Cardinality(Confirmed(t))
  <2>1. Confirmed(s) \in SUBSET Guards
    BY DEF Confirmed
  <2>2. IsFiniteSet(Confirmed(s)) /\ Cardinality(Confirmed(s)) \in Nat
    BY <2>1, GuardsFinite
  <2>3. Cardinality(Confirmed(s) \union {g}) = Cardinality(Confirmed(s)) + 1
    BY <2>2, FS_AddElement
  <2> QED
    BY <1>2, <1>5, <2>3 DEF Numbered
<1> QED
  BY <1>2, <1>5, <1>6, <1>7, <1>8 DEF t, Numbered, Cached

(* A circuit ends, or its state changes so that it is not through a        *)
(* pending guard; whoever waits does so through a confirmed guard.         *)
LEMMA ChangeAgrees ==
  ASSUME NEW s, NEW q, CircuitsAgree(s, q), NEW c \in Circuits,
         NEW r \in CircuitRecords, r = NoCircuit \/ r.guard = q[c].guard,
         q[c] # NoCircuit,
         NEW t, t.next = s.next, t.sampled = s.sampled, Confirmed(s) \subseteq Confirmed(t),
         t.pending \subseteq s.pending \ {q[c].guard},
         r.state = WAITING_FOR_BETTER_GUARD => r.guard \in Confirmed(t)
  PROVE  CircuitsAgree(t, [q EXCEPT ![c] = r])
<1> DEFINE p == [q EXCEPT ![c] = r]
<1>1. q \in [Circuits -> CircuitRecords]
  BY DEF CircuitsAgree
<1>2. p \in [Circuits -> CircuitRecords] /\ p[c] = r
      /\ \A d \in Circuits : d # c => p[d] = q[d]
  BY <1>1
<1> HIDE DEF p
<1>3. \A d \in Circuits : p[d] = NoCircuit \/ (p[d].guard \in Guards /\ p[d].guard < t.next)
  BY <1>2 DEF CircuitsAgree
<1>4. \A h \in t.pending : \E d \in Circuits :
        p[d].guard = h /\ p[d].state = USABLE_IF_NO_BETTER_GUARD
  <2> SUFFICES ASSUME NEW h \in t.pending
               PROVE  \E d \in Circuits :
                        p[d].guard = h /\ p[d].state = USABLE_IF_NO_BETTER_GUARD
    OBVIOUS
  <2>1. h \in s.pending /\ h # q[c].guard
    OBVIOUS
  <2>2. PICK d \in Circuits : q[d].guard = h /\ q[d].state = USABLE_IF_NO_BETTER_GUARD
    BY <2>1 DEF CircuitsAgree
  <2> QED
    BY <1>2, <2>1, <2>2
<1>5. \A d \in Circuits :
        p[d].state = WAITING_FOR_BETTER_GUARD /\ p[d].guard \in t.sampled
          => p[d].guard \in Confirmed(t)
  BY <1>2 DEF CircuitsAgree
<1>6. CircuitsAgree(t, p)
  BY <1>2, <1>3, <1>4, <1>5 DEF CircuitsAgree
<1> QED
  BY <1>6 DEF p

LEMMA SucceedInv ==
  ASSUME Inv, NEW c \in Circuits, Succeed(c)
  PROVE  Inv'
<1>1. PICK offline \in BOOLEAN, due \in Due :
        entry_guard_succeeded(c, offline, due) /\ UNCHANGED <<passes, alive>>
  BY DEF Succeed, World
<1>2. Settled(gs) /\ Numbered(gs) /\ CircuitsAgree(gs, circ) /\ Lists(gs)
  BY DEF Inv, Settled
<1> DEFINE g == circ[c].guard
           s1 == Answered(gs, g)
           m == make_guard_confirmed(s1, g)
           s2 == IF g \in Confirmed(gs) THEN s1 ELSE PrimaryUpToDate(m, passes, due)
<1>3. /\ circ[c].state \in {USABLE_ON_COMPLETION, USABLE_IF_NO_BETTER_GUARD, COMPLETE}
      /\ \/ /\ g \notin gs.sampled
            /\ circ' = [circ EXCEPT ![c] = NoCircuit] /\ gs' = gs
         \/ /\ g \in gs.sampled
            /\ \E st \in {COMPLETE, WAITING_FOR_BETTER_GUARD} :
                 circ' = [circ EXCEPT ![c].state = st]
            /\ gs' \in {s2, mark_primary_guards_maybe_reachable(s2, passes)}
  BY <1>1 DEF entry_guard_succeeded, Answered
<1>4. circ \in [Circuits -> CircuitRecords]
  BY <1>2 DEF CircuitsAgree
<1>5. circ[c] # NoCircuit
  BY <1>3 DEF NoCircuit, FREE, USABLE_ON_COMPLETION, USABLE_IF_NO_BETTER_GUARD, COMPLETE
<1>6. CASE g \notin gs.sampled
  <2>1. circ' = [circ EXCEPT ![c] = NoCircuit] /\ gs' = gs
    BY <1>3, <1>6
  <2>2. gs.pending \subseteq gs.pending \ {g}
    BY <1>2, <1>6 DEF Lists
  <2>3. NoCircuit.state # WAITING_FOR_BETTER_GUARD
    BY DEF NoCircuit, FREE, WAITING_FOR_BETTER_GUARD
  <2>4. CircuitsAgree(gs, [circ EXCEPT ![c] = NoCircuit])
    BY <1>2, <1>5, <2>2, <2>3, ChangeAgrees, NoCircuitType
  <2> QED
    BY <1>1, <1>2, <2>1, <2>4 DEF Inv
<1>7. CASE g \in gs.sampled
  <2>1. PICK st \in {COMPLETE, WAITING_FOR_BETTER_GUARD} : circ' = [circ EXCEPT ![c].state = st]
    BY <1>3, <1>7
  <2>2. gs' \in {s2, mark_primary_guards_maybe_reachable(s2, passes)}
    BY <1>3, <1>7
  <2> DEFINE r == [circ[c] EXCEPT !.state = st]
  <2>3. circ' = [circ EXCEPT ![c] = r]
    BY <1>4, <2>1
  <2>4. r \in CircuitRecords /\ r.guard = g
    BY <1>4 DEF CircuitRecords
  <2> HIDE DEF r
  <2>5. /\ Settled(s1) /\ Numbered(s1) /\ Confirmed(s1) = Confirmed(gs)
        /\ s1.sampled = gs.sampled /\ s1.next = gs.next /\ s1.pending = gs.pending \ {g}
    BY <1>2, <1>7, AnsweredKeeps
  <2> HIDE DEF s1
  <2>6. Settled(s2) /\ Numbered(s2) /\ CircuitsAgree(s2, circ')
    <3>1. CASE g \in Confirmed(gs)
      <4>1. r.state = WAITING_FOR_BETTER_GUARD => r.guard \in Confirmed(s1)
        BY <2>4, <2>5, <3>1
      <4>2. CircuitsAgree(s1, circ')
        BY <1>2, <1>5, <2>3, <2>4, <2>5, <4>1, ChangeAgrees
      <4> QED
        BY <2>5, <3>1, <4>2
    <3>2. CASE g \notin Confirmed(gs)
      <4>1. /\ Lists(m) /\ Cached(m) /\ Numbered(m)
            /\ Confirmed(m) = Confirmed(s1) \union {g}
            /\ m.sampled = s1.sampled /\ m.next = s1.next /\ m.pending = s1.pending
        BY <1>7, <2>5, <3>2, ConfirmKeeps
      <4> HIDE DEF m
      <4>2. /\ m.next = gs.next /\ m.sampled = gs.sampled
            /\ Confirmed(gs) \subseteq Confirmed(m)
            /\ m.pending \subseteq gs.pending \ {circ[c].guard}
            /\ (r.state = WAITING_FOR_BETTER_GUARD => r.guard \in Confirmed(m))
        BY <2>4, <2>5, <4>1
      <4>3. CircuitsAgree(m, circ')
        BY <1>2, <1>5, <2>3, <2>4, <4>2, ChangeAgrees
      <4>4. s2 = PrimaryUpToDate(m, passes, due)
        BY <3>2
      <4> HIDE DEF s2
      <4>5. Settled(s2) /\ Grows(m, s2)
        BY <4>1, <4>4, PrimaryUpToDateKeeps
      <4>6. Numbered(s2)
        BY <4>1, <4>5, SameConfirmed DEF Grows
      <4>7. CircuitsAgree(s2, circ')
        BY <4>1, <4>3, <4>5, CircuitsStayAgreed DEF Settled
      <4> QED
        BY <4>5, <4>6, <4>7
    <3> QED
      BY <3>1, <3>2
  <2> HIDE DEF s2
  <2>7. CASE gs' = s2
    BY <1>1, <2>6, <2>7 DEF Inv
  <2>8. CASE gs' = mark_primary_guards_maybe_reachable(s2, passes)
    <3> DEFINE now == PrimaryUpToDate(s2, passes, {})
    <3>1. Settled(now) /\ Grows(s2, now)
      BY <2>6, PrimaryUpToDateKeeps DEF Settled, Cached
    <3>2. gs' = ReachableMaybe(now, now.primary)
      BY <2>8 DEF mark_primary_guards_maybe_reachable
    <3> HIDE DEF now
    <3>3. Settled(gs') /\ Grows(now, gs')
      BY <3>1, <3>2, RetryStaysSettled
    <3>4. Grows(s2, gs')
      BY <2>6, <3>1, <3>3, SettledGrows
    <3>5. Numbered(gs') /\ CircuitsAgree(gs', circ')
      BY <2>6, <3>3, <3>4, GrowsKeepsInv
    <3> QED
      BY <1>1, <3>3, <3>5 DEF Inv
  <2> QED
    BY <2>2, <2>7, <2>8
<1> QED
  BY <1>6, <1>7

(* A guard is blamed or let off: it is not pending any more.               *)
LEMMA ReleaseKeeps ==
  ASSUME NEW s, Settled(s), Numbered(s), NEW g \in s.sampled,
         NEW t \in {entry_guards_note_guard_failure(s, g), entry_guard_cancel(s, g)}
  PROVE  /\ Settled(t) /\ Numbered(t) /\ Confirmed(t) = Confirmed(s)
         /\ t.sampled = s.sampled /\ t.next = s.next /\ t.pending = s.pending \ {g}
<1>1. s \in Selections /\ g \in Guards /\ s.pending \subseteq s.sampled
      /\ s.filtered \subseteq Guards /\ s.usable = {h \in s.filtered : s.reach[h] # NO}
  BY DEF Settled, Lists, Selections
<1>2. /\ SameIndexes(s, t)
      /\ t.sampled = s.sampled /\ t.next = s.next /\ t.filtered = s.filtered
      /\ t.primary = s.primary /\ t.up_to_date = s.up_to_date
      /\ t.pending = s.pending \ {g}
      /\ \/ t.reach = [s.reach EXCEPT ![g] = NO] /\ t.usable = s.usable \ {g}
         \/ t.reach = s.reach /\ t.usable = s.usable
  BY <1>1 DEF entry_guards_note_guard_failure, entry_guard_cancel, Selections, SameIndexes
<1>3. t \in Selections
  <2>1. [s.reach EXCEPT ![g] = NO] \in [Guards -> {YES, NO, MAYBE}]
    BY <1>1 DEF Selections
  <2>2. s.pending \ {g} \in SUBSET Guards /\ s.usable \ {g} \in SUBSET Guards
    BY <1>1 DEF Selections
  <2>3. \/ t = [s EXCEPT !.reach = [s.reach EXCEPT ![g] = NO], !.usable = s.usable \ {g},
                         !.pending = s.pending \ {g}]
        \/ t = [s EXCEPT !.pending = s.pending \ {g}]
    BY <1>1 DEF entry_guards_note_guard_failure, entry_guard_cancel, Selections
  <2> QED
    BY <1>1, <2>1, <2>2, <2>3, ZenonT(30) DEF Selections
<1>4. t.usable = {h \in t.filtered : t.reach[h] # NO}
  <2>1. CASE t.reach = [s.reach EXCEPT ![g] = NO] /\ t.usable = s.usable \ {g}
    <3>1. \A h \in Guards : t.reach[h] = IF h = g THEN NO ELSE s.reach[h]
      BY <1>1, <2>1 DEF Selections
    <3> QED
      BY <1>1, <1>2, <2>1, <3>1
  <2>2. CASE t.reach = s.reach /\ t.usable = s.usable
    BY <1>1, <1>2, <2>2
  <2> QED
    BY <1>2, <2>1, <2>2
<1>5. t.pending \subseteq s.sampled
  BY <1>1, <1>2
<1>6. Settled(t) /\ Numbered(t) /\ Confirmed(t) = Confirmed(s)
  BY <1>2, <1>3, <1>4, <1>5, PendingKeepsSettled
<1> QED
  BY <1>2, <1>6

LEMMA MarkForCloseInv ==
  ASSUME Inv, NEW c \in Circuits, circuit_mark_for_close(c), UNCHANGED World
  PROVE  Inv'
<1> DEFINE g == circ[c].guard
<1>1. Settled(gs) /\ Numbered(gs) /\ CircuitsAgree(gs, circ) /\ Lists(gs)
  BY DEF Inv, Settled
<1>2. /\ circ[c].state # FREE /\ circ' = [circ EXCEPT ![c] = NoCircuit]
      /\ UNCHANGED <<passes, alive>>
      /\ \/ g \notin gs.sampled /\ gs' = gs
         \/ /\ g \in gs.sampled
            /\ gs' \in {entry_guards_note_guard_failure(gs, g), entry_guard_cancel(gs, g)}
  BY DEF World, circuit_mark_for_close
<1>3. circ[c] # NoCircuit /\ NoCircuit.state # WAITING_FOR_BETTER_GUARD
  BY <1>2 DEF NoCircuit, FREE, WAITING_FOR_BETTER_GUARD
<1>4. /\ Settled(gs') /\ Numbered(gs') /\ Confirmed(gs') = Confirmed(gs)
      /\ gs'.sampled = gs.sampled /\ gs'.next = gs.next
      /\ gs'.pending \subseteq gs.pending \ {g}
  <2>1. CASE g \notin gs.sampled /\ gs' = gs
    BY <1>1, <2>1 DEF Lists
  <2>2. CASE /\ g \in gs.sampled
             /\ gs' \in {entry_guards_note_guard_failure(gs, g), entry_guard_cancel(gs, g)}
    BY <1>1, <2>2, ReleaseKeeps
  <2> QED
    BY <1>2, <2>1, <2>2
<1>5. CircuitsAgree(gs', [circ EXCEPT ![c] = NoCircuit])
  BY <1>1, <1>3, <1>4, ChangeAgrees, NoCircuitType
<1> QED
  BY <1>2, <1>4, <1>5 DEF Inv

LEMMA CloseInv ==
  ASSUME Inv, NEW c \in Circuits, Close(c)
  PROVE  Inv'
BY MarkForCloseInv DEF Close

(* A circuit that becomes one to be measured keeps its guard state.        *)
LEMMA ExpireInv ==
  ASSUME Inv, NEW c \in Circuits, Expire(c)
  PROVE  Inv'
<1>1. UNCHANGED World
  BY DEF Expire
<1>2. CASE circuit_mark_for_close(c)
  BY <1>1, <1>2, MarkForCloseInv
<1>3. CASE circuit_build_times_mark_circ_as_measurement_only(c)
  BY <1>1, <1>3 DEF circuit_build_times_mark_circ_as_measurement_only, World, Inv
<1> QED
  BY <1>2, <1>3
     DEF Expire, circuit_expire_building, circuit_expire_waiting_for_better_guard

LEMMA ChannelFailsInv ==
  ASSUME Inv, ChannelFails
  PROVE  Inv'
<1>1. Settled(gs) /\ Numbered(gs) /\ CircuitsAgree(gs, circ) /\ Lists(gs)
  BY DEF Inv, Settled
<1>2. PICK g \in Guards : \E C \in SUBSET OnChannel(g) :
        entry_guard_chan_failed(g, C) /\ UNCHANGED <<passes, alive>>
  BY DEF ChannelFails, World
<1>3. PICK C \in SUBSET OnChannel(g) :
        entry_guard_chan_failed(g, C) /\ UNCHANGED <<passes, alive>>
  BY <1>2
<1>4. /\ circ' = [c \in Circuits |-> IF c \in C THEN [circ[c] EXCEPT !.state = DEAD] ELSE circ[c]]
      /\ \/ g \notin gs.sampled /\ gs' = gs
         \/ g \in gs.sampled /\ gs' = entry_guards_note_guard_failure(gs, g)
  BY <1>3 DEF entry_guard_chan_failed
<1>5. \A c \in C : c \in Circuits /\ circ[c].guard = g /\ circ[c] # NoCircuit
  BY DEF OnChannel, Building, NoCircuit, FREE, DEAD, USABLE_ON_COMPLETION,
         USABLE_IF_NO_BETTER_GUARD
<1>6. /\ Settled(gs') /\ Numbered(gs') /\ Confirmed(gs') = Confirmed(gs)
      /\ gs'.sampled = gs.sampled /\ gs'.next = gs.next
      /\ gs'.pending \subseteq gs.pending \ {g}
  <2>1. CASE g \notin gs.sampled /\ gs' = gs
    BY <1>1, <2>1 DEF Lists
  <2>2. CASE g \in gs.sampled /\ gs' = entry_guards_note_guard_failure(gs, g)
    BY <1>1, <2>2, ReleaseKeeps
  <2> QED
    BY <1>4, <2>1, <2>2
<1>7. circ \in [Circuits -> CircuitRecords]
  BY <1>1 DEF CircuitsAgree
<1>8. ASSUME NEW c \in Circuits
      PROVE  \/ circ'[c] = circ[c] /\ c \notin C
             \/ /\ circ'[c] \in CircuitRecords /\ circ'[c].guard = circ[c].guard
                /\ circ'[c].state = DEAD /\ c \in C
  BY <1>4, <1>7 DEF CircuitRecords
<1>9. circ' \in [Circuits -> CircuitRecords]
  <2>1. \A c \in Circuits : circ'[c] \in CircuitRecords
    BY <1>7, <1>8
  <2>2. circ' = [c \in Circuits |-> circ'[c]]
    BY <1>4
  <2> QED
    BY <2>1, <2>2
<1>10. \A c \in Circuits : circ'[c] = NoCircuit \/ (circ'[c].guard \in Guards /\ circ'[c].guard < gs'.next)
  BY <1>1, <1>5, <1>6, <1>8 DEF CircuitsAgree
<1>11. \A h \in gs'.pending : \E c \in Circuits :
         circ'[c].guard = h /\ circ'[c].state = USABLE_IF_NO_BETTER_GUARD
  <2> SUFFICES ASSUME NEW h \in gs'.pending
               PROVE  \E c \in Circuits :
                        circ'[c].guard = h /\ circ'[c].state = USABLE_IF_NO_BETTER_GUARD
    OBVIOUS
  <2>1. h \in gs.pending /\ h # g
    BY <1>6
  <2>2. PICK c \in Circuits : circ[c].guard = h /\ circ[c].state = USABLE_IF_NO_BETTER_GUARD
    BY <1>1, <2>1 DEF CircuitsAgree
  <2>3. c \notin C
    BY <1>5, <2>1, <2>2
  <2> QED
    BY <1>8, <2>2, <2>3
<1>12. \A c \in Circuits :
         circ'[c].state = WAITING_FOR_BETTER_GUARD /\ circ'[c].guard \in gs'.sampled
           => circ'[c].guard \in Confirmed(gs')
  <2> SUFFICES ASSUME NEW c \in Circuits, circ'[c].state = WAITING_FOR_BETTER_GUARD,
                      circ'[c].guard \in gs'.sampled
               PROVE  circ'[c].guard \in Confirmed(gs')
    OBVIOUS
  <2>1. circ'[c] = circ[c]
    BY <1>8 DEF WAITING_FOR_BETTER_GUARD, DEAD
  <2> QED
    BY <1>1, <1>6, <2>1 DEF CircuitsAgree
<1>13. CircuitsAgree(gs', circ')
  BY <1>9, <1>10, <1>11, <1>12 DEF CircuitsAgree
<1> QED
  BY <1>3, <1>6, <1>13 DEF Inv

LEMMA UpgradeInv ==
  ASSUME Inv, Upgrade
  PROVE  Inv'
<1>1. Settled(gs) /\ Numbered(gs) /\ CircuitsAgree(gs, circ)
  BY DEF Inv
<1>2. PICK late \in SUBSET Circuits, due \in Due :
        entry_guards_upgrade_waiting_circuits(late, due) /\ UNCHANGED <<passes, alive>>
  BY DEF Upgrade, World
<1> DEFINE now == PrimaryUpToDate(gs, passes, due)
           s == entry_guard_consider_retry(now, due \intersect now.primary)
           U == {c \in Circuits : circ[c].state = WAITING_FOR_BETTER_GUARD}
<1>3. /\ gs' = s
      /\ \/ \E b \in Unblocked(s, late) :
              circ' = [c \in Circuits |-> IF c \in Upgradable(s, b)
                                          THEN [circ[c] EXCEPT !.state = COMPLETE]
                                          ELSE circ[c]]
         \/ circ' = circ
  BY <1>2 DEF entry_guards_upgrade_waiting_circuits
<1>4. \A b \in Unblocked(s, late) : Upgradable(s, b) \subseteq U
  BY DEF Unblocked, Upgradable, BestWaiting, Known
<1>5. Settled(now) /\ Grows(gs, now)
  BY <1>1, PrimaryUpToDateKeeps DEF Settled, Cached
<1> HIDE DEF now
<1>6. Settled(s) /\ Grows(now, s)
  BY <1>5, RetryStaysSettled
<1> HIDE DEF s
<1>7. Grows(gs, s)
  BY <1>1, <1>5, <1>6, SettledGrows
<1>8. Settled(s) /\ Numbered(s) /\ CircuitsAgree(s, circ)
  BY <1>1, <1>6, <1>7, GrowsKeepsInv
<1>9. CASE circ' = circ
  BY <1>2, <1>3, <1>8, <1>9 DEF Inv
<1>10. ASSUME NEW V, V \subseteq U,
              circ' = [c \in Circuits |-> IF c \in V THEN [circ[c] EXCEPT !.state = COMPLETE]
                                                     ELSE circ[c]]
       PROVE  CircuitsAgree(s, circ')
  <2>1. circ \in [Circuits -> CircuitRecords]
    BY <1>8 DEF CircuitsAgree
  <2>2. ASSUME NEW c \in Circuits
        PROVE  \/ circ'[c] = circ[c]
               \/ /\ circ'[c] \in CircuitRecords /\ circ'[c].guard = circ[c].guard
                  /\ circ'[c].state = COMPLETE /\ circ[c].state = WAITING_FOR_BETTER_GUARD
    BY <1>10, <2>1 DEF CircuitRecords
  <2>3. circ' \in [Circuits -> CircuitRecords]
    <3>1. \A c \in Circuits : circ'[c] \in CircuitRecords
      BY <2>1, <2>2
    <3>2. circ' = [c \in Circuits |-> circ'[c]]
      BY <1>10
    <3> QED
      BY <3>1, <3>2
  <2>4. \A c \in Circuits :
          circ'[c] = NoCircuit \/ (circ'[c].guard \in Guards /\ circ'[c].guard < s.next)
    <3> SUFFICES ASSUME NEW c \in Circuits
                 PROVE  circ'[c] = NoCircuit \/ (circ'[c].guard \in Guards /\ circ'[c].guard < s.next)
      OBVIOUS
    <3>1. circ[c].state = WAITING_FOR_BETTER_GUARD => circ[c] # NoCircuit
      BY DEF NoCircuit, FREE, WAITING_FOR_BETTER_GUARD
    <3> QED
      BY <1>8, <2>2, <3>1 DEF CircuitsAgree
  <2>5. \A h \in s.pending : \E c \in Circuits :
          circ'[c].guard = h /\ circ'[c].state = USABLE_IF_NO_BETTER_GUARD
    <3> SUFFICES ASSUME NEW h \in s.pending
                 PROVE  \E c \in Circuits :
                          circ'[c].guard = h /\ circ'[c].state = USABLE_IF_NO_BETTER_GUARD
      OBVIOUS
    <3>1. PICK c \in Circuits : circ[c].guard = h /\ circ[c].state = USABLE_IF_NO_BETTER_GUARD
      BY <1>8 DEF CircuitsAgree
    <3>2. circ'[c] = circ[c]
      BY <2>2, <3>1 DEF USABLE_IF_NO_BETTER_GUARD, WAITING_FOR_BETTER_GUARD
    <3> QED
      BY <3>1, <3>2
  <2>6. \A c \in Circuits :
          circ'[c].state = WAITING_FOR_BETTER_GUARD /\ circ'[c].guard \in s.sampled
            => circ'[c].guard \in Confirmed(s)
    <3> SUFFICES ASSUME NEW c \in Circuits, circ'[c].state = WAITING_FOR_BETTER_GUARD,
                        circ'[c].guard \in s.sampled
                 PROVE  circ'[c].guard \in Confirmed(s)
      OBVIOUS
    <3>1. circ'[c] = circ[c]
      BY <2>2 DEF COMPLETE, WAITING_FOR_BETTER_GUARD
    <3> QED
      BY <1>8, <3>1 DEF CircuitsAgree
  <2> QED
    BY <2>3, <2>4, <2>5, <2>6 DEF CircuitsAgree
<1> HIDE DEF U
<1>11. ASSUME NEW b \in Unblocked(s, late),
              circ' = [c \in Circuits |-> IF c \in Upgradable(s, b)
                                          THEN [circ[c] EXCEPT !.state = COMPLETE]
                                          ELSE circ[c]]
       PROVE  Inv'
  <2>1. CircuitsAgree(s, circ')
    BY <1>4, <1>10, <1>11
  <2> QED
    BY <1>2, <1>3, <1>8, <2>1 DEF Inv
<1> QED
  BY <1>3, <1>9, <1>11

(* Removed guards leave every list; what is left is in the same order, with *)
(* gaps.                                                                   *)
LEMMA PruneKeeps ==
  ASSUME NEW s, Lists(s), Order(s), NEW gone, NEW q, CircuitsAgree(s, q)
  PROVE  LET t == sampled_guards_prune(s, gone)
         IN  /\ Lists(t) /\ Order(t) /\ CircuitsAgree(t, q)
             /\ t.sampled = s.sampled \ gone
<1> DEFINE t == sampled_guards_prune(s, gone)
<1>1. /\ s \in Selections /\ s.reach \in [Guards -> {YES, NO, MAYBE}]
      /\ s.confirmed_idx \in [Guards -> Int] /\ s.up_to_date \in BOOLEAN
  BY DEF Lists, Selections
<1>2. /\ t.sampled = s.sampled \ gone /\ t.next = s.next /\ t.reach = s.reach
      /\ t.filtered = s.filtered \ gone /\ t.usable = s.usable \ gone
      /\ t.primary = s.primary \ gone /\ t.pending = s.pending \ gone
      /\ t.confirmed_idx = [g \in Guards |-> IF g \in gone THEN -1 ELSE s.confirmed_idx[g]]
      /\ t.next_confirmed_idx = s.next_confirmed_idx
      /\ t.up_to_date = (s.up_to_date /\ gone = {})
  BY <1>1 DEF sampled_guards_prune, Selections
<1>3. t \in Selections
  <2>1. /\ s.sampled \ gone \in SUBSET Guards /\ s.filtered \ gone \in SUBSET Guards
        /\ s.usable \ gone \in SUBSET Guards /\ s.primary \ gone \in SUBSET Guards
        /\ s.pending \ gone \in SUBSET Guards /\ (s.up_to_date /\ gone = {}) \in BOOLEAN
    BY <1>1 DEF Selections
  <2>2. [g \in Guards |-> IF g \in gone THEN -1 ELSE s.confirmed_idx[g]] \in [Guards -> Int]
    BY <1>1
  <2> QED
    BY <1>1, <2>1, <2>2 DEF sampled_guards_prune, Selections
<1>4. Confirmed(t) = Confirmed(s) \ gone
  BY <1>1, <1>2 DEF Confirmed
<1>5. \A g \in Confirmed(t) : g \in Guards /\ g \in Confirmed(s) /\ t.confirmed_idx[g] = s.confirmed_idx[g]
  BY <1>2, <1>4 DEF Confirmed
<1> HIDE DEF t
<1>6. Lists(t)
  BY <1>2, <1>3, <1>4 DEF Lists
<1>7. Order(t)
  BY <1>2, <1>5 DEF Order
<1>8. CircuitsAgree(t, q)
  BY <1>2, <1>4 DEF CircuitsAgree
<1> QED
  BY <1>2, <1>6, <1>7, <1>8 DEF t

(* The confirmed guards get the indexes from 0 on, without gaps.           *)
LEMMA RenumberKeeps ==
  ASSUME NEW s, Lists(s), Order(s)
  PROVE  LET t == entry_guards_update_confirmed(s)
         IN  /\ Lists(t) /\ Numbered(t) /\ Confirmed(t) = Confirmed(s)
             /\ t.sampled = s.sampled /\ t.next = s.next /\ t.pending = s.pending
<1> DEFINE S == Confirmed(s)
           f == s.confirmed_idx
           n == Cardinality(S)
           rank(g) == Cardinality({h \in S : f[h] < f[g]})
           idx == [g \in Guards |-> IF g \in S THEN rank(g) ELSE -1]
           t == entry_guards_update_confirmed(s)
<1>1. s \in Selections /\ f \in [Guards -> Int] /\ S \in SUBSET Guards
  BY DEF Lists, Selections, Confirmed
<1>2. n \in Nat
  BY <1>1, GuardsFinite
<1>3. [g \in S |-> Cardinality(Before(S, f, g))] \in Bijection(S, 0..(n - 1))
  <2>1. \A g \in S : f[g] \in Int
    BY <1>1
  <2>2. \A g, h \in S : f[g] = f[h] => g = h
    BY DEF Order
  <2> QED
    BY <1>1, <2>1, <2>2, RankIsBijective
<1>4. \A g \in S : rank(g) = Cardinality(Before(S, f, g))
  BY DEF Before
<1>5. /\ \A g \in S : rank(g) \in 0..(n - 1)
      /\ \A g, h \in S : rank(g) = rank(h) => g = h
  BY <1>3, <1>4 DEF Bijection, Injection, IsInjective
<1>6. /\ t.sampled = s.sampled /\ t.next = s.next /\ t.reach = s.reach
      /\ t.filtered = s.filtered /\ t.usable = s.usable /\ t.primary = s.primary
      /\ t.pending = s.pending /\ t.confirmed_idx = idx /\ t.next_confirmed_idx = n
  BY <1>1 DEF entry_guards_update_confirmed, Selections
<1>7. idx \in [Guards -> Int]
  <2> HIDE DEF rank, S, n
  <2>1. \A g \in Guards : (IF g \in S THEN rank(g) ELSE -1) \in Int
    BY <1>2, <1>5
  <2> QED
    BY <2>1
<1>8. t \in Selections
  <2>1. t = [s EXCEPT !.confirmed_idx = idx, !.next_confirmed_idx = n]
    BY DEF entry_guards_update_confirmed
  <2> HIDE DEF idx, n, t
  <2> QED
    BY <1>1, <1>2, <1>7, <2>1 DEF Selections
<1>9. /\ \A g \in S : idx[g] = rank(g) /\ idx[g] >= 0 /\ idx[g] < n
      /\ \A g \in Guards \ S : idx[g] = -1
  <2> HIDE DEF rank, S, n
  <2> QED
    BY <1>1, <1>2, <1>5
<1> HIDE DEF idx, n, t, rank
<1>10. Confirmed(t) = S
  <2>1. Confirmed(t) = {g \in Guards : idx[g] >= 0}
    BY <1>6 DEF Confirmed
  <2> HIDE DEF S
  <2> QED
    BY <1>1, <1>9, <2>1
<1>11. Lists(t)
  BY <1>6, <1>8, <1>10 DEF Lists
<1>12. Order(t)
  <2> HIDE DEF S
  <2> QED
    BY <1>5, <1>6, <1>9, <1>10 DEF Order
<1>13. Numbered(t)
  BY <1>6, <1>10, <1>12 DEF Numbered, n
<1> QED
  BY <1>6, <1>10, <1>11, <1>13 DEF t

LEMMA UpdateAllInv ==
  ASSUME Inv, UpdateAll
  PROVE  Inv'
<1>1. Settled(gs) /\ Numbered(gs) /\ CircuitsAgree(gs, circ) /\ Lists(gs) /\ Order(gs)
  BY DEF Inv, Settled, Numbered
<1>2. PICK ok \in SUBSET Guards, gone \in SUBSET gs.sampled, due \in Due :
        entry_guards_update_all(ok, gone, due) /\ alive' = alive
  BY DEF UpdateAll
<1> DEFINE p == sampled_guards_prune(gs, gone)
           S == gs.sampled \ gone
           s == entry_guard_set_filtered_flags(p, S, ok, due)
           r == entry_guards_update_confirmed(s)
           t == entry_guards_update_primary(r, ok, due)
<1>3. gs' = t /\ passes' = ok /\ circ' = circ
  BY <1>2 DEF entry_guards_update_all
<1>4. Lists(p) /\ Order(p) /\ CircuitsAgree(p, circ) /\ S = p.sampled
  BY <1>1, PruneKeeps
<1> HIDE DEF p
<1>5. Lists(s) /\ Reflagged(p, S, ok, s)
  BY <1>4, SetFilteredKeeps
<1> HIDE DEF s
<1>6. Order(s) /\ CircuitsAgree(s, circ)
  <2>1. Confirmed(s) = Confirmed(p) /\ Order(s)
    BY <1>4, <1>5, SameConfirmed DEF Reflagged
  <2>2. s.sampled = p.sampled /\ s.next = p.next /\ s.pending = p.pending
    BY <1>5 DEF Reflagged
  <2> QED
    BY <1>4, <2>1, <2>2 DEF CircuitsAgree
<1>7. /\ Lists(r) /\ Numbered(r) /\ Confirmed(r) = Confirmed(s)
      /\ r.sampled = s.sampled /\ r.next = s.next /\ r.pending = s.pending
  BY <1>5, <1>6, RenumberKeeps
<1> HIDE DEF r
<1>8. CircuitsAgree(r, circ)
  BY <1>6, <1>7 DEF CircuitsAgree
<1>9. Settled(t) /\ Grows(r, t)
  BY <1>7, UpdatePrimaryKeeps
<1> HIDE DEF t
<1>10. Numbered(t) /\ CircuitsAgree(t, circ)
  BY <1>7, <1>8, <1>9, SameConfirmed, CircuitsStayAgreed DEF Grows, Settled
<1>11. passes' \subseteq Guards /\ alive' \subseteq Guards
  BY <1>2, <1>3 DEF Inv
<1> QED
  BY <1>3, <1>9, <1>10, <1>11 DEF Inv

-----------------------------------------------------------------------------
(* The theorems.                                                           *)

LEMMA FlapInv ==
  ASSUME Inv, NEW g \in Guards, Flap(g)
  PROVE  Inv'
BY DEF Flap, Inv

LEMMA InitInv ==
  ASSUME Init
  PROVE  Inv
<1> DEFINE f == 1..FirstSample
           none == [g \in Guards |-> -1]
           s == [sampled |-> f, next |-> FirstSample + 1, reach |-> [g \in Guards |-> MAYBE],
                 filtered |-> f, usable |-> f, confirmed_idx |-> none,
                 next_confirmed_idx |-> 0, primary |-> {}, pending |-> {}, up_to_date |-> FALSE]
           t == entry_guards_update_primary(s, passes, {})
<1>1. gs = t /\ circ = [c \in Circuits |-> NoCircuit] /\ passes = Guards /\ alive = FirstAlive
  BY DEF Init
<1>2. f \in SUBSET Guards /\ FirstSample + 1 \in 1..(LastGuard + 1) /\ \A g \in f : g < FirstSample + 1
  BY EntryGuardsAssumption DEF Guards
<1>3. none \in [Guards -> Int] /\ [g \in Guards |-> MAYBE] \in [Guards -> {YES, NO, MAYBE}]
  OBVIOUS
<1>4. s \in Selections
  <2> HIDE DEF f, none
  <2> QED
    BY <1>2, <1>3 DEF Selections
<1>5. Confirmed(s) = {}
  BY DEF Confirmed
<1>6. Lists(s)
  <2>1. s.usable = {g \in s.filtered : s.reach[g] # NO}
    <3>1. \A g \in f : g \in Guards
      BY <1>2
    <3> HIDE DEF f
    <3> QED
      BY <3>1 DEF MAYBE, NO
  <2> QED
    BY <1>2, <1>4, <1>5, <2>1 DEF Lists
<1>7. Numbered(s)
  BY <1>5, FS_EmptySet DEF Numbered, Order
<1>8. CircuitsAgree(s, circ)
  <2>1. circ \in [Circuits -> CircuitRecords] /\ \A c \in Circuits : circ[c] = NoCircuit
    BY <1>1, NoCircuitType
  <2>2. NoCircuit.state # WAITING_FOR_BETTER_GUARD
    BY DEF NoCircuit, FREE, WAITING_FOR_BETTER_GUARD
  <2> QED
    BY <2>1, <2>2 DEF CircuitsAgree
<1> HIDE DEF s
<1>9. Settled(t) /\ Grows(s, t)
  BY <1>6, UpdatePrimaryKeeps
<1> HIDE DEF t
<1>10. Numbered(t) /\ CircuitsAgree(t, circ)
  BY <1>6, <1>7, <1>8, <1>9, SameConfirmed, CircuitsStayAgreed DEF Grows, Settled
<1> QED
  BY <1>1, <1>9, <1>10, EntryGuardsAssumption DEF Inv

LEMMA NextInv ==
  ASSUME Inv, [Next]_vars
  PROVE  Inv'
<1>1. CASE UNCHANGED vars
  BY <1>1 DEF Inv, vars
<1>2. ASSUME NEW c \in Circuits, Pick(c) PROVE Inv'
  BY <1>2, PickInv
<1>3. ASSUME NEW c \in Circuits, Succeed(c) PROVE Inv'
  BY <1>3, SucceedInv
<1>4. ASSUME NEW c \in Circuits, Close(c) PROVE Inv'
  BY <1>4, CloseInv
<1>5. ASSUME NEW c \in Circuits, Expire(c) PROVE Inv'
  BY <1>5, ExpireInv
<1>6. CASE ChannelFails
  BY <1>6, ChannelFailsInv
<1>7. CASE Upgrade
  BY <1>7, UpgradeInv
<1>8. CASE UpdateAll
  BY <1>8, UpdateAllInv
<1>9. ASSUME NEW g \in Guards, Flap(g) PROVE Inv'
  BY <1>9, FlapInv
<1> QED
  BY <1>1, <1>2, <1>3, <1>4, <1>5, <1>6, <1>7, <1>8, <1>9 DEF Next

(* The selection is settled and numbered, and agrees with the circuits,    *)
(* between any two handlers: the inductive invariant of the module.        *)
THEOREM GuardsInvariant == Spec => []Inv
<1>1. Init => Inv
  BY InitInv
<1>2. Inv /\ [Next]_vars => Inv'
  BY NextInv
<1> QED
  BY <1>1, <1>2, PTL DEF Spec

MeasuringInv == measuring \subseteq Circuits

LEMMA MeasuringType ==
  ASSUME MeasuringInv, [Next]_vars
  PROVE  MeasuringInv'
<1>1. CASE UNCHANGED vars
  BY <1>1 DEF vars, MeasuringInv
<1>2. ASSUME NEW c \in Circuits, Pick(c) \/ Succeed(c)
      PROVE  measuring' = measuring
  BY <1>2 DEF Pick, Succeed
<1>3. ASSUME NEW c \in Circuits, Close(c) \/ Expire(c)
      PROVE  measuring' \subseteq measuring \union {c}
  BY <1>3 DEF Close, Expire, circuit_expire_building, circuit_expire_waiting_for_better_guard,
              circuit_mark_for_close, circuit_build_times_mark_circ_as_measurement_only
<1>4. ASSUME ChannelFails \/ Upgrade \/ UpdateAll PROVE measuring' = measuring
  BY <1>4 DEF ChannelFails, Upgrade, UpdateAll
<1>5. ASSUME NEW g \in Guards, Flap(g) PROVE measuring' = measuring
  BY <1>5 DEF Flap
<1> QED
  BY <1>1, <1>2, <1>3, <1>4, <1>5 DEF Next, MeasuringInv

(* Every field of the guard selection has its type, the lists are parts of *)
(* the sample, and confirmed_idx numbers the confirmed guards from 0 to    *)
(* next_confirmed_idx - 1 without a gap or a duplicate, whatever guards    *)
(* make_guard_confirmed, sampled_guards_update_from_consensus and          *)
(* entry_guards_update_confirmed have added and removed.                   *)
THEOREM GuardsTypeCorrect == Spec => []EntryGuardsTypeOK
<1>1. Init => MeasuringInv
  BY DEF Init, MeasuringInv
<1>2. MeasuringInv /\ [Next]_vars => MeasuringInv'
  BY MeasuringType
<1>3. Inv /\ MeasuringInv => EntryGuardsTypeOK
  <2> SUFFICES ASSUME Inv, MeasuringInv PROVE EntryGuardsTypeOK
    OBVIOUS
  <2>1. gs \in Selections /\ Lists(gs) /\ Numbered(gs) /\ Order(gs) /\ CircuitsAgree(gs, circ)
    BY DEF Inv, Settled, Lists, Numbered
  <2>2. /\ gs.sampled \subseteq Guards /\ gs.next \in 1..(LastGuard + 1)
        /\ gs.reach \in [Guards -> {YES, NO, MAYBE}]
        /\ gs.confirmed_idx \in [Guards -> Int] /\ gs.up_to_date \in BOOLEAN
    BY <2>1 DEF Selections
  <2>3. /\ gs.filtered \subseteq gs.sampled /\ gs.primary \subseteq gs.sampled
        /\ gs.pending \subseteq gs.sampled /\ gs.usable \subseteq gs.sampled
        /\ Confirmed(gs) \subseteq gs.sampled
    BY <2>1 DEF Lists
  <2>4. gs.next_confirmed_idx = Cardinality(Confirmed(gs))
    BY <2>1 DEF Numbered
  <2>5. \A g, h \in Confirmed(gs) : /\ gs.confirmed_idx[g] < gs.next_confirmed_idx
                                    /\ gs.confirmed_idx[g] = gs.confirmed_idx[h] => g = h
    BY <2>1 DEF Order
  <2>6. \A c \in Circuits : circ[c] = NoCircuit \/ circ[c].guard \in Guards
    BY <2>1 DEF CircuitsAgree
  <2>7. passes \subseteq Guards /\ alive \subseteq Guards
    BY DEF Inv
  <2> QED
    BY <2>2, <2>3, <2>4, <2>5, <2>6, <2>7 DEF EntryGuardsTypeOK, MeasuringInv
<1> QED
  BY <1>1, <1>2, <1>3, GuardsInvariant, PTL DEF Spec

(* The flags and lists of entrynodes.c agree with each other and with the  *)
(* circuits after any order of picks, successes, failures, cancellations,  *)
(* upgrades and consensuses: usable_filtered is exact, a pending guard has *)
(* a circuit under way, a waiting circuit has a confirmed guard, and the   *)
(* primary guards pass the filter, are up to date and prefer the confirmed *)
(* guards that were sampled first.                                         *)
THEOREM GuardListsAlwaysAgree == Spec => []GuardListsAgree
<1>1. Inv => GuardListsAgree
  <2> SUFFICES ASSUME Inv PROVE GuardListsAgree
    OBVIOUS
  <2>1. UsableIsUpToDate
    BY DEF Inv, Settled, Lists, UsableIsUpToDate
  <2>2. PendingHasCircuit /\ WaitingIsConfirmed
    BY DEF Inv, CircuitsAgree, PendingHasCircuit, WaitingIsConfirmed
  <2>3. ConfirmedFirst /\ PrimaryIsFiltered
    BY DEF Inv, Settled, Ranked, ConfirmedFirst, PrimaryIsFiltered
  <2> QED
    BY <2>1, <2>2, <2>3 DEF GuardListsAgree
<1> QED
  BY <1>1, GuardsInvariant, PTL
=============================================================================
