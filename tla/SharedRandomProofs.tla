------------------------- MODULE SharedRandomProofs -------------------------
(***************************************************************************)
(* Proofs about SharedRandom: no authority votes for two commitments in    *)
(* one protocol run, none is learned after the first reveal, published     *)
(* values are random, and lost votes are made up for in the next rounds,   *)
(* for any number of authorities, rounds, crashes and lost votes.          *)
(*                                                                         *)
(* The handlers are sequences of states to write, so the invariant is      *)
(* stated of one state of an authority, in memory (Memory) or on disk      *)
(* (File), and the lemmas say what the states that a handler writes have   *)
(* in common with the one it started from.                                 *)
(***************************************************************************)
EXTENDS SharedRandom, SequenceTheorems, FiniteSetTheorems, TLAPS

Commits == [auth : Authorities, ts : Nat, n : Nat, reveal : BOOLEAN]

Phase(t) == get_sr_protocol_phase(t)

(* The time t is past the commit phase of the run of commitment c.         *)
Past(c, t) ==
  \/ t \div TotalRounds > RunOf(c)
  \/ t \div TotalRounds = RunOf(c) /\ Phase(t) = REVEAL

(* The commits of a state: at most one of each authority.                  *)
CommitsOK(cs) == /\ cs \subseteq Commits
                 /\ \A c, d \in cs : c.auth = d.auth => c = d

(* The commitments of authority a among them.                              *)
Own(cs, a) == {Commitment(c) : c \in {d \in cs : d.auth = a}}

VotedBy(a) == {c \in voted : c.auth = a}

(* The votes V of a are in the state, or their commit phase is over by     *)
(* the time t; and the state has no other commitment of the same run.      *)
Binding(V, a, cs, t) ==
  \A d \in V :
    /\ d \in Own(cs, a) \/ Past(d, t)
    /\ \A c \in Own(cs, a) : c = d \/ RunOf(c) # RunOf(d)

(* The file does not expire while it is needed.                            *)
Lasting(a, cs, until) == \A c \in Own(cs, a) : Past(c, until)

(* A state in the commit phase has a commit.                               *)
Complete(phase, cs) == phase = COMMIT => cs # {}

MemFields == {"valid_after", "valid_until", "phase", "commits", "previous_srv",
              "current_srv", "is_srv_fresh"}

IsState(m) ==
  /\ DOMAIN m = MemFields
  /\ m.valid_after \in Nat /\ m.valid_until \in Nat /\ m.phase \in {COMMIT, REVEAL}
  /\ CommitsOK(m.commits) /\ m.is_srv_fresh \in BOOLEAN

(* The times in the state of an authority a in interval s.                 *)
Dated(a, m, s) ==
  /\ m.valid_after \in 1 .. s + 1 /\ m.phase = Phase(m.valid_after)
  /\ \A c \in m.commits :
       /\ c.ts <= s + 1
       /\ m.phase = REVEAL \/ c.auth = a => c.ts <= m.valid_after

Early(m, s) == \A c \in m.commits : c.ts <= s

(* The state in memory of a running authority.                             *)
Memory(a, m) ==
  /\ IsState(m)
  /\ Dated(a, m, slot)
  /\ stage = "publish" /\ a \in todo => Early(m, slot)
  /\ ResumesFromItsFile(a) => Binding(VotedBy(a), a, m.commits, m.valid_after)
  /\ a \notin torn => Lasting(a, m.commits, m.valid_until) /\ Complete(m.phase, m.commits)

IsFile(d, s) ==
  /\ d.valid_after \in 0 .. s + 1 /\ d.valid_until \in Nat /\ CommitsOK(d.commits)
  /\ \A c \in d.commits :
       /\ c.ts <= s + 1
       /\ Phase(d.valid_after) = REVEAL => c.ts <= d.valid_after

(* The state file of an authority that is down.                            *)
File(a, d) ==
  /\ IsFile(d, slot)
  /\ ResumesFromItsFile(a) =>
       /\ Binding(VotedBy(a), a, d.commits, slot + 1)
       /\ Lasting(a, d.commits, d.valid_until)
  /\ a \notin torn => Complete(Phase(d.valid_after), d.commits)

Votes == \* what a vote holds, as far as the protocol looks at it
  \A b \in Authorities :
    /\ post[b].commits \subseteq Commits
    /\ stage # "publish" => \A c \in post[b].commits : c.ts <= slot + 1

Newest ==
  /\ \A a \in Authorities :
       /\ latest[a].valid_after \in 0 .. slot
       /\ stage = "vote" => docs[a] = NoDoc
       /\ stage = "build" => docs[a] = NoDoc \/ docs[a].valid_after = slot + 1
       /\ stage = "publish" => docs[a] = NoDoc \/ docs[a].valid_after = slot
  /\ \A a \in up :
       /\ stage = "publish" /\ a \in todo => latest[a].valid_after < slot
       /\ ~(stage = "publish" /\ a \in todo) =>
            mem[a].valid_after = slot + 1 \/ latest[a].valid_after < slot

Authority(a) ==
  /\ a \in up => Memory(a, mem[a]) /\ disk[a] = disk_state_update(mem[a])
  /\ a \notin up => File(a, disk[a])

(* The processes of the network.                                           *)
Processes ==
  /\ up \subseteq Authorities /\ torn \subseteq Authorities
  /\ crashes \in [Authorities -> Nat]
  /\ \A b \in Authorities : b \notin up \/ b \in torn => crashes[b] >= 1
  /\ DOMAIN mem = Authorities /\ DOMAIN disk = Authorities

Shape ==
  /\ slot \in Nat /\ slot >= TotalRounds - 1 /\ slot <= LastSlot
  /\ stage \in {"vote", "build", "publish"}
  /\ stage # "publish" => slot < LastSlot
  /\ todo \subseteq up
  /\ Processes
  /\ DOMAIN post = Authorities /\ DOMAIN latest = Authorities /\ DOMAIN docs = Authorities

History ==
  /\ \A c \in voted : c.auth \in Authorities /\ c.ts \in Nat
  /\ OneCommitmentPerRun
  /\ \A r \in revealed : r.ts \in Nat /\ Past(r, slot + 1)

Inv ==
  /\ Shape /\ Votes /\ Newest /\ History
  /\ \A a \in Authorities : Authority(a)
-----------------------------------------------------------------------------
(* Rounds and runs.                                                        *)
LEMMA Rounds ==
  /\ SHARED_RANDOM_N_ROUNDS \in Nat /\ SHARED_RANDOM_N_ROUNDS >= 1
  /\ TotalRounds \in Nat /\ TotalRounds = SHARED_RANDOM_N_ROUNDS + SHARED_RANDOM_N_ROUNDS
BY SharedRandomAssumption DEF SharedRandomAssumption, TotalRounds

LEMMA DivMod ==
  ASSUME NEW x \in Nat, NEW T \in Nat, T > 0
  PROVE  /\ x \div T \in Nat /\ x % T \in 0 .. T - 1
         /\ x = T * (x \div T) + (x % T)
<1>1. x % T \in 0 .. T - 1
  OBVIOUS
<1>2. x = T * (x \div T) + (x % T)
  OBVIOUS
<1>3. x \div T \in Int
  OBVIOUS
<1>4. x \div T >= 0
  <2> DEFINE q == x \div T
             r == x % T
  <2>1. q \in Int /\ r \in 0 .. T - 1 /\ x = T * q + r
    BY <1>1, <1>2, <1>3
  <2> HIDE DEF q, r
  <2>2. CASE q < 0
    <3> DEFINE k == -1 - q
    <3>1. k \in Nat /\ q = -1 - k
      BY <2>1, <2>2
    <3> HIDE DEF k
    <3>2. T * q = -T - T * k /\ T * k \in Nat
      BY <3>1
    <3>3. FALSE
      BY <3>2, <2>1
    <3> QED
      BY <3>3
  <2>3. q >= 0
    BY <2>1, <2>2
  <2> QED
    BY <2>3 DEF q
<1> QED
  BY <1>1, <1>2, <1>3, <1>4

(* What is left of a product decides which factor is larger.               *)
LEMMA Quotients ==
  ASSUME NEW T \in Nat, NEW q \in Nat, NEW p \in Nat, NEW r \in 0 .. T - 1,
         NEW s \in 0 .. T - 1, T * q + r <= T * p + s
  PROVE  q < p \/ (q = p /\ r <= s)
<1> SUFFICES ASSUME ~(q < p)
             PROVE  q = p /\ r <= s
  OBVIOUS
<1>1. CASE q = p
  BY <1>1
<1>2. CASE q # p
  <2> DEFINE k == q - p
  <2>1. k \in Nat /\ k >= 1 /\ q = p + k
    BY <1>2
  <2> HIDE DEF k
  <2>2. T * q = T * p + T * k
    BY <2>1
  <2>3. T * k >= T
    BY <2>1
  <2>4. T * p \in Nat /\ T * q \in Nat /\ T * k \in Nat
    BY <2>1
  <2> HIDE DEF k
  <2>5. FALSE
    BY <2>2, <2>3, <2>4
  <2> QED
    BY <2>5
<1> QED
  BY <1>1, <1>2

LEMMA Lexicographic ==
  ASSUME NEW x \in Nat, NEW y \in Nat, NEW T \in Nat, T > 0, x <= y
  PROVE  x \div T < y \div T \/ (x \div T = y \div T /\ x % T <= y % T)
<1>1. /\ x \div T \in Nat /\ x % T \in 0 .. T - 1 /\ x = T * (x \div T) + (x % T)
      /\ y \div T \in Nat /\ y % T \in 0 .. T - 1 /\ y = T * (y \div T) + (y % T)
  BY DivMod
<1>2. T * (x \div T) + (x % T) <= T * (y \div T) + (y % T)
  BY <1>1
<1> QED
  BY <1>1, <1>2, Quotients

LEMMA DivisionIs ==
  ASSUME NEW T \in Nat, T > 0, NEW q \in Nat, NEW r \in 0 .. T - 1
  PROVE  (T * q + r) \div T = q /\ ((T * q + r) % T) = r
<1> DEFINE x == T * q + r
<1>1. x \in Nat
  OBVIOUS
<1> HIDE DEF x
<1>2. /\ x \div T \in Nat /\ x % T \in 0 .. T - 1 /\ x = T * (x \div T) + (x % T)
  BY <1>1, DivMod
<1>3. /\ T * q + r <= T * (x \div T) + (x % T)
      /\ T * (x \div T) + (x % T) <= T * q + r
  BY <1>1, <1>2 DEF x
<1>4. q < x \div T \/ (q = x \div T /\ r <= x % T)
  BY <1>2, <1>3, Quotients
<1>5. x \div T < q \/ (x \div T = q /\ x % T <= r)
  BY <1>2, <1>3, Quotients
<1>6. ASSUME NEW u \in Nat, NEW v \in 0 .. T - 1,
             q < u \/ (q = u /\ r <= v), u < q \/ (u = q /\ v <= r)
      PROVE  u = q /\ v = r
  BY <1>6
<1>7. x \div T = q /\ x % T = r
  BY <1>2, <1>4, <1>5, <1>6
<1> QED
  BY <1>7 DEF x

LEMMA Phases ==
  ASSUME NEW t \in Nat
  PROVE  /\ t % TotalRounds \in 0 .. TotalRounds - 1 /\ t \div TotalRounds \in Nat
         /\ Phase(t) \in {COMMIT, REVEAL} /\ COMMIT # REVEAL
         /\ Phase(t) = COMMIT <=> t % TotalRounds < SHARED_RANDOM_N_ROUNDS
         /\ Phase(t) = REVEAL <=> t % TotalRounds >= SHARED_RANDOM_N_ROUNDS
<1>1. TotalRounds \in Nat /\ TotalRounds > 0
  BY Rounds
<1>2. t % TotalRounds \in 0 .. TotalRounds - 1 /\ t \div TotalRounds \in Nat
  BY <1>1, DivMod
<1>3. COMMIT # REVEAL
  BY DEF COMMIT, REVEAL
<1> QED
  BY <1>2, <1>3, Rounds DEF Phase, get_sr_protocol_phase

LEMMA PastIsMonotone ==
  ASSUME NEW c, c.ts \in Nat, NEW s \in Nat, NEW t \in Nat, s <= t, Past(c, s)
  PROVE  Past(c, t)
<1>1. TotalRounds \in Nat /\ TotalRounds > 0
  BY Rounds
<1>2. RunOf(c) \in Nat
  BY <1>1, DivMod DEF RunOf
<1>3. \/ s \div TotalRounds < t \div TotalRounds
      \/ s \div TotalRounds = t \div TotalRounds /\ s % TotalRounds <= t % TotalRounds
  BY <1>1, Lexicographic
<1>4. /\ s % TotalRounds \in 0 .. TotalRounds - 1 /\ s \div TotalRounds \in Nat
      /\ t % TotalRounds \in 0 .. TotalRounds - 1 /\ t \div TotalRounds \in Nat
      /\ Phase(s) = REVEAL <=> s % TotalRounds >= SHARED_RANDOM_N_ROUNDS
      /\ Phase(t) = REVEAL <=> t % TotalRounds >= SHARED_RANDOM_N_ROUNDS
  BY Phases
<1> QED
  BY <1>1, <1>2, <1>3, <1>4, Rounds DEF Past

(* Commits of a time in the commit phase are of a later run.               *)
LEMMA PastIsOver ==
  ASSUME NEW c, c.ts \in Nat, NEW s \in Nat, NEW t \in Nat, s <= t, Past(c, s),
         Phase(t) = COMMIT
  PROVE  t \div TotalRounds > RunOf(c)
<1>1. Past(c, t)
  BY PastIsMonotone
<1>2. Phase(t) # REVEAL
  BY DEF COMMIT, REVEAL
<1> QED
  BY <1>1, <1>2 DEF Past

LEMMA RevealIsPast ==
  ASSUME NEW c, c.ts \in Nat, NEW t \in Nat, c.ts <= t, Phase(t) = REVEAL
  PROVE  Past(c, t)
<1>1. TotalRounds \in Nat /\ TotalRounds > 0
  BY Rounds
<1>2. \/ RunOf(c) < t \div TotalRounds
      \/ RunOf(c) = t \div TotalRounds
  BY <1>1, Lexicographic DEF RunOf
<1>3. RunOf(c) \in Nat /\ t \div TotalRounds \in Nat
  BY <1>1, DivMod DEF RunOf
<1> QED
  BY <1>2, <1>3 DEF Past

(* The expiry time that get_state_valid_until_time computes in interval s. *)
Until(s, now) == s + (TotalRounds - (now % TotalRounds))

LEMMA UntilType ==
  ASSUME NEW s \in Nat, NEW t \in Nat
  PROVE  Until(s, t) \in Nat
BY Rounds, DivMod DEF Until

LEMMA UntilIsPast ==
  ASSUME NEW s \in Nat, NEW t \in {s, s + 1}, NEW c, c.ts = t
  PROVE  Until(s, t) \in Nat /\ Past(c, Until(s, t))
<1> DEFINE T == TotalRounds
           q == t \div T
           r == t % T
<1>1. T \in Nat /\ T > 0 /\ T - 1 >= SHARED_RANDOM_N_ROUNDS
  BY Rounds
<1>2. q \in Nat /\ r \in 0 .. T - 1 /\ t = T * q + r
  BY <1>1, DivMod
<1>3. Until(s, t) = s + (T - r) /\ RunOf(c) = q
  BY DEF Until, RunOf
<1> HIDE DEF T, q, r
<1>4. CASE t = s
  <2>1. T * q \in Nat /\ T * (q + 1) = T * q + T
    BY <1>1, <1>2
  <2>2. Until(s, t) = T * (q + 1) + 0
    BY <1>1, <1>2, <1>3, <1>4, <2>1
  <2>3. q + 1 \in Nat /\ 0 \in 0 .. T - 1
    BY <1>1, <1>2
  <2>4. (T * (q + 1) + 0) \div T = q + 1
    BY <1>1, <2>3, DivisionIs
  <2>5. Until(s, t) \div T = q + 1 /\ Until(s, t) \in Nat
    BY <2>1, <2>2, <2>4, <1>1
  <2> QED
    BY <2>5, <1>3, <1>2 DEF Past, T
<1>5. CASE t = s + 1
  <2>1. T * q \in Nat
    BY <1>1, <1>2
  <2>2. Until(s, t) = T * q + (T - 1)
    BY <1>1, <1>2, <1>3, <1>5, <2>1
  <2>3. T - 1 \in 0 .. T - 1
    BY <1>1
  <2>4. (T * q + (T - 1)) \div T = q /\ ((T * q + (T - 1)) % T) = T - 1
    BY <1>1, <1>2, <2>3, DivisionIs
  <2>5. Until(s, t) \div T = q /\ Until(s, t) % T = T - 1 /\ Until(s, t) \in Nat
    BY <2>1, <2>2, <2>4, <1>1
  <2>6. Phase(Until(s, t)) = REVEAL
    BY <2>5, <1>1, Phases DEF T
  <2> QED
    BY <2>5, <2>6, <1>3, <1>2 DEF Past, T
<1> QED
  BY <1>4, <1>5

(* So is that of a state made anew, for a commit of the next interval.     *)
LEMMA NewUntilIsPast ==
  ASSUME NEW s \in Nat, Phase(s) = COMMIT, NEW c, c.ts = s + 1
  PROVE  Past(c, Until(s, s))
<1> DEFINE T == TotalRounds
           q == s \div T
           r == s % T
           d == [ts |-> s]
<1>1. T \in Nat /\ T > 0 /\ T - 1 >= SHARED_RANDOM_N_ROUNDS
  BY Rounds
<1>2. q \in Nat /\ r \in 0 .. T - 1 /\ s = T * q + r
  BY <1>1, DivMod
<1>3. r < SHARED_RANDOM_N_ROUNDS
  BY Phases
<1>4. r + 1 \in 0 .. T - 1
  BY <1>1, <1>2, <1>3, Rounds
<1>5. (T * q + (r + 1)) \div T = q
  BY <1>1, <1>2, <1>4, DivisionIs
<1>6. Until(s, s) \in Nat /\ Past(d, Until(s, s))
  BY UntilIsPast
<1>7. RunOf(d) = q
  BY DEF RunOf
<1> HIDE DEF q, r, d
<1>8. T * q \in Nat /\ s + 1 = T * q + (r + 1)
  BY <1>1, <1>2
<1>9. RunOf(c) = q
  BY <1>5, <1>8 DEF RunOf
<1> QED
  BY <1>6, <1>7, <1>9 DEF Past
-----------------------------------------------------------------------------
(* The parts of the invariant, of any state.                               *)
LEMMA OwnIs ==
  ASSUME NEW a, NEW cs, CommitsOK(cs)
  PROVE  /\ \A c \in Own(cs, a) :
              /\ c.auth = a /\ c.ts \in Nat
              /\ \E e \in cs : e.auth = a /\ c.ts = e.ts /\ c = Commitment(e)
         /\ \A c, d \in Own(cs, a) : c = d
<1>1. ASSUME NEW c \in Own(cs, a)
      PROVE  \E e \in cs : e.auth = a /\ c = Commitment(e) /\ c.ts = e.ts /\ c.auth = a
                           /\ c.ts \in Nat
  <2>1. PICK e \in cs : e.auth = a /\ c = Commitment(e)
    BY <1>1 DEF Own
  <2>2. c.auth = e.auth /\ c.ts = e.ts
    BY <2>1 DEF Commitment
  <2>3. e.ts \in Nat
    BY DEF CommitsOK, Commits
  <2> QED
    BY <2>1, <2>2, <2>3
<1>2. \A e, f \in cs : e.auth = f.auth => e = f
  BY DEF CommitsOK
<1>3. ASSUME NEW c \in Own(cs, a), NEW d \in Own(cs, a)
      PROVE  c = d
  <2>1. PICK e \in cs : e.auth = a /\ c = Commitment(e)
    BY <1>1
  <2>2. PICK f \in cs : f.auth = a /\ d = Commitment(f)
    BY <1>1
  <2> QED
    BY <2>1, <2>2, <1>2
<1> QED
  BY <1>1, <1>3

(* The one commit of a state in which the authority has just drawn it.     *)
IsOwn(cs, a, t) == \E c \in Commits : c.auth = a /\ c.ts = t /\ cs = {c}

LEMMA FreshIs ==
  ASSUME NEW a, NEW cs, NEW t \in Nat, cs = {} \/ IsOwn(cs, a, t)
  PROVE  /\ CommitsOK(cs) /\ \A c \in cs : c.auth = a /\ c.ts = t
         /\ \A c \in Own(cs, a) : c.ts = t
<1>1. CommitsOK(cs) /\ \A c \in cs : c.auth = a /\ c.ts = t
  BY DEF CommitsOK, IsOwn
<1>2. \A c \in Own(cs, a) : c.ts = t
  BY <1>1, OwnIs
<1> QED
  BY <1>1, <1>2

LEMMA BindingLater ==
  ASSUME NEW V, \A d \in V : d.ts \in Nat, NEW a, NEW cs, NEW s \in Nat, NEW t \in Nat,
         s <= t, Binding(V, a, cs, s)
  PROVE  Binding(V, a, cs, t)
<1>1. \A d \in V : Past(d, s) => Past(d, t)
  BY PastIsMonotone
<1> QED
  BY <1>1 DEF Binding

(* A state that expires does so after the commit phase of what it holds.   *)
LEMMA ExpiredIsPast ==
  ASSUME NEW V, \A d \in V : d.ts \in Nat, NEW a, NEW cs, NEW s \in Nat, NEW u \in Nat,
         u <= s, Binding(V, a, cs, s), Lasting(a, cs, u)
  PROVE  \A d \in V : Past(d, s)
<1> SUFFICES ASSUME NEW d \in V, d \in Own(cs, a)
             PROVE  Past(d, s)
  BY DEF Binding
<1>1. Past(d, u) /\ d.ts \in Nat
  BY DEF Lasting
<1> QED
  BY <1>1, PastIsMonotone

LEMMA RevealedIsPast ==
  ASSUME NEW V, \A d \in V : d.ts \in Nat, NEW a, NEW cs, NEW t \in Nat, CommitsOK(cs),
         Binding(V, a, cs, t), Phase(t) = REVEAL, \A c \in cs : c.ts <= t
  PROVE  \A d \in V : Past(d, t)
<1> SUFFICES ASSUME NEW d \in V, d \in Own(cs, a)
             PROVE  Past(d, t)
  BY DEF Binding
<1>1. d.ts <= t /\ d.ts \in Nat
  BY OwnIs
<1> QED
  BY <1>1, RevealIsPast

LEMMA EmptyIsPast ==
  ASSUME NEW V, NEW a, NEW t, Binding(V, a, {}, t)
  PROVE  \A d \in V : Past(d, t)
BY DEF Binding, Own

LEMMA FreshBinding ==
  ASSUME NEW V, \A d \in V : d.ts \in Nat, NEW a, NEW cs, NEW s \in Nat, NEW t \in Nat,
         s <= t, \A d \in V : Past(d, s), Phase(t) = COMMIT,
         cs = {} \/ IsOwn(cs, a, t)
  PROVE  Binding(V, a, cs, t)
<1> SUFFICES ASSUME NEW d \in V
             PROVE  Past(d, t) /\ \A c \in Own(cs, a) : RunOf(c) # RunOf(d)
  BY DEF Binding
<1>1. Past(d, t)
  BY PastIsMonotone
<1>2. t \div TotalRounds > RunOf(d)
  BY PastIsOver
<1>3. \A c \in Own(cs, a) : c.ts = t
  BY FreshIs
<1>4. \A c \in Own(cs, a) : RunOf(c) = t \div TotalRounds
  BY <1>3 DEF RunOf
<1>5. RunOf(d) \in Nat /\ t \div TotalRounds \in Nat
  BY DivMod, Rounds DEF RunOf
<1> QED
  BY <1>1, <1>2, <1>4, <1>5

LEMMA FreshLasting ==
  ASSUME NEW a, NEW cs, NEW s \in Nat, NEW t \in {s, s + 1}, cs = {} \/ IsOwn(cs, a, t)
  PROVE  Lasting(a, cs, Until(s, t))
<1>1. t \in Nat
  OBVIOUS
<1>2. \A c \in Own(cs, a) : c.ts = t
  BY <1>1, FreshIs
<1> QED
  BY <1>2, UntilIsPast DEF Lasting

LEMMA NewLasting ==
  ASSUME NEW a, NEW cs, NEW s \in Nat, Phase(s) = COMMIT, cs = {} \/ IsOwn(cs, a, s + 1)
  PROVE  Lasting(a, cs, Until(s, s))
<1>1. s + 1 \in Nat
  OBVIOUS
<1>2. \A c \in Own(cs, a) : c.ts = s + 1
  BY <1>1, FreshIs
<1> QED
  BY <1>2, NewUntilIsPast DEF Lasting
-----------------------------------------------------------------------------
(* What the handlers write.                                                *)

(* x differs from m in the shared random values alone.                     *)
SameCore(m, x) ==
  /\ IsState(x) /\ x.phase = m.phase /\ x.commits = m.commits
  /\ x.valid_after = m.valid_after /\ x.valid_until = m.valid_until

(* A state x that authority a, in interval s, writes on the way from m to  *)
(* the round at t: m's own; that of a new run; or m's, which had no        *)
(* commit, with a commit.                                                  *)
Image(a, m, s, t, x) ==
  /\ IsState(x)
  /\ \/ /\ x.commits = m.commits
        /\ x.valid_after = m.valid_after /\ x.valid_until = m.valid_until
     \/ /\ m.valid_after < t /\ Phase(t) = COMMIT /\ m.phase = REVEAL
        /\ x.valid_after = t /\ x.valid_until = Until(s, t)
        /\ x.commits = {} \/ IsOwn(x.commits, a, t)
     \/ /\ m.valid_after < t /\ Phase(t) = COMMIT /\ m.phase = COMMIT /\ m.commits = {}
        /\ x.valid_after = m.valid_after /\ x.valid_until = m.valid_until
        /\ IsOwn(x.commits, a, t)

(* The state x that it ends with.                                          *)
Final(a, m, s, t, x) ==
  \/ t <= m.valid_after /\ SameCore(m, x)
  \/ /\ m.valid_after < t /\ IsState(x)
     /\ x.valid_after = t /\ x.phase = Phase(t)
     /\ \/ /\ Phase(t) = COMMIT /\ m.phase = REVEAL
           /\ x.valid_until = Until(s, t) /\ IsOwn(x.commits, a, t)
        \/ /\ Phase(t) = COMMIT /\ m.phase = COMMIT /\ m.commits = {}
           /\ x.valid_until = m.valid_until /\ IsOwn(x.commits, a, t)
        \/ /\ Phase(t) = COMMIT => m.phase = COMMIT /\ m.commits # {}
           /\ x.valid_until = m.valid_until /\ x.commits = m.commits

Writes(W, a, m, s, t) ==
  /\ \E S : W \in Seq(S)
  /\ Len(W) >= 1
  /\ \A i \in 1 .. Len(W) - 1 : Image(a, m, s, t, W[i])
  /\ Final(a, m, s, t, W[Len(W)])

LEMMA SetSrvs ==
  ASSUME NEW m, IsState(m), NEW p, NEW c
  PROVE  /\ SameCore(m, [m EXCEPT !.previous_srv = p])
         /\ SameCore(m, [m EXCEPT !.current_srv = p])
         /\ SameCore(m, [m EXCEPT !.previous_srv = p, !.current_srv = c])
         /\ SameCore(m, [m EXCEPT !.current_srv = p, !.is_srv_fresh = TRUE])
         /\ SameCore(m, [m EXCEPT !.is_srv_fresh = FALSE, !.previous_srv = p])
BY DEF SameCore, IsState, MemFields

LEMMA SameCoreTransitive ==
  ASSUME NEW m, NEW x, NEW y, SameCore(m, x), SameCore(x, y)
  PROVE  SameCore(m, y)
BY DEF SameCore

LEMMA SameCoreIsImage ==
  ASSUME NEW a, NEW m, NEW s, NEW t, NEW x, SameCore(m, x)
  PROVE  Image(a, m, s, t, x)
BY DEF SameCore, Image

(* The four writes of the shared random values at the end of a run.        *)
Rotated(m) == LET r == state_rotate_srv(m) IN Append(r, sr_compute_srv(r[3]))

LEMMA RotatedIs ==
  ASSUME NEW m, IsState(m)
  PROVE  /\ \E S : Rotated(m) \in Seq(S)
         /\ Len(Rotated(m)) = 4 /\ Rotated(m) # << >>
         /\ \A i \in 1 .. 4 : SameCore(m, Rotated(m)[i])
<1> DEFINE r1 == [m EXCEPT !.previous_srv = NoSrv]
           r2 == [m EXCEPT !.previous_srv = m.current_srv]
           r3 == [m EXCEPT !.previous_srv = m.current_srv, !.current_srv = NoSrv]
           r4 == sr_compute_srv(r3)
           S == {r1, r2, r3, r4}
<1>1. SameCore(m, r1) /\ SameCore(m, r2) /\ SameCore(m, r3)
  BY SetSrvs
<1>2. IsState(r3)
  BY <1>1 DEF SameCore
<1>3. SameCore(r3, r4)
  BY <1>2, SetSrvs DEF sr_compute_srv
<1>4. SameCore(m, r4)
  BY <1>1, <1>3, SameCoreTransitive
<1>5. Rotated(m) = Append(<<r1, r2, r3>>, r4)
  BY DEF Rotated, state_rotate_srv
<1> HIDE DEF r1, r2, r3, r4
<1>6. <<r1, r2, r3>> \in Seq(S) /\ Len(<<r1, r2, r3>>) = 3
  OBVIOUS
<1>7. /\ Rotated(m) \in Seq(S) /\ Len(Rotated(m)) = 4
      /\ Rotated(m)[1] = r1 /\ Rotated(m)[2] = r2 /\ Rotated(m)[3] = r3 /\ Rotated(m)[4] = r4
  BY <1>5, <1>6
<1>8. \A i \in 1 .. 4 : i = 1 \/ i = 2 \/ i = 3 \/ i = 4
  OBVIOUS
<1>9. \A i \in 1 .. 4 : SameCore(m, Rotated(m)[i])
  BY <1>1, <1>4, <1>7, <1>8
<1>10. Rotated(m) # << >>
  BY <1>7
<1> QED
  BY <1>7, <1>9, <1>10

LEMMA OurCommit ==
  ASSUME NEW a \in Authorities, NEW t \in Nat, crashes[a] \in Nat
  PROVE  LET c == sr_generate_our_commit(a, t)
         IN  c \in Commits /\ c.auth = a /\ c.ts = t
BY DEF sr_generate_our_commit, Commits

LEMMA AddOurCommit ==
  ASSUME NEW a \in Authorities, NEW t \in Nat, crashes[a] \in Nat,
         NEW m, IsState(m), m.commits = {}
  PROVE  LET x == sr_state_add_commit(m, sr_generate_our_commit(a, t))
         IN  /\ IsState(x) /\ x.phase = m.phase /\ IsOwn(x.commits, a, t)
             /\ x.valid_after = m.valid_after /\ x.valid_until = m.valid_until
<1> DEFINE c == sr_generate_our_commit(a, t)
           x == sr_state_add_commit(m, c)
<1>1. c \in Commits /\ c.auth = a /\ c.ts = t
  BY OurCommit
<1> HIDE DEF c
<1>2. /\ DOMAIN x = MemFields /\ x.commits = {c}
      /\ x.valid_after = m.valid_after /\ x.valid_until = m.valid_until
      /\ x.phase = m.phase /\ x.is_srv_fresh = m.is_srv_fresh
  BY DEF sr_state_add_commit, IsState, MemFields
<1>3. IsOwn(x.commits, a, t)
  BY <1>1, <1>2 DEF IsOwn
<1>4. CommitsOK(x.commits)
  BY <1>3, FreshIs
<1> HIDE DEF x
<1>5. IsState(x)
  BY <1>2, <1>4 DEF IsState
<1> QED
  BY <1>2, <1>3, <1>5 DEF x, c

LEMMA Reset ==
  ASSUME NEW m, IsState(m), slot \in Nat, NEW t \in {slot, slot + 1}
  PROVE  LET x == reset_state_for_new_protocol_run(m, t)
         IN  /\ IsState(x) /\ x.phase = m.phase /\ x.commits = {}
             /\ x.valid_after = t /\ x.valid_until = Until(slot, t)
<1> DEFINE x == reset_state_for_new_protocol_run(m, t)
<1>1. t \in Nat /\ Until(slot, t) \in Nat
  BY UntilType
<1>2. /\ DOMAIN x = MemFields /\ x.commits = {}
      /\ x.valid_after = t /\ x.valid_until = Until(slot, t)
      /\ x.phase = m.phase /\ x.is_srv_fresh = m.is_srv_fresh
  BY DEF reset_state_for_new_protocol_run, get_state_valid_until_time, Until, IsState,
         MemFields
<1>3. CommitsOK({})
  BY DEF CommitsOK
<1> HIDE DEF x
<1>4. IsState(x)
  BY <1>1, <1>2, <1>3 DEF IsState
<1> QED
  BY <1>2, <1>4 DEF x

LEMMA ConcatIndex ==
  ASSUME NEW S, NEW s \in Seq(S), NEW t \in Seq(S)
  PROVE  /\ s \o t \in Seq(S) /\ Len(s \o t) = Len(s) + Len(t)
         /\ \A i \in 1 .. Len(s) : (s \o t)[i] = s[i]
         /\ \A i \in 1 .. Len(t) : (s \o t)[Len(s) + i] = t[i]
<1>1. /\ s \o t \in Seq(S) /\ Len(s \o t) = Len(s) + Len(t)
      /\ \A i \in 1 .. Len(s) + Len(t) :
           (s \o t)[i] = IF i <= Len(s) THEN s[i] ELSE t[i - Len(s)]
  BY ConcatProperties
<1>0. Len(s) \in Nat /\ Len(t) \in Nat
  OBVIOUS
<1>2. ASSUME NEW i \in 1 .. Len(t)
      PROVE  (s \o t)[Len(s) + i] = t[i]
  <2>1. Len(s) + i \in 1 .. Len(s) + Len(t) /\ ~(Len(s) + i <= Len(s))
        /\ (Len(s) + i) - Len(s) = i
    BY <1>0
  <2> QED
    BY <1>1, <2>1
<1>3. ASSUME NEW i \in 1 .. Len(s)
      PROVE  (s \o t)[i] = s[i]
  <2>1. i \in 1 .. Len(s) + Len(t) /\ i <= Len(s)
    BY <1>0
  <2> QED
    BY <1>1, <2>1
<1> QED
  BY <1>1, <1>2, <1>3

LEMMA NewRunWrites ==
  ASSUME NEW a \in Authorities, NEW m, IsState(m), slot \in Nat, NEW t \in {slot, slot + 1},
         crashes[a] \in Nat, m.valid_after < t, Phase(t) = COMMIT, m.phase = REVEAL
  PROVE  LET W == new_protocol_run(m, a, t) IN
         /\ \E S : W \in Seq(S)
         /\ Len(W) = 6
         /\ \A i \in 1 .. 6 : Image(a, m, slot, t, W[i])
         /\ IsState(W[6]) /\ IsOwn(W[6].commits, a, t) /\ W[6].valid_until = Until(slot, t)
<1> DEFINE R == Rotated(m)
           clean == reset_state_for_new_protocol_run(R[4], t)
           own == sr_state_add_commit(clean, sr_generate_our_commit(a, t))
           W == new_protocol_run(m, a, t)
<1>1. PICK S : R \in Seq(S)
  BY RotatedIs
<1>2. Len(R) = 4 /\ R # << >> /\ \A i \in 1 .. 4 : SameCore(m, R[i])
  BY RotatedIs
<1>3. W = R \o <<clean, own>>
  <2>1. Last(R) = R[4]
    BY <1>2 DEF Last
  <2> QED
    BY <1>2, <2>1 DEF new_protocol_run, Rotated
<1>4. t \in Nat
  OBVIOUS
<1>5. IsState(R[4])
  BY <1>2 DEF SameCore
<1> HIDE DEF R
<1>6. /\ IsState(clean) /\ clean.commits = {} /\ clean.valid_after = t
      /\ clean.valid_until = Until(slot, t)
  BY <1>5, Reset
<1> HIDE DEF clean
<1>7. /\ IsState(own) /\ IsOwn(own.commits, a, t)
      /\ own.valid_after = t /\ own.valid_until = Until(slot, t)
  BY <1>4, <1>6, AddOurCommit
<1> HIDE DEF own, W
<1>8. Image(a, m, slot, t, clean) /\ Image(a, m, slot, t, own)
  BY <1>6, <1>7 DEF Image
<1>9. R \in Seq(S \cup {clean, own}) /\ <<clean, own>> \in Seq(S \cup {clean, own})
  BY <1>1
<1>10. /\ W \in Seq(S \cup {clean, own}) /\ Len(W) = 6
       /\ \A i \in 1 .. 4 : W[i] = R[i]
       /\ W[5] = clean /\ W[6] = own
  <2> DEFINE D == <<clean, own>>
  <2>1. Len(D) = 2 /\ D[1] = clean /\ D[2] = own
    OBVIOUS
  <2>2. D \in Seq(S \cup {clean, own})
    BY <1>9
  <2> HIDE DEF D
  <2>3. W = R \o D /\ Len(R) = 4
    BY <1>2, <1>3 DEF D
  <2>7. /\ R \o D \in Seq(S \cup {clean, own}) /\ Len(R \o D) = Len(R) + Len(D)
        /\ \A i \in 1 .. Len(R) : (R \o D)[i] = R[i]
        /\ \A i \in 1 .. Len(D) : (R \o D)[Len(R) + i] = D[i]
    BY <1>9, <2>2, ConcatIndex
  <2>4. /\ R \o D \in Seq(S \cup {clean, own}) /\ Len(R \o D) = 4 + 2
        /\ \A i \in 1 .. 4 : (R \o D)[i] = R[i]
        /\ \A i \in 1 .. 2 : (R \o D)[4 + i] = D[i]
    BY <2>1, <2>3, <2>7
  <2>5. (R \o D)[4 + 1] = D[1] /\ (R \o D)[4 + 2] = D[2]
    BY <2>4, SMTT(30)
  <2>6. 4 + 1 = 5 /\ 4 + 2 = 6
    OBVIOUS
  <2> QED
    BY <2>1, <2>3, <2>4, <2>5, <2>6
<1>11. ASSUME NEW i \in 1 .. 6
       PROVE  Image(a, m, slot, t, W[i])
  <2>1. CASE i \in 1 .. 4
    BY <2>1, <1>2, <1>10, SameCoreIsImage
  <2>2. CASE i = 5 \/ i = 6
    BY <2>2, <1>8, <1>10
  <2> QED
    BY <2>1, <2>2
<1> QED
  BY <1>7, <1>10, <1>11 DEF W

(* The last write sets the phase and the time.                             *)
LEMMA Settled ==
  ASSUME NEW m, IsState(m), NEW t \in Nat
  PROVE  LET x == [m EXCEPT !.phase = get_sr_protocol_phase(t), !.valid_after = t]
         IN  /\ IsState(x) /\ x.phase = Phase(t) /\ x.valid_after = t
             /\ x.commits = m.commits /\ x.valid_until = m.valid_until
<1> DEFINE x == [m EXCEPT !.phase = get_sr_protocol_phase(t), !.valid_after = t]
<1>1. /\ DOMAIN x = MemFields /\ x.phase = Phase(t) /\ x.valid_after = t
      /\ x.commits = m.commits /\ x.valid_until = m.valid_until
      /\ x.is_srv_fresh = m.is_srv_fresh
  BY DEF IsState, MemFields, Phase
<1>2. Phase(t) \in {COMMIT, REVEAL}
  BY Phases
<1> HIDE DEF x
<1>3. IsState(x)
  BY <1>1, <1>2 DEF IsState
<1> QED
  BY <1>1, <1>3 DEF x

LEMMA AppendSettled ==
  ASSUME NEW a, NEW m, NEW s, NEW t, NEW P, \E S : P \in Seq(S), Len(P) >= 1,
         \A i \in 1 .. Len(P) : Image(a, m, s, t, P[i]),
         NEW x, Final(a, m, s, t, x)
  PROVE  Writes(Append(P, x), a, m, s, t)
<1>1. PICK S : P \in Seq(S)
  OBVIOUS
<1>2. P \in Seq(S \cup {x}) /\ Len(P) \in Nat
  BY <1>1
<1> DEFINE W == Append(P, x)
<1>3. /\ W \in Seq(S \cup {x}) /\ Len(W) = Len(P) + 1 /\ W[Len(W)] = x
      /\ \A i \in 1 .. Len(P) : W[i] = P[i]
  BY <1>2
<1> HIDE DEF W
<1>4. Len(W) - 1 = Len(P)
  BY <1>2, <1>3
<1>5. \A i \in 1 .. Len(W) - 1 : Image(a, m, s, t, W[i])
  BY <1>3, <1>4
<1>6. Len(W) >= 1
  BY <1>2, <1>3
<1>7. Writes(W, a, m, s, t)
  BY <1>3, <1>5, <1>6 DEF Writes
<1> QED
  BY <1>7 DEF W

LEMMA OneWrite ==
  ASSUME NEW x
  PROVE  (\E S : <<x>> \in Seq(S)) /\ Len(<<x>>) = 1 /\ <<x>>[1] = x /\ Last(<<x>>) = x
<1>1. <<x>> \in Seq({x})
  OBVIOUS
<1> QED
  BY <1>1 DEF Last

LEMMA UpdateWrites ==
  ASSUME NEW a \in Authorities, NEW m, IsState(m), slot \in Nat, NEW t \in {slot, slot + 1},
         crashes[a] \in Nat
  PROVE  Writes(sr_state_update(m, a, t), a, m, slot, t)
<1> DEFINE W == sr_state_update(m, a, t)
           Moved(x) == [x EXCEPT !.phase = get_sr_protocol_phase(t), !.valid_after = t]
<1>1. t \in Nat /\ m.valid_after \in Nat /\ m.phase \in {COMMIT, REVEAL}
  BY DEF IsState
<1>2. Phase(t) \in {COMMIT, REVEAL} /\ COMMIT # REVEAL
  BY <1>1, Phases
<1>3. SameCore(m, m)
  BY DEF SameCore
<1>4. Image(a, m, slot, t, m)
  BY <1>3, SameCoreIsImage
<1>5. CASE t <= m.valid_after
  <2>1. W = <<m>>
    BY <1>5 DEF sr_state_update
  <2>2. Final(a, m, slot, t, m)
    BY <1>3, <1>5 DEF Final
  <2> QED
    BY <2>1, <2>2, OneWrite DEF Writes
<1>6. CASE m.valid_after < t /\ Phase(t) = COMMIT /\ m.phase = REVEAL
  <2> DEFINE P == new_protocol_run(m, a, t)
  <2>1. /\ \E S : P \in Seq(S)
        /\ Len(P) = 6
        /\ \A i \in 1 .. 6 : Image(a, m, slot, t, P[i])
        /\ IsState(P[6]) /\ IsOwn(P[6].commits, a, t) /\ P[6].valid_until = Until(slot, t)
    BY <1>6, NewRunWrites
  <2>2. Last(P) = P[6]
    BY <2>1 DEF Last
  <2>3. W = Append(P, Moved(Last(P)))
    BY <1>1, <1>2, <1>6 DEF sr_state_update, Phase
  <2> HIDE DEF P
  <2> DEFINE f == Moved(P[6])
  <2>4. Final(a, m, slot, t, f)
    <3>1. /\ IsState(f) /\ f.phase = Phase(t) /\ f.valid_after = t
          /\ f.commits = P[6].commits /\ f.valid_until = P[6].valid_until
      BY <1>1, <2>1, Settled
    <3> HIDE DEF f
    <3> QED
      BY <1>6, <2>1, <3>1 DEF Final
  <2>5. W = Append(P, f)
    BY <2>2, <2>3
  <2> HIDE DEF f, W
  <2>6. Len(P) >= 1 /\ \A i \in 1 .. Len(P) : Image(a, m, slot, t, P[i])
    BY <2>1
  <2>7. Writes(W, a, m, slot, t)
    BY <2>1, <2>4, <2>5, <2>6, AppendSettled
  <2> QED
    BY <2>7 DEF W
<1>7. CASE m.valid_after < t /\ Phase(t) = COMMIT /\ m.phase = COMMIT /\ m.commits = {}
  <2> DEFINE x == sr_state_add_commit(m, sr_generate_our_commit(a, t))
  <2>1. /\ IsState(x) /\ IsOwn(x.commits, a, t)
        /\ x.valid_after = m.valid_after /\ x.valid_until = m.valid_until
    BY <1>1, <1>7, AddOurCommit
  <2>2. W = Append(<<x>>, Moved(Last(<<x>>)))
    BY <1>1, <1>2, <1>7 DEF sr_state_update, Phase
  <2> HIDE DEF x
  <2>3. Image(a, m, slot, t, x)
    BY <1>7, <2>1 DEF Image
  <2> DEFINE f == Moved(x)
  <2>4. /\ IsState(f) /\ f.phase = Phase(t) /\ f.valid_after = t
        /\ f.commits = x.commits /\ f.valid_until = x.valid_until
    BY <1>1, <2>1, Settled
  <2>5. W = Append(<<x>>, f)
    BY <2>2, OneWrite
  <2> HIDE DEF f, W
  <2>6. Final(a, m, slot, t, f)
    BY <1>7, <2>1, <2>4 DEF Final
  <2>7. Writes(W, a, m, slot, t)
    <3>1. /\ \E S : <<x>> \in Seq(S)
          /\ Len(<<x>>) >= 1
          /\ \A i \in 1 .. Len(<<x>>) : Image(a, m, slot, t, <<x>>[i])
      BY <2>3, OneWrite
    <3> QED
      BY <2>5, <2>6, <3>1, AppendSettled
  <2> QED
    BY <2>7 DEF W
<1>8. CASE /\ m.valid_after < t
           /\ Phase(t) = COMMIT => m.phase = COMMIT /\ m.commits # {}
  <2> DEFINE f == Moved(m)
  <2>1. W = Append(<<m>>, Moved(Last(<<m>>)))
    <3> DEFINE prepared ==
                 IF Phase(t) # m.phase
                 THEN IF Phase(t) = COMMIT THEN new_protocol_run(m, a, t) ELSE <<m>>
                 ELSE IF m.phase = COMMIT /\ m.commits = {}
                 THEN <<sr_state_add_commit(m, sr_generate_our_commit(a, t))>>
                 ELSE <<m>>
    <3>1. W = IF t <= m.valid_after THEN <<m>>
              ELSE Append(prepared, Moved(Last(prepared)))
      BY DEF sr_state_update, Phase
    <3>2. prepared = <<m>>
      BY <1>1, <1>2, <1>8
    <3> HIDE DEF prepared
    <3>3. ~(t <= m.valid_after)
      BY <1>1, <1>8
    <3> QED
      BY <3>1, <3>2, <3>3
  <2>2. Final(a, m, slot, t, f)
    BY <1>1, <1>8, Settled DEF Final
  <2>3. W = Append(<<m>>, f)
    BY <2>1, OneWrite
  <2> HIDE DEF f, W
  <2>4. Writes(W, a, m, slot, t)
    <3>1. /\ \E S : <<m>> \in Seq(S)
          /\ Len(<<m>>) >= 1
          /\ \A i \in 1 .. Len(<<m>>) : Image(a, m, slot, t, <<m>>[i])
      BY <1>4, OneWrite
    <3> QED
      BY <2>2, <2>3, <3>1, AppendSettled
  <2> QED
    BY <2>4 DEF W
<1> QED
  BY <1>1, <1>2, <1>5, <1>6, <1>7, <1>8

LEMMA SameCoreWrites ==
  ASSUME NEW a, NEW m, NEW x, NEW s, NEW t, SameCore(m, x), NEW W, Writes(W, a, x, s, t)
  PROVE  Writes(W, a, m, s, t)
<1>1. ASSUME NEW y, Image(a, x, s, t, y)
      PROVE  Image(a, m, s, t, y)
  BY <1>1 DEF Image, SameCore
<1>2. ASSUME NEW y, Final(a, x, s, t, y)
      PROVE  Final(a, m, s, t, y)
  BY <1>2 DEF Final, SameCore
<1> QED
  BY <1>1, <1>2 DEF Writes

LEMMA FirstWrites ==
  ASSUME NEW a, NEW m, NEW s, NEW t, NEW P, \E S : P \in Seq(S),
         \A i \in 1 .. Len(P) : Image(a, m, s, t, P[i]),
         NEW U, Writes(U, a, m, s, t)
  PROVE  Writes(P \o U, a, m, s, t)
<1>1. PICK S : P \in Seq(S)
  OBVIOUS
<1>2. PICK Z : U \in Seq(Z)
  BY DEF Writes
<1> DEFINE Y == S \cup Z
           W == P \o U
<1>3. P \in Seq(Y) /\ U \in Seq(Y)
  BY <1>1, <1>2
<1> HIDE DEF Y
<1>4. /\ W \in Seq(Y) /\ Len(W) = Len(P) + Len(U)
      /\ \A i \in 1 .. Len(P) : W[i] = P[i]
      /\ \A i \in 1 .. Len(U) : W[Len(P) + i] = U[i]
  BY <1>3, ConcatIndex
<1>5. Len(P) \in Nat /\ Len(U) \in Nat /\ Len(U) >= 1
  BY <1>3 DEF Writes
<1> HIDE DEF W
<1>6. ASSUME NEW i \in 1 .. Len(W) - 1
      PROVE  Image(a, m, s, t, W[i])
  <2>1. CASE i <= Len(P)
    BY <2>1, <1>4, <1>5
  <2>2. CASE i > Len(P)
    <3> DEFINE j == i - Len(P)
    <3>1. j \in 1 .. Len(U) - 1 /\ j \in 1 .. Len(U) /\ i = Len(P) + j
      BY <2>2, <1>4, <1>5
    <3> HIDE DEF j
    <3>2. W[i] = U[j]
      BY <1>4, <3>1
    <3>3. Image(a, m, s, t, U[j])
      BY <3>1 DEF Writes
    <3> QED
      BY <3>2, <3>3
  <2> QED
    BY <1>4, <1>5, <2>1, <2>2
<1>7. W[Len(W)] = U[Len(U)] /\ Len(W) >= 1
  <2>1. Len(U) \in 1 .. Len(U)
    BY <1>5
  <2> QED
    BY <1>4, <1>5, <2>1
<1>8. Final(a, m, s, t, U[Len(U)])
  BY DEF Writes
<1>9. Writes(W, a, m, s, t)
  BY <1>4, <1>6, <1>7, <1>8 DEF Writes
<1> QED
  BY <1>9 DEF W

LEMMA ConsensusWrites ==
  ASSUME NEW a \in Authorities, NEW m, IsState(m), slot \in Nat, NEW t \in {slot, slot + 1},
         crashes[a] \in Nat, NEW consensus
  PROVE  Writes(sr_act_post_consensus(m, a, consensus, t), a, m, slot, t)
<1>1. CASE consensus = NoDoc
  <2>1. Writes(sr_state_update(m, a, t), a, m, slot, t)
    BY UpdateWrites
  <2> QED
    BY <1>1, <2>1 DEF sr_act_post_consensus
<1>2. CASE consensus # NoDoc
  <2> DEFINE noprev == [m EXCEPT !.previous_srv = NoSrv]
             clean == [noprev EXCEPT !.current_srv = NoSrv]
             prev == [clean EXCEPT !.is_srv_fresh = FALSE,
                                   !.previous_srv = consensus.previous_srv]
             cur == [prev EXCEPT !.current_srv = consensus.current_srv]
             P == <<noprev, clean, prev, cur>>
             U == sr_state_update(cur, a, t)
  <2>1. sr_act_post_consensus(m, a, consensus, t) = P \o U
    BY <1>2 DEF sr_act_post_consensus
  <2>2. SameCore(m, noprev) /\ IsState(noprev)
    BY SetSrvs DEF SameCore
  <2> HIDE DEF noprev
  <2>3. SameCore(m, clean) /\ IsState(clean)
    <3>1. SameCore(noprev, clean)
      BY <2>2, SetSrvs
    <3> QED
      BY <2>2, <3>1, SameCoreTransitive DEF SameCore
  <2> HIDE DEF clean
  <2>4. SameCore(m, prev) /\ IsState(prev)
    <3>1. SameCore(clean, prev)
      BY <2>3, SetSrvs
    <3> QED
      BY <2>3, <3>1, SameCoreTransitive DEF SameCore
  <2> HIDE DEF prev
  <2>5. SameCore(m, cur) /\ IsState(cur)
    <3>1. SameCore(prev, cur)
      BY <2>4, SetSrvs
    <3> QED
      BY <2>4, <3>1, SameCoreTransitive DEF SameCore
  <2> HIDE DEF cur
  <2>6. Writes(U, a, cur, slot, t)
    BY <2>5, UpdateWrites
  <2> HIDE DEF U
  <2>7. Writes(U, a, m, slot, t)
    BY <2>5, <2>6, SameCoreWrites
  <2>8. /\ P \in Seq({noprev, clean, prev, cur}) /\ Len(P) = 4
        /\ P[1] = noprev /\ P[2] = clean /\ P[3] = prev /\ P[4] = cur
    OBVIOUS
  <2> HIDE DEF P
  <2>9. /\ Image(a, m, slot, t, noprev) /\ Image(a, m, slot, t, clean)
        /\ Image(a, m, slot, t, prev) /\ Image(a, m, slot, t, cur)
    BY <2>2, <2>3, <2>4, <2>5, SameCoreIsImage
  <2>10. \A i \in 1 .. Len(P) : i = 1 \/ i = 2 \/ i = 3 \/ i = 4
    BY <2>8
  <2>11. \A i \in 1 .. Len(P) : Image(a, m, slot, t, P[i])
    BY <2>8, <2>9, <2>10
  <2>12. \E S : P \in Seq(S)
    BY <2>8
  <2>13. Writes(P \o U, a, m, slot, t)
    BY <2>7, <2>11, <2>12, FirstWrites
  <2> QED
    BY <2>1, <2>13
<1> QED
  BY <1>1, <1>2

LEMMA InitWrites ==
  ASSUME NEW a \in Authorities, NEW m, IsState(m), slot \in Nat, crashes[a] \in Nat
  PROVE  Writes(<<m>> \o sr_state_update(m, a, slot + 1), a, m, slot, slot + 1)
<1> DEFINE U == sr_state_update(m, a, slot + 1)
<1>1. Writes(U, a, m, slot, slot + 1)
  BY UpdateWrites
<1> HIDE DEF U
<1>2. SameCore(m, m)
  BY DEF SameCore
<1>3. Image(a, m, slot, slot + 1, m)
  BY <1>2, SameCoreIsImage
<1>4. /\ \E S : <<m>> \in Seq(S)
      /\ \A i \in 1 .. Len(<<m>>) : Image(a, m, slot, slot + 1, <<m>>[i])
  BY <1>3, OneWrite
<1>5. Writes(<<m>> \o U, a, m, slot, slot + 1)
  BY <1>1, <1>4, FirstWrites
<1> QED
  BY <1>5 DEF U
-----------------------------------------------------------------------------
(* The parts of the invariant, of the states that are written.             *)

(* Everything the authority voted for is over once its state is empty or   *)
(* of the reveal phase.                                                    *)
LEMMA OverIsPast ==
  ASSUME NEW V, \A d \in V : d.ts \in Nat, NEW a, NEW cs, CommitsOK(cs),
         NEW t \in Nat, NEW u \in Nat, t <= u, Binding(V, a, cs, u),
         cs = {} \/ (Phase(t) = REVEAL /\ \A c \in cs : c.ts <= t)
  PROVE  \A d \in V : Past(d, u)
<1>1. CASE cs = {}
  BY <1>1, EmptyIsPast
<1>2. CASE Phase(t) = REVEAL /\ \A c \in cs : c.ts <= t
  <2> SUFFICES ASSUME NEW d \in V, d \in Own(cs, a)
               PROVE  Past(d, u)
    BY DEF Binding
  <2>1. d.ts <= t /\ d.ts \in Nat
    BY <1>2, OwnIs
  <2>2. Past(d, t)
    BY <1>2, <2>1, RevealIsPast
  <2> QED
    BY <2>1, <2>2, PastIsMonotone
<1> QED
  BY <1>1, <1>2

LEMMA BindingFinal ==
  ASSUME NEW V, \A d \in V : d.ts \in Nat, NEW a, NEW m, IsState(m),
         m.phase = REVEAL =>
           m.commits = {} \/ (/\ Phase(m.valid_after) = REVEAL
                              /\ \A c \in m.commits : c.ts <= m.valid_after),
         NEW s \in Nat, NEW t \in Nat, NEW u \in Nat, m.valid_after <= u,
         u <= t \/ u = m.valid_after, Binding(V, a, m.commits, u),
         NEW x, Final(a, m, s, t, x)
  PROVE  Binding(V, a, x.commits, x.valid_after)
<1>1. m.valid_after \in Nat /\ CommitsOK(m.commits)
  BY DEF IsState
<1>2. CASE t <= m.valid_after /\ SameCore(m, x)
  <2>1. x.commits = m.commits /\ x.valid_after = m.valid_after
    BY <1>2 DEF SameCore
  <2>2. u = m.valid_after
    BY <1>1, <1>2
  <2> QED
    BY <2>1, <2>2
<1>3. CASE /\ m.valid_after < t /\ x.valid_after = t /\ Phase(t) = COMMIT
           /\ IsOwn(x.commits, a, t) /\ (m.phase = REVEAL \/ m.commits = {})
  <2>1. u <= t
    BY <1>1, <1>3
  <2>2. \A d \in V : Past(d, u)
    BY <1>1, <1>3, OverIsPast
  <2>3. Binding(V, a, x.commits, t)
    BY <1>3, <2>1, <2>2, FreshBinding
  <2> QED
    BY <1>3, <2>3
<1>4. CASE m.valid_after < t /\ x.valid_after = t /\ x.commits = m.commits
  <2>1. u <= t
    BY <1>1, <1>4
  <2>2. Binding(V, a, m.commits, t)
    BY <2>1, BindingLater
  <2> QED
    BY <1>4, <2>2
<1> QED
  BY <1>2, <1>3, <1>4 DEF Final

LEMMA LastingFinal ==
  ASSUME NEW a, NEW m, NEW s \in Nat, NEW t \in {s, s + 1}, NEW x, Final(a, m, s, t, x),
         Lasting(a, m.commits, m.valid_until), Complete(m.phase, m.commits)
  PROVE  Lasting(a, x.commits, x.valid_until) /\ Complete(x.phase, x.commits)
<1>1. CASE t <= m.valid_after /\ SameCore(m, x)
  BY <1>1 DEF SameCore
<1>2. CASE /\ Phase(t) = COMMIT /\ x.valid_until = Until(s, t) /\ IsOwn(x.commits, a, t)
  <2>1. Lasting(a, x.commits, Until(s, t))
    BY <1>2, FreshLasting
  <2>2. x.commits # {}
    BY <1>2 DEF IsOwn
  <2> QED
    BY <1>2, <2>1, <2>2 DEF Complete
<1>3. CASE m.phase = COMMIT /\ m.commits = {}
  BY <1>3 DEF Complete
<1>4. CASE /\ x.phase = Phase(t)
           /\ Phase(t) = COMMIT => m.phase = COMMIT /\ m.commits # {}
           /\ x.valid_until = m.valid_until /\ x.commits = m.commits
  BY <1>4 DEF Complete
<1> QED
  BY <1>1, <1>2, <1>3, <1>4 DEF Final

LEMMA DatedFinal ==
  ASSUME NEW a, NEW m, NEW s \in Nat, s >= 1, NEW t \in {s, s + 1},
         IsState(m), Dated(a, m, s), t = s + 1 \/ Early(m, s),
         NEW x, Final(a, m, s, t, x)
  PROVE  IsState(x) /\ Dated(a, x, s)
<1>1. CASE t <= m.valid_after /\ SameCore(m, x)
  BY <1>1 DEF SameCore, Dated
<1>2. ASSUME m.valid_after < t, IsState(x), x.valid_after = t, x.phase = Phase(t)
      PROVE  t \in 1 .. s + 1 /\ t \in Nat /\ t <= s + 1
  OBVIOUS
<1>3. CASE /\ m.valid_after < t /\ IsState(x) /\ x.valid_after = t /\ x.phase = Phase(t)
           /\ IsOwn(x.commits, a, t)
  <2>1. t \in 1 .. s + 1 /\ t \in Nat /\ t <= s + 1
    BY <1>2, <1>3
  <2>2. \A c \in x.commits : c.ts = t
    BY <1>3, <2>1, FreshIs
  <2> QED
    BY <1>3, <2>1, <2>2 DEF Dated
<1>4. CASE /\ m.valid_after < t /\ IsState(x) /\ x.valid_after = t /\ x.phase = Phase(t)
           /\ x.commits = m.commits
  <2>1. t \in 1 .. s + 1 /\ t \in Nat /\ t <= s + 1
    BY <1>2, <1>4
  <2>2. \A c \in x.commits : c.ts <= t /\ c.ts <= s + 1
    <3>1. CASE t = s + 1
      BY <1>4, <3>1 DEF Dated
    <3>2. CASE t = s /\ Early(m, s)
      BY <1>4, <3>2 DEF Dated, Early
    <3> QED
      BY <3>1, <3>2
  <2> QED
    BY <1>4, <2>1, <2>2 DEF Dated
<1> QED
  BY <1>1, <1>3, <1>4 DEF Final

LEMMA DatedInit ==
  ASSUME NEW a, NEW m, NEW s \in Nat, IsState(m), m.valid_after \in 0 .. s + 1,
         m.phase = Phase(m.valid_after) \/ m.valid_after = 0,
         \A c \in m.commits : c.ts <= s + 1,
         NEW x, Final(a, m, s, s + 1, x)
  PROVE  IsState(x) /\ Dated(a, x, s) /\ x.valid_after = s + 1
<1>1. CASE s + 1 <= m.valid_after /\ SameCore(m, x)
  <2>1. m.valid_after = s + 1 /\ m.valid_after # 0
    BY <1>1
  <2>2. /\ IsState(x) /\ x.phase = m.phase /\ x.commits = m.commits
        /\ x.valid_after = s + 1
    BY <1>1, <2>1 DEF SameCore
  <2> QED
    BY <2>1, <2>2 DEF Dated
<1>2. CASE IsState(x) /\ x.valid_after = s + 1 /\ x.phase = Phase(s + 1)
           /\ IsOwn(x.commits, a, s + 1)
  <2>1. \A c \in x.commits : c.ts = s + 1
    BY <1>2, FreshIs
  <2> QED
    BY <1>2, <2>1 DEF Dated
<1>3. CASE IsState(x) /\ x.valid_after = s + 1 /\ x.phase = Phase(s + 1)
           /\ x.commits = m.commits
  <2>1. \A c \in x.commits : c.ts <= s + 1
    BY <1>3
  <2>2. s + 1 \in 1 .. s + 1
    OBVIOUS
  <2> QED
    BY <1>3, <2>1, <2>2 DEF Dated
<1> QED
  BY <1>1, <1>2, <1>3 DEF Final

LEMMA NewFinal ==
  ASSUME NEW a, NEW m, NEW s \in Nat, m.valid_after = 0, m.commits = {},
         m.phase = Phase(s), m.valid_until = Until(s, s),
         NEW x, Final(a, m, s, s + 1, x)
  PROVE  Lasting(a, x.commits, x.valid_until) /\ Complete(x.phase, x.commits)
<1>1. ~(s + 1 <= m.valid_after) /\ s + 1 \in {s, s + 1}
  OBVIOUS
<1>2. CASE /\ x.valid_until = Until(s, s + 1) /\ IsOwn(x.commits, a, s + 1)
  <2>1. Lasting(a, x.commits, Until(s, s + 1))
    BY <1>1, <1>2, FreshLasting
  <2>2. x.commits # {}
    BY <1>2 DEF IsOwn
  <2> QED
    BY <1>2, <2>1, <2>2 DEF Complete
<1>3. CASE Phase(s) = COMMIT /\ x.valid_until = Until(s, s) /\ IsOwn(x.commits, a, s + 1)
  <2>1. Lasting(a, x.commits, Until(s, s))
    BY <1>3, NewLasting
  <2>2. x.commits # {}
    BY <1>3 DEF IsOwn
  <2> QED
    BY <1>3, <2>1, <2>2 DEF Complete
<1>4. CASE x.phase = Phase(s + 1) /\ Phase(s + 1) # COMMIT /\ x.commits = {}
  BY <1>4 DEF Complete, Lasting, Own
<1> QED
  BY <1>1, <1>2, <1>3, <1>4 DEF Final

(* What a crash between two writes leaves on disk.                         *)
LEMMA FileImage ==
  ASSUME NEW a, NEW m, NEW s \in Nat, NEW t \in {s, s + 1}, IsState(m),
         m.valid_after \in 0 .. s + 1, \A c \in m.commits : c.ts <= s + 1,
         Phase(m.valid_after) = REVEAL => \A c \in m.commits : c.ts <= m.valid_after,
         m.phase = COMMIT => Phase(m.valid_after) = COMMIT,
         NEW x, Image(a, m, s, t, x)
  PROVE  IsFile(disk_state_update(x), s)
<1> DEFINE d == disk_state_update(x)
<1> SUFFICES IsFile(d, s)
  OBVIOUS
<1>1. /\ d.valid_after = x.valid_after /\ d.valid_until = x.valid_until
      /\ d.commits = x.commits
  BY DEF disk_state_update
<1>2. d.valid_until \in Nat /\ CommitsOK(d.commits)
  BY <1>1 DEF Image, IsState
<1> HIDE DEF d
<1>3. t \in 0 .. s + 1 /\ t \in Nat /\ t <= s + 1
  OBVIOUS
<1>4. CASE x.commits = m.commits /\ x.valid_after = m.valid_after
  BY <1>1, <1>2, <1>4 DEF IsFile
<1>5. CASE x.valid_after = t /\ (x.commits = {} \/ IsOwn(x.commits, a, t))
  <2>1. \A c \in x.commits : c.ts = t
    BY <1>3, <1>5, FreshIs
  <2> QED
    BY <1>1, <1>2, <1>3, <1>5, <2>1 DEF IsFile
<1>6. CASE m.phase = COMMIT /\ x.valid_after = m.valid_after /\ IsOwn(x.commits, a, t)
  <2>1. \A c \in x.commits : c.ts = t
    BY <1>3, <1>6, FreshIs
  <2>2. Phase(x.valid_after) # REVEAL
    BY <1>6 DEF COMMIT, REVEAL
  <2> QED
    BY <1>1, <1>2, <1>3, <1>6, <2>1, <2>2 DEF IsFile
<1> QED
  BY <1>4, <1>5, <1>6 DEF Image

LEMMA BindingImage ==
  ASSUME NEW V, \A d \in V : d.ts \in Nat, NEW a, NEW m, NEW s \in Nat,
         NEW t \in {s, s + 1}, IsState(m), Dated(a, m, s),
         Binding(V, a, m.commits, m.valid_after),
         Lasting(a, m.commits, m.valid_until), Complete(m.phase, m.commits),
         NEW x, Image(a, m, s, t, x)
  PROVE  Binding(V, a, x.commits, s + 1) /\ Lasting(a, x.commits, x.valid_until)
<1>1. m.valid_after \in Nat /\ CommitsOK(m.commits) /\ m.valid_after <= s + 1
  BY DEF IsState, Dated
<1>2. CASE /\ x.commits = m.commits /\ x.valid_until = m.valid_until
  <2>1. Binding(V, a, m.commits, s + 1)
    BY <1>1, BindingLater
  <2> QED
    BY <1>2, <2>1
<1>3. CASE /\ m.valid_after < t /\ Phase(t) = COMMIT /\ m.phase = REVEAL
           /\ x.valid_until = Until(s, t)
           /\ x.commits = {} \/ IsOwn(x.commits, a, t)
  <2>1. Phase(m.valid_after) = REVEAL /\ \A c \in m.commits : c.ts <= m.valid_after
    BY <1>3 DEF Dated
  <2>2. \A d \in V : Past(d, m.valid_after)
    BY <1>1, <2>1, RevealedIsPast
  <2>3. t \in Nat /\ m.valid_after <= t /\ t <= s + 1
    BY <1>1, <1>3
  <2>4. Binding(V, a, x.commits, t)
    BY <1>1, <1>3, <2>2, <2>3, FreshBinding
  <2>5. Binding(V, a, x.commits, s + 1)
    BY <2>3, <2>4, BindingLater
  <2>6. Lasting(a, x.commits, Until(s, t))
    BY <1>3, FreshLasting
  <2> QED
    BY <1>3, <2>5, <2>6
<1>4. CASE m.phase = COMMIT /\ m.commits = {}
  BY <1>4 DEF Complete
<1> QED
  BY <1>2, <1>3, <1>4 DEF Image
-----------------------------------------------------------------------------
(* One authority.                                                          *)

(* What happens in the rest of the network leaves an authority as it is.   *)
LEMMA Bystander ==
  ASSUME NEW b \in Authorities, Authority(b), slot' = slot,
         stage' = "publish" /\ b \in todo' => stage = "publish" /\ b \in todo,
         b \in up' <=> b \in up, b \in torn' <=> b \in torn,
         crashes'[b] = crashes[b], mem'[b] = mem[b], disk'[b] = disk[b],
         VotedBy(b)' = VotedBy(b)
  PROVE  Authority(b)'
<1>1. ResumesFromItsFile(b)' <=> ResumesFromItsFile(b)
  BY DEF ResumesFromItsFile
<1>2. Memory(b, mem[b]) => Memory(b, mem[b])'
  BY <1>1 DEF Memory
<1>3. File(b, disk[b]) => File(b, disk[b])'
  BY <1>1 DEF File
<1> QED
  BY <1>2, <1>3 DEF Authority

LEMMA FinishedRun ==
  ASSUME NEW a \in Authorities, a \in up, Memory(a, mem[a]), slot \in Nat, slot >= 1,
         \A d \in VotedBy(a) : d.ts \in Nat,
         NEW t \in {slot, slot + 1}, t = slot + 1 \/ Early(mem[a], slot),
         NEW x, Final(a, mem[a], slot, t, x),
         slot' = slot, torn' = torn, crashes' = crashes, voted' = voted,
         ~(stage' = "publish" /\ a \in todo'), mem'[a] = x
  PROVE  Memory(a, mem[a])'
<1> DEFINE m == mem[a]
<1>1. IsState(m) /\ Dated(a, m, slot)
  BY DEF Memory
<1>2. IsState(x) /\ Dated(a, x, slot)
  BY <1>1, DatedFinal
<1>3. ASSUME ResumesFromItsFile(a)
      PROVE  Binding(VotedBy(a), a, x.commits, x.valid_after)
  <2>1. Binding(VotedBy(a), a, m.commits, m.valid_after)
    BY <1>3 DEF Memory
  <2>2. m.valid_after \in Nat
    BY <1>1 DEF IsState
  <2>3. m.phase = REVEAL =>
          m.commits = {} \/ (/\ Phase(m.valid_after) = REVEAL
                             /\ \A c \in m.commits : c.ts <= m.valid_after)
    BY <1>1 DEF Dated
  <2>4. t \in Nat
    OBVIOUS
  <2> HIDE DEF m
  <2>5. m.valid_after <= m.valid_after /\ (m.valid_after <= t \/ m.valid_after = m.valid_after)
    BY <2>2
  <2>6. Final(a, m, slot, t, x) /\ IsState(m)
    BY <1>1 DEF m
  <2> DEFINE V == VotedBy(a)
  <2>7. \A d \in V : d.ts \in Nat
    OBVIOUS
  <2> HIDE DEF V
  <2>8. Binding(V, a, m.commits, m.valid_after)
    BY <2>1 DEF V
  <2>9. Binding(V, a, x.commits, x.valid_after)
    BY <2>2, <2>3, <2>4, <2>5, <2>6, <2>7, <2>8, BindingFinal
  <2> QED
    BY <2>9 DEF V
<1>4. ASSUME a \notin torn
      PROVE  Lasting(a, x.commits, x.valid_until) /\ Complete(x.phase, x.commits)
  <2>1. Lasting(a, m.commits, m.valid_until) /\ Complete(m.phase, m.commits)
    BY <1>4 DEF Memory
  <2> QED
    BY <2>1, LastingFinal
<1>5. /\ ResumesFromItsFile(a)' <=> ResumesFromItsFile(a)
      /\ VotedBy(a)' = VotedBy(a)
  BY DEF ResumesFromItsFile, VotedBy
<1> QED
  BY <1>2, <1>3, <1>4, <1>5 DEF Memory

LEMMA TornRun ==
  ASSUME NEW a \in Authorities, a \in up, Memory(a, mem[a]), slot \in Nat,
         \A d \in VotedBy(a) : d.ts \in Nat, a \in torn => crashes[a] >= 1,
         crashes[a] \in Nat,
         NEW t \in {slot, slot + 1},
         NEW x, Image(a, mem[a], slot, t, x),
         slot' = slot, a \in torn', crashes'[a] = crashes[a] + 1, voted' = voted,
         disk'[a] = disk_state_update(x)
  PROVE  File(a, disk[a])'
<1> DEFINE m == mem[a]
           d == disk_state_update(x)
<1>1. IsState(m) /\ Dated(a, m, slot)
  BY DEF Memory
<1>2. IsFile(d, slot)
  <2>1. /\ m.valid_after \in 0 .. slot + 1 /\ \A c \in m.commits : c.ts <= slot + 1
        /\ m.phase = Phase(m.valid_after)
        /\ m.phase = REVEAL => \A c \in m.commits : c.ts <= m.valid_after
    BY <1>1 DEF Dated
  <2> HIDE DEF m
  <2>2. Image(a, m, slot, t, x) /\ IsState(m)
    BY <1>1 DEF m
  <2> QED
    BY <2>1, <2>2, FileImage
<1>3. d.commits = x.commits /\ d.valid_until = x.valid_until
  BY DEF disk_state_update
<1>4. ASSUME ResumesFromItsFile(a)'
      PROVE  /\ Binding(VotedBy(a), a, d.commits, slot + 1)
             /\ Lasting(a, d.commits, d.valid_until)
  <2>1. a \notin torn
    BY <1>4 DEF ResumesFromItsFile
  <2>2. ResumesFromItsFile(a)
    BY <2>1 DEF ResumesFromItsFile
  <2>3. /\ Binding(VotedBy(a), a, m.commits, m.valid_after)
        /\ Lasting(a, m.commits, m.valid_until) /\ Complete(m.phase, m.commits)
    BY <2>1, <2>2 DEF Memory
  <2> HIDE DEF m, d
  <2>4. Image(a, m, slot, t, x) /\ IsState(m)
    BY <1>1 DEF m
  <2> DEFINE V == VotedBy(a)
  <2>5. \A v \in V : v.ts \in Nat
    OBVIOUS
  <2> HIDE DEF V
  <2>6. Binding(V, a, m.commits, m.valid_after)
    BY <2>3 DEF V
  <2>7. Binding(V, a, x.commits, slot + 1) /\ Lasting(a, x.commits, x.valid_until)
    BY <1>1, <2>3, <2>4, <2>5, <2>6, BindingImage
  <2> QED
    BY <1>3, <2>7 DEF V
<1>5. VotedBy(a)' = VotedBy(a)
  BY DEF VotedBy
<1>6. disk'[a] = d
  OBVIOUS
<1> HIDE DEF d
<1> QED
  BY <1>2, <1>4, <1>5, <1>6 DEF File

LEMMA RunsFrame ==
  ASSUME Processes, NEW a \in Authorities, NEW W, Runs(a, W)
  PROVE  /\ Processes'
         /\ \A b \in Authorities \ {a} :
              /\ b \in up' <=> b \in up
              /\ b \in torn' <=> b \in torn
              /\ crashes'[b] = crashes[b] /\ mem'[b] = mem[b] /\ disk'[b] = disk[b]
<1>1. CASE /\ mem' = [mem EXCEPT ![a] = Last(W)]
           /\ disk' = [disk EXCEPT ![a] = disk_state_update(Last(W))]
           /\ up' = up \cup {a}
           /\ crashes' = crashes /\ torn' = torn
  BY <1>1 DEF Processes
<1>2. CASE /\ \E i \in 1 .. Len(W) - 1 :
                disk' = [disk EXCEPT ![a] = disk_state_update(W[i])]
           /\ mem' = [mem EXCEPT ![a] = NoState]
           /\ up' = up \ {a}
           /\ crashes' = [crashes EXCEPT ![a] = @ + 1]
           /\ torn' = torn \cup {a}
  <2>1. PICK i \in 1 .. Len(W) - 1 : disk' = [disk EXCEPT ![a] = disk_state_update(W[i])]
    BY <1>2
  <2>2. /\ DOMAIN disk' = Authorities /\ DOMAIN mem' = Authorities
        /\ \A b \in Authorities \ {a} : mem'[b] = mem[b] /\ disk'[b] = disk[b]
    BY <1>2, <2>1 DEF Processes
  <2>3. /\ crashes' \in [Authorities -> Nat] /\ crashes'[a] >= 1
        /\ \A b \in Authorities \ {a} : crashes'[b] = crashes[b]
    BY <1>2 DEF Processes
  <2>4. /\ up' \subseteq Authorities /\ torn' \subseteq Authorities
        /\ \A b \in Authorities \ {a} : (b \in up' <=> b \in up) /\ (b \in torn' <=> b \in torn)
    BY <1>2 DEF Processes
  <2>5. \A b \in Authorities : b \notin up' \/ b \in torn' => crashes'[b] >= 1
    BY <2>3, <2>4 DEF Processes
  <2> QED
    BY <2>2, <2>3, <2>4, <2>5 DEF Processes
<1> QED
  BY <1>1, <1>2 DEF Runs

(* How a handler ends.                                                     *)
LEMMA RunsEnd ==
  ASSUME Processes, NEW a \in Authorities, NEW m, NEW s, NEW t, NEW W,
         Writes(W, a, m, s, t), Runs(a, W)
  PROVE  \/ /\ Final(a, m, s, t, mem'[a]) /\ disk'[a] = disk_state_update(mem'[a])
            /\ a \in up' /\ crashes' = crashes /\ torn' = torn
         \/ /\ \E x : Image(a, m, s, t, x) /\ disk'[a] = disk_state_update(x)
            /\ a \notin up' /\ crashes'[a] = crashes[a] + 1 /\ a \in torn'
<1>1. CASE /\ mem' = [mem EXCEPT ![a] = Last(W)]
           /\ disk' = [disk EXCEPT ![a] = disk_state_update(Last(W))]
           /\ up' = up \cup {a}
           /\ crashes' = crashes /\ torn' = torn
  <2>1. Final(a, m, s, t, Last(W))
    BY DEF Writes, Last
  <2>2. mem'[a] = Last(W) /\ disk'[a] = disk_state_update(Last(W)) /\ a \in up'
    BY <1>1 DEF Processes
  <2> QED
    BY <1>1, <2>1, <2>2
<1>2. CASE /\ \E i \in 1 .. Len(W) - 1 :
                disk' = [disk EXCEPT ![a] = disk_state_update(W[i])]
           /\ mem' = [mem EXCEPT ![a] = NoState]
           /\ up' = up \ {a}
           /\ crashes' = [crashes EXCEPT ![a] = @ + 1]
           /\ torn' = torn \cup {a}
  <2>1. PICK i \in 1 .. Len(W) - 1 : disk' = [disk EXCEPT ![a] = disk_state_update(W[i])]
    BY <1>2
  <2>2. Image(a, m, s, t, W[i]) /\ disk'[a] = disk_state_update(W[i])
    BY <2>1 DEF Writes, Processes
  <2>3. a \notin up' /\ crashes'[a] = crashes[a] + 1 /\ a \in torn'
    BY <1>2 DEF Processes
  <2> QED
    BY <2>2, <2>3
<1> QED
  BY <1>1, <1>2 DEF Runs

(* A running authority acts on a consensus.                                *)
LEMMA ConsensusRun ==
  ASSUME Processes, NEW a \in Authorities, a \in up, Memory(a, mem[a]),
         slot \in Nat, slot >= 1, \A d \in VotedBy(a) : d.ts \in Nat,
         NEW t \in {slot, slot + 1}, t = slot + 1 \/ Early(mem[a], slot), NEW consensus,
         Runs(a, sr_act_post_consensus(mem[a], a, consensus, t)),
         slot' = slot, voted' = voted, ~(stage' = "publish" /\ a \in todo')
  PROVE  /\ Authority(a)'
         /\ a \in up' => Final(a, mem[a], slot, t, mem'[a])
<1>1. IsState(mem[a]) /\ crashes[a] \in Nat /\ (a \in torn => crashes[a] >= 1)
  BY DEF Memory, Processes
<1> DEFINE W == sr_act_post_consensus(mem[a], a, consensus, t)
<1>2. Writes(W, a, mem[a], slot, t)
  BY <1>1, ConsensusWrites
<1>3. Runs(a, W)
  OBVIOUS
<1> HIDE DEF W
<1>4. CASE /\ Final(a, mem[a], slot, t, mem'[a]) /\ disk'[a] = disk_state_update(mem'[a])
           /\ a \in up' /\ crashes' = crashes /\ torn' = torn
  <2>1. Memory(a, mem[a])'
    BY <1>4, FinishedRun
  <2> QED
    BY <1>4, <2>1 DEF Authority
<1>5. CASE /\ \E x : Image(a, mem[a], slot, t, x) /\ disk'[a] = disk_state_update(x)
           /\ a \notin up' /\ crashes'[a] = crashes[a] + 1 /\ a \in torn'
  <2>1. PICK x : Image(a, mem[a], slot, t, x) /\ disk'[a] = disk_state_update(x)
    BY <1>5
  <2>2. File(a, disk[a])'
    BY <1>1, <1>5, <2>1, TornRun
  <2> QED
    BY <1>5, <2>2 DEF Authority
<1> QED
  BY <1>2, <1>3, <1>4, <1>5, RunsEnd

(* The state a restarting authority begins with.                           *)
Loaded(a) == IF disk_state_validate(disk[a]) THEN disk_state_parse(disk[a]) ELSE state_new

LEMMA LoadedIs ==
  ASSUME NEW a, slot \in Nat, IsFile(disk[a], slot)
  PROVE  LET m == Loaded(a) IN
         /\ IsState(m) /\ m.valid_after \in 0 .. slot + 1
         /\ \A c \in m.commits : c.ts <= slot + 1
         /\ Phase(m.valid_after) = REVEAL => \A c \in m.commits : c.ts <= m.valid_after
         /\ m.phase = COMMIT => Phase(m.valid_after) = COMMIT
         /\ m.phase = Phase(m.valid_after) \/ m.valid_after = 0
<1> DEFINE m == Loaded(a)
           d == disk[a]
<1> SUFFICES /\ IsState(m) /\ m.valid_after \in 0 .. slot + 1
             /\ \A c \in m.commits : c.ts <= slot + 1
             /\ Phase(m.valid_after) = REVEAL => \A c \in m.commits : c.ts <= m.valid_after
             /\ m.phase = COMMIT => Phase(m.valid_after) = COMMIT
             /\ m.phase = Phase(m.valid_after) \/ m.valid_after = 0
  OBVIOUS
<1>1. CASE disk_state_validate(d)
  <2>1. m = disk_state_parse(d)
    BY <1>1 DEF Loaded
  <2>2. /\ DOMAIN m = MemFields /\ m.valid_after = d.valid_after
        /\ m.valid_until = d.valid_until /\ m.commits = d.commits
        /\ m.phase = Phase(d.valid_after) /\ m.is_srv_fresh = FALSE
    BY <2>1 DEF disk_state_parse, MemFields, Phase
  <2>3. /\ d.valid_after \in Nat /\ d.valid_after \in 0 .. slot + 1 /\ d.valid_until \in Nat
        /\ CommitsOK(d.commits)
        /\ \A c \in d.commits :
             /\ c.ts <= slot + 1
             /\ Phase(d.valid_after) = REVEAL => c.ts <= d.valid_after
    BY DEF IsFile
  <2>4. Phase(d.valid_after) \in {COMMIT, REVEAL}
    BY <2>3, Phases
  <2> HIDE DEF m, d
  <2>5. IsState(m)
    BY <2>2, <2>3, <2>4 DEF IsState
  <2> QED
    BY <2>2, <2>3, <2>5
<1>2. CASE ~disk_state_validate(d)
  <2>1. m = state_new
    BY <1>2 DEF Loaded
  <2>2. /\ DOMAIN m = MemFields /\ m.valid_after = 0
        /\ m.valid_until = Until(slot, slot) /\ m.commits = {}
        /\ m.phase = Phase(slot) /\ m.is_srv_fresh = FALSE
    BY <2>1 DEF state_new, MemFields, Phase, Until, get_state_valid_until_time
  <2>3. Until(slot, slot) \in Nat /\ Phase(slot) \in {COMMIT, REVEAL}
    BY UntilType, Phases
  <2>4. CommitsOK(m.commits)
    BY <2>2 DEF CommitsOK
  <2>5. Phase(0) = COMMIT
    <3>1. 0 = TotalRounds * 0 + 0 /\ 0 \in 0 .. TotalRounds - 1 /\ TotalRounds \in Nat
          /\ TotalRounds > 0
      BY Rounds
    <3>2. ((TotalRounds * 0 + 0) % TotalRounds) = 0
      BY <3>1, DivisionIs
    <3>3. 0 % TotalRounds = 0
      BY <3>1, <3>2
    <3> QED
      BY <3>3, Rounds DEF Phase, get_sr_protocol_phase
  <2> HIDE DEF m, d
  <2>6. m.is_srv_fresh \in BOOLEAN
    BY <2>2
  <2>7. m.valid_after \in Nat /\ m.valid_until \in Nat
    BY <2>2, <2>3
  <2>8. m.phase \in {COMMIT, REVEAL}
    BY <2>2, <2>3
  <2>9. IsState(m)
    BY <2>2, <2>4, <2>6, <2>7, <2>8 DEF IsState
  <2> QED
    BY <2>2, <2>5, <2>9
<1> QED
  BY <1>1, <1>2

LEMMA InitRun ==
  ASSUME Processes, NEW a \in Authorities, a \notin up, File(a, disk[a]),
         slot \in Nat, slot >= 1, \A d \in VotedBy(a) : d.ts \in Nat,
         Runs(a, sr_state_init(a)),
         slot' = slot, voted' = voted, ~(stage' = "publish" /\ a \in todo')
  PROVE  /\ Authority(a)'
         /\ a \in up' => mem'[a].valid_after = slot + 1
<1> DEFINE m == Loaded(a)
           W == sr_state_init(a)
           V == VotedBy(a)
<1>1. IsFile(disk[a], slot) /\ crashes[a] \in Nat /\ crashes[a] >= 1
  BY DEF File, Processes
<1>2. /\ IsState(m) /\ m.valid_after \in 0 .. slot + 1
      /\ \A c \in m.commits : c.ts <= slot + 1
      /\ Phase(m.valid_after) = REVEAL => \A c \in m.commits : c.ts <= m.valid_after
      /\ m.phase = COMMIT => Phase(m.valid_after) = COMMIT
      /\ m.phase = Phase(m.valid_after) \/ m.valid_after = 0
  BY <1>1, LoadedIs
<1>3. W = <<m>> \o sr_state_update(m, a, slot + 1)
  BY DEF sr_state_init, Loaded
<1>4. Runs(a, W)
  OBVIOUS
<1>5. m = IF disk_state_validate(disk[a]) THEN disk_state_parse(disk[a]) ELSE state_new
  BY DEF Loaded
<1> HIDE DEF W, m
<1>6. Writes(W, a, m, slot, slot + 1)
  BY <1>1, <1>2, <1>3, InitWrites
<1>7. CASE /\ Final(a, m, slot, slot + 1, mem'[a]) /\ disk'[a] = disk_state_update(mem'[a])
           /\ a \in up' /\ crashes' = crashes /\ torn' = torn
  <2> DEFINE x == mem'[a]
  <2>1. IsState(x) /\ Dated(a, x, slot) /\ x.valid_after = slot + 1
    BY <1>2, <1>7, DatedInit
  <2>2. Final(a, m, slot, slot + 1, x)
    BY <1>7
  <2> HIDE DEF x
  <2>3. CASE disk_state_validate(disk[a])
    <3> DEFINE d == disk[a]
    <3>1. /\ m.valid_after = d.valid_after /\ m.valid_until = d.valid_until
          /\ m.commits = d.commits /\ m.phase = Phase(d.valid_after)
      BY <1>5, <2>3 DEF disk_state_parse, Phase
    <3>2. ASSUME ResumesFromItsFile(a)
          PROVE  Binding(V, a, x.commits, x.valid_after)
      <4>1. Binding(V, a, d.commits, slot + 1)
        BY <3>2 DEF File
      <4>2. \A v \in V : v.ts \in Nat
        OBVIOUS
      <4> HIDE DEF V, d
      <4>3. Binding(V, a, m.commits, slot + 1) /\ m.valid_after <= slot + 1
        BY <1>2, <3>1, <4>1
      <4>4. m.phase = REVEAL =>
              m.commits = {} \/ (/\ Phase(m.valid_after) = REVEAL
                                 /\ \A c \in m.commits : c.ts <= m.valid_after)
        BY <1>2, <3>1
      <4>5. slot + 1 \in Nat /\ (slot + 1 <= slot + 1 \/ slot + 1 = m.valid_after)
        OBVIOUS
      <4> QED
        BY <1>2, <2>2, <4>2, <4>3, <4>4, <4>5, BindingFinal
    <3>3. ASSUME a \notin torn
          PROVE  Lasting(a, x.commits, x.valid_until) /\ Complete(x.phase, x.commits)
      <4>1. ResumesFromItsFile(a)
        BY <3>3 DEF ResumesFromItsFile
      <4>2. Lasting(a, d.commits, d.valid_until) /\ Complete(Phase(d.valid_after), d.commits)
        BY <3>3, <4>1 DEF File
      <4>3. Lasting(a, m.commits, m.valid_until) /\ Complete(m.phase, m.commits)
        BY <3>1, <4>2
      <4>4. slot + 1 \in {slot, slot + 1}
        OBVIOUS
      <4> QED
        BY <2>2, <4>3, <4>4, LastingFinal
    <3> QED
      BY <3>2, <3>3, <1>7, <2>1 DEF x, Authority, Memory, ResumesFromItsFile, VotedBy
  <2>4. CASE ~disk_state_validate(disk[a])
    <3> DEFINE d == disk[a]
    <3>1. /\ m.valid_after = 0 /\ m.commits = {} /\ m.phase = Phase(slot)
          /\ m.valid_until = Until(slot, slot)
      BY <1>5, <2>4 DEF state_new, Phase, Until, get_state_valid_until_time
    <3>2. ASSUME ResumesFromItsFile(a)
          PROVE  Binding(V, a, x.commits, x.valid_after)
      <4>1. Binding(V, a, d.commits, slot + 1) /\ Lasting(a, d.commits, d.valid_until)
        BY <3>2 DEF File
      <4>2. \A v \in V : v.ts \in Nat
        OBVIOUS
      <4>3. d.valid_until \in Nat /\ d.valid_until <= slot + 1 /\ slot + 1 \in Nat
        BY <1>1, <2>4 DEF IsFile, disk_state_validate
      <4> HIDE DEF V, d
      <4>4. \A v \in V : Past(v, slot + 1)
        BY <4>1, <4>2, <4>3, ExpiredIsPast
      <4>5. Binding(V, a, m.commits, slot + 1)
        BY <3>1, <4>4 DEF Binding, Own
      <4>6. m.valid_after <= slot + 1 /\ (slot + 1 <= slot + 1 \/ slot + 1 = m.valid_after)
        BY <1>2
      <4>7. m.phase = REVEAL =>
              m.commits = {} \/ (/\ Phase(m.valid_after) = REVEAL
                                 /\ \A c \in m.commits : c.ts <= m.valid_after)
        BY <3>1
      <4> QED
        BY <1>2, <2>2, <4>2, <4>3, <4>5, <4>6, <4>7, BindingFinal
    <3>3. Lasting(a, x.commits, x.valid_until) /\ Complete(x.phase, x.commits)
      BY <2>2, <3>1, NewFinal
    <3> QED
      BY <3>2, <3>3, <1>7, <2>1 DEF x, Authority, Memory, ResumesFromItsFile, VotedBy
  <2> QED
    BY <2>1, <2>3, <2>4 DEF x
<1>8. CASE /\ \E x : Image(a, m, slot, slot + 1, x) /\ disk'[a] = disk_state_update(x)
           /\ a \notin up' /\ crashes'[a] = crashes[a] + 1 /\ a \in torn'
  <2>1. PICK x : Image(a, m, slot, slot + 1, x) /\ disk'[a] = disk_state_update(x)
    BY <1>8
  <2>2. slot + 1 \in {slot, slot + 1}
    OBVIOUS
  <2>3. IsFile(disk_state_update(x), slot)
    BY <1>2, <2>1, <2>2, FileImage
  <2>4. ~ResumesFromItsFile(a)'
    BY <1>1, <1>8 DEF ResumesFromItsFile
  <2> QED
    BY <1>8, <2>1, <2>3, <2>4 DEF Authority, File
<1> QED
  BY <1>4, <1>6, <1>7, <1>8, RunsEnd
-----------------------------------------------------------------------------
(* Votes.                                                                  *)

(* What the commits of a vote do to a state.                               *)
Taken(m, commits, voter, x) ==
  /\ IsState(x) /\ x.phase = m.phase
  /\ x.valid_after = m.valid_after /\ x.valid_until = m.valid_until
  /\ \A c \in x.commits :
       \/ \E d \in m.commits : Commitment(c) = Commitment(d)
       \/ m.phase = COMMIT /\ c \in commits /\ c.auth = voter
  /\ \A a : a # voter => Own(x.commits, a) = Own(m.commits, a)
  /\ m.commits # {} => x.commits # {}

LEMMA TakenCommit ==
  ASSUME NEW m, IsState(m), NEW commits, commits \subseteq Commits, NEW c \in commits,
         m.phase = COMMIT, \A s \in m.commits : s.auth # c.auth
  PROVE  Taken(m, commits, c.auth, sr_state_add_commit(m, c))
<1> DEFINE x == sr_state_add_commit(m, c)
<1>1. /\ DOMAIN x = MemFields /\ x.commits = m.commits \cup {c}
      /\ x.valid_after = m.valid_after /\ x.valid_until = m.valid_until
      /\ x.phase = m.phase /\ x.is_srv_fresh = m.is_srv_fresh
  BY DEF sr_state_add_commit, IsState, MemFields
<1> SUFFICES Taken(m, commits, c.auth, x)
  OBVIOUS
<1> HIDE DEF x
<1>2. CommitsOK(x.commits)
  BY <1>1 DEF CommitsOK, IsState
<1>3. IsState(x)
  BY <1>1, <1>2 DEF IsState
<1>4. ASSUME NEW a, a # c.auth
      PROVE  Own(x.commits, a) = Own(m.commits, a)
  BY <1>1, <1>4 DEF Own
<1>5. x.commits # {}
  BY <1>1
<1> QED
  BY <1>1, <1>3, <1>4, <1>5 DEF Taken

LEMMA TakenReveal ==
  ASSUME NEW m, IsState(m), NEW commits, NEW voter, NEW x,
         x = [m EXCEPT !.commits =
                {IF s.auth = voter THEN [s EXCEPT !.reveal = TRUE] ELSE s : s \in m.commits}]
  PROVE  Taken(m, commits, voter, x)
<1> DEFINE R(s) == IF s.auth = voter THEN [s EXCEPT !.reveal = TRUE] ELSE s
<1>1. /\ DOMAIN x = MemFields /\ x.commits = {R(s) : s \in m.commits}
      /\ x.valid_after = m.valid_after /\ x.valid_until = m.valid_until
      /\ x.phase = m.phase /\ x.is_srv_fresh = m.is_srv_fresh
  BY DEF IsState, MemFields
<1>2. ASSUME NEW s \in Commits
      PROVE  R(s) \in Commits /\ Commitment(R(s)) = Commitment(s) /\ R(s).auth = s.auth
  BY DEF Commits, Commitment
<1>3. m.commits \subseteq Commits /\ \A s, r \in m.commits : s.auth = r.auth => s = r
  BY DEF IsState, CommitsOK
<1>4. \A s \in m.commits : s.auth # voter => R(s) = s
  OBVIOUS
<1> HIDE DEF R
<1>5. \A c \in x.commits : \E s \in m.commits : c = R(s)
  BY <1>1
<1>6. CommitsOK(x.commits)
  <2>1. x.commits \subseteq Commits
    BY <1>2, <1>3, <1>5
  <2>2. ASSUME NEW c \in x.commits, NEW d \in x.commits, c.auth = d.auth
        PROVE  c = d
    <3>1. PICK s \in m.commits : c = R(s)
      BY <1>5
    <3>2. PICK r \in m.commits : d = R(r)
      BY <1>5
    <3>3. s.auth = r.auth
      BY <1>2, <1>3, <2>2, <3>1, <3>2
    <3> QED
      BY <1>3, <3>1, <3>2, <3>3
  <2> QED
    BY <2>1, <2>2 DEF CommitsOK
<1>7. IsState(x)
  BY <1>1, <1>6 DEF IsState
<1>8. \A c \in x.commits : \E d \in m.commits : Commitment(c) = Commitment(d)
  BY <1>2, <1>3, <1>5
<1>9. ASSUME NEW a, a # voter
      PROVE  Own(x.commits, a) = Own(m.commits, a)
  <2>1. \A c \in m.commits : c.auth = a => c \in x.commits
    BY <1>1, <1>4, <1>9
  <2>2. \A c \in x.commits : c.auth = a => c \in m.commits
    BY <1>2, <1>3, <1>4, <1>5, <1>9
  <2> QED
    BY <2>1, <2>2 DEF Own
<1>10. m.commits # {} => x.commits # {}
  BY <1>1
<1> QED
  BY <1>1, <1>7, <1>8, <1>9, <1>10 DEF Taken

LEMMA TakenNothing ==
  ASSUME NEW m, IsState(m), NEW commits, NEW voter
  PROVE  Taken(m, commits, voter, m)
BY DEF Taken

LEMMA HandledIsTaken ==
  ASSUME NEW m, IsState(m), NEW commits, commits \subseteq Commits, NEW voter
  PROVE  Taken(m, commits, voter, sr_handle_received_commits(m, commits, voter))
<1> DEFINE kept == {c \in commits : should_keep_commit(m, c, voter)}
           c == CHOOSE d \in kept : TRUE
           x == sr_handle_received_commits(m, commits, voter)
<1>1. x = IF kept = {} THEN m ELSE save_commit_to_state(m, c)
  BY DEF sr_handle_received_commits
<1> SUFFICES Taken(m, commits, voter, x)
  OBVIOUS
<1>2. CASE kept = {}
  BY <1>1, <1>2, TakenNothing
<1>3. CASE kept # {}
  <2>1. c \in kept
    BY <1>3
  <2>2. c \in commits /\ should_keep_commit(m, c, voter)
    BY <2>1
  <2>3. x = save_commit_to_state(m, c)
    BY <1>1, <1>3
  <2> HIDE DEF c, x, kept
  <2>4. c.auth = voter
    BY <2>2 DEF should_keep_commit
  <2>5. CASE m.phase = COMMIT
    <3>1. \A s \in m.commits : s.auth # c.auth
      BY <2>2, <2>5 DEF should_keep_commit
    <3>2. x = sr_state_add_commit(m, c)
      BY <2>3, <2>5 DEF save_commit_to_state
    <3> QED
      BY <2>2, <2>4, <2>5, <3>1, <3>2, TakenCommit
  <2>6. CASE m.phase # COMMIT
    <3>1. x = [m EXCEPT !.commits =
                {IF s.auth = c.auth THEN [s EXCEPT !.reveal = TRUE] ELSE s : s \in m.commits}]
      BY <2>3, <2>6 DEF save_commit_to_state
    <3> QED
      BY <2>4, <3>1, TakenReveal
  <2> QED
    BY <2>5, <2>6
<1> QED
  BY <1>2, <1>3

LEMMA AddedIsTaken ==
  ASSUME NEW m, IsState(m), NEW held, NEW vote, vote.commits \subseteq Commits, NEW voter
  PROVE  Taken(m, vote.commits, voter, AddedTo(m, held, vote, voter))
BY HandledIsTaken, TakenNothing DEF AddedTo

LEMMA SameCommitment ==
  ASSUME NEW c, NEW d, Commitment(c) = Commitment(d)
  PROVE  c.auth = d.auth /\ c.ts = d.ts /\ c.n = d.n
<1>1. Commitment(c).auth = c.auth /\ Commitment(c).ts = c.ts /\ Commitment(c).n = c.n
  BY DEF Commitment
<1>2. Commitment(d).auth = d.auth /\ Commitment(d).ts = d.ts /\ Commitment(d).n = d.n
  BY DEF Commitment
<1> QED
  BY <1>1, <1>2

LEMMA TakenMemory ==
  ASSUME NEW a, NEW voter, voter # a, slot \in Nat, Memory(a, mem[a]),
         NEW commits, commits \subseteq Commits, \A c \in commits : c.ts <= slot + 1,
         Taken(mem[a], commits, voter, mem'[a]),
         slot' = slot, stage' # "publish", torn' = torn, crashes' = crashes, voted' = voted
  PROVE  Memory(a, mem[a])'
<1> DEFINE m == mem[a]
           x == mem'[a]
<1>1. /\ IsState(x) /\ x.phase = m.phase
      /\ x.valid_after = m.valid_after /\ x.valid_until = m.valid_until
      /\ Own(x.commits, a) = Own(m.commits, a) /\ (m.commits # {} => x.commits # {})
  BY DEF Taken
<1>2. \A c \in x.commits :
        \/ \E d \in m.commits : Commitment(c) = Commitment(d)
        \/ m.phase = COMMIT /\ c \in commits /\ c.auth = voter
  BY DEF Taken
<1>3. IsState(m) /\ Dated(a, m, slot)
  BY DEF Memory
<1>4. /\ ResumesFromItsFile(a) => Binding(VotedBy(a), a, m.commits, m.valid_after)
      /\ a \notin torn => Lasting(a, m.commits, m.valid_until) /\ Complete(m.phase, m.commits)
  BY DEF Memory
<1>5. (ResumesFromItsFile(a)' <=> ResumesFromItsFile(a)) /\ VotedBy(a)' = VotedBy(a)
  BY DEF ResumesFromItsFile, VotedBy
<1> SUFFICES /\ IsState(x) /\ Dated(a, x, slot)
             /\ ResumesFromItsFile(a) => Binding(VotedBy(a), a, x.commits, x.valid_after)
             /\ a \notin torn => Lasting(a, x.commits, x.valid_until)
                                 /\ Complete(x.phase, x.commits)
  BY <1>5 DEF Memory
<1> HIDE DEF m, x
<1>6. Dated(a, x, slot)
  <2>1. ASSUME NEW c \in x.commits
        PROVE  c.ts <= slot + 1 /\ (x.phase = REVEAL \/ c.auth = a => c.ts <= x.valid_after)
    <3>1. CASE \E d \in m.commits : Commitment(c) = Commitment(d)
      <4>1. PICK d \in m.commits : Commitment(c) = Commitment(d)
        BY <3>1
      <4>2. c.auth = d.auth /\ c.ts = d.ts
        BY <4>1, SameCommitment
      <4> QED
        BY <1>1, <1>3, <4>2 DEF Dated
    <3>2. CASE m.phase = COMMIT /\ c \in commits /\ c.auth = voter
      <4>1. x.phase # REVEAL
        BY <1>1, <3>2 DEF COMMIT, REVEAL
      <4> QED
        BY <3>2, <4>1
    <3> QED
      BY <1>2, <3>1, <3>2
  <2> QED
    BY <1>1, <1>3, <2>1 DEF Dated
<1>7. ResumesFromItsFile(a) => Binding(VotedBy(a), a, x.commits, x.valid_after)
  BY <1>1, <1>4 DEF Binding
<1>8. a \notin torn => Lasting(a, x.commits, x.valid_until) /\ Complete(x.phase, x.commits)
  BY <1>1, <1>4 DEF Lasting, Complete
<1> QED
  BY <1>1, <1>6, <1>7, <1>8

(* An authority learns nothing from its own vote.                          *)
LEMMA OwnVote ==
  ASSUME NEW a, IsState(mem[a])
  PROVE  LET vote == sr_get_string_for_vote(a) IN
         /\ vote.commits \subseteq Commits
         /\ \A c \in vote.commits : \E d \in mem[a].commits :
              Commitment(c) = Commitment(d) /\ (c.reveal => mem[a].phase = REVEAL)
         /\ Own(vote.commits, a) = Own(mem[a].commits, a)
         /\ \A held : AddedTo(mem[a], held, vote, a) = mem[a]
<1> DEFINE m == mem[a]
           vote == sr_get_string_for_vote(a)
           H(c) == IF m.phase = COMMIT THEN [c EXCEPT !.reveal = FALSE] ELSE c
<1>1. vote.commits = {H(c) : c \in m.commits}
  BY DEF sr_get_string_for_vote
<1>2. ASSUME NEW c \in Commits
      PROVE  /\ H(c) \in Commits /\ Commitment(H(c)) = Commitment(c) /\ H(c).auth = c.auth
             /\ m.phase = COMMIT => H(c).reveal = FALSE
             /\ m.phase # COMMIT => H(c) = c
  BY DEF Commits, Commitment
<1>3. /\ m.phase \in {COMMIT, REVEAL} /\ m.commits \subseteq Commits
      /\ \A s, r \in m.commits : s.auth = r.auth => s = r
  BY DEF IsState, CommitsOK
<1> SUFFICES /\ vote.commits \subseteq Commits
             /\ \A c \in vote.commits : \E d \in m.commits :
                  Commitment(c) = Commitment(d) /\ (c.reveal => m.phase = REVEAL)
             /\ Own(vote.commits, a) = Own(m.commits, a)
             /\ \A held : AddedTo(m, held, vote, a) = m
  OBVIOUS
<1> HIDE DEF H
<1>4. \A c \in vote.commits : \E d \in m.commits : c = H(d)
  BY <1>1
<1> HIDE DEF m, vote
<1>5. vote.commits \subseteq Commits
  BY <1>2, <1>3, <1>4
<1>6. ASSUME NEW c \in vote.commits
      PROVE  \E d \in m.commits : Commitment(c) = Commitment(d) /\ (c.reveal => m.phase = REVEAL)
  <2>1. PICK d \in m.commits : c = H(d)
    BY <1>4
  <2>2. Commitment(c) = Commitment(d) /\ (m.phase = COMMIT => c.reveal = FALSE)
    BY <1>2, <1>3, <2>1
  <2> QED
    BY <1>3, <2>2
<1>7. Own(vote.commits, a) = Own(m.commits, a)
  <2>1. ASSUME NEW e \in Own(vote.commits, a)
        PROVE  e \in Own(m.commits, a)
    <3>1. PICK c \in vote.commits : c.auth = a /\ e = Commitment(c)
      BY <2>1 DEF Own
    <3>2. PICK d \in m.commits : Commitment(c) = Commitment(d)
      BY <1>6
    <3>3. d.auth = a
      BY <3>1, <3>2, SameCommitment
    <3> QED
      BY <3>1, <3>2, <3>3 DEF Own
  <2>2. ASSUME NEW e \in Own(m.commits, a)
        PROVE  e \in Own(vote.commits, a)
    <3>1. PICK d \in m.commits : d.auth = a /\ e = Commitment(d)
      BY <2>2 DEF Own
    <3>2. H(d) \in vote.commits /\ H(d).auth = a /\ Commitment(H(d)) = e
      BY <1>1, <1>2, <1>3, <3>1
    <3> QED
      BY <3>2 DEF Own
  <2> QED
    BY <2>1, <2>2
<1>8. ASSUME NEW c \in vote.commits
      PROVE  ~should_keep_commit(m, c, a)
  <2> SUFFICES ASSUME should_keep_commit(m, c, a)
               PROVE  FALSE
    OBVIOUS
  <2>1. PICK d \in m.commits : c = H(d)
    BY <1>4
  <2>2. Commitment(c) = Commitment(d) /\ c.auth = d.auth /\ (m.phase # COMMIT => c = d)
    BY <1>2, <1>3, <2>1
  <2>3. CASE m.phase = COMMIT
    BY <2>2, <2>3 DEF should_keep_commit
  <2>4. CASE m.phase # COMMIT
    <3>1. PICK s \in m.commits : /\ s.auth = c.auth /\ ~s.reveal
      BY <2>4 DEF should_keep_commit
    <3>2. c.reveal /\ c = d
      BY <2>2, <2>4 DEF should_keep_commit
    <3>3. s = d
      BY <1>3, <2>2, <3>1
    <3> QED
      BY <3>1, <3>2, <3>3
  <2> QED
    BY <2>3, <2>4
<1>9. \A held : AddedTo(m, held, vote, a) = m
  <2>1. {c \in vote.commits : should_keep_commit(m, c, a)} = {}
    BY <1>8
  <2>2. sr_handle_received_commits(m, vote.commits, a) = m
    BY <2>1 DEF sr_handle_received_commits
  <2> QED
    BY <2>2 DEF AddedTo
<1> QED
  BY <1>5, <1>6, <1>7, <1>9

(* A vote binds its author.                                                *)
LEMMA VoteMemory ==
  ASSUME NEW a, Memory(a, mem[a]),
         mem'[a] = mem[a], slot' = slot, stage' # "publish", torn' = torn,
         crashes' = crashes, voted' = voted \cup Own(mem[a].commits, a)
  PROVE  Memory(a, mem[a])'
<1> DEFINE m == mem[a]
<1>1. CommitsOK(m.commits)
  BY DEF Memory, IsState
<1>2. \A c, d \in Own(m.commits, a) : c = d
  BY <1>1, OwnIs
<1>3. VotedBy(a)' \subseteq VotedBy(a) \cup Own(m.commits, a)
  BY DEF VotedBy
<1>4. Binding(VotedBy(a), a, m.commits, m.valid_after)
        => Binding(VotedBy(a)', a, m.commits, m.valid_after)
  BY <1>2, <1>3 DEF Binding
<1>5. ResumesFromItsFile(a)' <=> ResumesFromItsFile(a)
  BY DEF ResumesFromItsFile
<1> QED
  BY <1>4, <1>5 DEF Memory
-----------------------------------------------------------------------------
(* The invariant.                                                          *)
LEMMA SlotIsPositive ==
  ASSUME Shape
  PROVE  slot \in Nat /\ slot >= 1
BY Rounds DEF Shape

LEMMA VotedTimes ==
  ASSUME History
  PROVE  \A a : \A d \in VotedBy(a) : d.ts \in Nat
BY DEF History, VotedBy

LEMMA HistoryKept ==
  ASSUME History, slot \in Nat, slot' \in {slot, slot + 1}, voted' = voted, revealed' = revealed,
         \A a \in Authorities : ResumesFromItsFile(a)' => ResumesFromItsFile(a)
  PROVE  History'
<1>1. OneCommitmentPerRun'
  <2> SUFFICES ASSUME NEW c \in voted, NEW d \in voted, c.auth = d.auth, RunOf(c) = RunOf(d),
                      ResumesFromItsFile(c.auth)'
               PROVE  c = d
    BY DEF OneCommitmentPerRun
  <2>1. c.auth \in Authorities
    BY DEF History
  <2>2. ResumesFromItsFile(c.auth)
    BY <2>1
  <2> QED
    BY <2>2 DEF History, OneCommitmentPerRun
<1>2. ASSUME NEW r \in revealed
      PROVE  r.ts \in Nat /\ Past(r, slot' + 1)
  <2>1. r.ts \in Nat /\ Past(r, slot + 1)
    BY DEF History
  <2>2. slot + 1 \in Nat /\ slot' + 1 \in Nat /\ slot + 1 <= slot' + 1
    <3>1. ASSUME NEW x \in Nat, NEW y \in {x, x + 1}
          PROVE  x + 1 \in Nat /\ y + 1 \in Nat /\ x + 1 <= y + 1
      OBVIOUS
    <3> QED
      BY <3>1
  <2> QED
    BY <2>1, <2>2, PastIsMonotone
<1> QED
  BY <1>1, <1>2 DEF History

LEMMA InitInv ==
  ASSUME Init
  PROVE  Inv
<1> DEFINE T == TotalRounds
<1>1. T \in Nat /\ T >= 2 /\ LastSlot \in Nat /\ LastSlot >= T
  BY Rounds, SharedRandomAssumption DEF SharedRandomAssumption
<1>2. Shape
  BY <1>1 DEF Init, Shape, Processes, NoVotes
<1>3. Votes
  BY DEF Init, Votes, NoVotes, NoVote
<1>4. Phase(T) = COMMIT
  <2>1. T = T * 1 + 0 /\ 0 \in 0 .. T - 1 /\ T > 0
    BY <1>1
  <2>2. ((T * 1 + 0) % T) = 0
    BY <1>1, <2>1, DivisionIs
  <2>3. T % T = 0
    BY <2>1, <2>2
  <2> QED
    BY <2>3, Rounds DEF Phase, get_sr_protocol_phase
<1>5. ASSUME NEW a \in Authorities
      PROVE  /\ mem[a].valid_after = T /\ latest[a].valid_after = slot /\ docs[a] = NoDoc
             /\ mem[a].valid_until = slot + T /\ mem[a].phase = COMMIT
             /\ DOMAIN mem[a] = MemFields /\ mem[a].is_srv_fresh = TRUE
             /\ mem[a].commits = {[auth |-> a, ts |-> T, n |-> 0, reveal |-> TRUE]}
             /\ disk[a] = disk_state_update(mem[a])
  BY DEF Init, MemFields, NoDoc
<1>6. slot = T - 1 /\ slot + 1 = T /\ stage = "vote" /\ voted = {} /\ revealed = {} /\ torn = {}
      /\ up = Authorities
  BY <1>1 DEF Init
<1>7. Newest
  <2>1. slot \in 0 .. slot
    BY <1>1, <1>6
  <2>2. \A a \in Authorities :
          /\ latest[a].valid_after \in 0 .. slot /\ docs[a] = NoDoc
          /\ mem[a].valid_after = slot + 1
    BY <1>5, <1>6, <2>1
  <2> QED
    BY <1>6, <2>2 DEF Newest
<1>8. History
  BY <1>6 DEF History, OneCommitmentPerRun
<1>9. ASSUME NEW a \in Authorities
      PROVE  Authority(a)
  <2> DEFINE c == [auth |-> a, ts |-> T, n |-> 0, reveal |-> TRUE]
             m == mem[a]
  <2>1. c \in Commits /\ c.auth = a /\ c.ts = T
    BY <1>1 DEF Commits
  <2>2. m.commits = {c}
    BY <1>5
  <2> HIDE DEF c
  <2>3. IsOwn(m.commits, a, T)
    BY <2>1, <2>2 DEF IsOwn
  <2>4. CommitsOK(m.commits)
    BY <1>1, <2>3, FreshIs
  <2>5. m.is_srv_fresh \in BOOLEAN
    BY <1>5
  <2>6. m.valid_after = T /\ m.valid_until = slot + T /\ m.phase = COMMIT
        /\ DOMAIN m = MemFields /\ disk[a] = disk_state_update(m)
    BY <1>5
  <2>7. T \in {slot, slot + 1} /\ slot \in Nat
    BY <1>1, <1>6
  <2>8. Lasting(a, m.commits, Until(slot, T))
    BY <2>3, <2>7, FreshLasting
  <2>9. Until(slot, T) = slot + T
    <3>1. T % T = 0
      <4>1. T = T * 1 + 0 /\ 0 \in 0 .. T - 1 /\ T > 0
        BY <1>1
      <4>2. ((T * 1 + 0) % T) = 0
        BY <1>1, <4>1, DivisionIs
      <4> QED
        BY <4>1, <4>2
    <3> QED
      BY <1>1, <2>7, <3>1 DEF Until
  <2> HIDE DEF m, T
  <2>10. IsState(m)
    BY <1>1, <2>4, <2>5, <2>6, <2>7 DEF IsState
  <2>11. Dated(a, m, slot)
    BY <1>1, <1>4, <1>6, <2>1, <2>2, <2>6 DEF Dated
  <2>12. VotedBy(a) = {}
    BY <1>6 DEF VotedBy
  <2>13. Binding(VotedBy(a), a, m.commits, m.valid_after)
    BY <2>12 DEF Binding
  <2>14. Complete(m.phase, m.commits)
    BY <2>2 DEF Complete
  <2>15. Memory(a, m)
    BY <1>6, <2>6, <2>8, <2>9, <2>10, <2>11, <2>13, <2>14 DEF Memory
  <2> QED
    BY <1>6, <2>6, <2>15 DEF Authority, m
<1> QED
  BY <1>2, <1>3, <1>7, <1>8, <1>9 DEF Inv

LEMMA CrashStep ==
  ASSUME Inv, NEW a \in Authorities, Crash(a)
  PROVE  Inv'
<1>1. slot \in Nat /\ slot >= 1 /\ Processes /\ Shape /\ History
  BY SlotIsPositive DEF Inv, Shape
<1>2. /\ a \in up /\ crashes' = [crashes EXCEPT ![a] = @ + 1] /\ up' = up \ {a}
      /\ todo' = todo \ {a} /\ mem' = [mem EXCEPT ![a] = NoState]
      /\ slot' = slot /\ stage' = stage /\ disk' = disk /\ post' = post /\ docs' = docs
      /\ latest' = latest /\ torn' = torn /\ voted' = voted /\ revealed' = revealed
  BY DEF Crash
<1>3. /\ crashes' \in [Authorities -> Nat] /\ crashes'[a] = crashes[a] + 1
      /\ \A b \in Authorities \ {a} : crashes'[b] = crashes[b] /\ mem'[b] = mem[b]
      /\ DOMAIN mem' = Authorities
  BY <1>1, <1>2 DEF Processes
<1>4. crashes[a] \in Nat /\ crashes'[a] >= 1
  BY <1>1, <1>3 DEF Processes
<1>5. Processes'
  BY <1>1, <1>2, <1>3, <1>4 DEF Processes
<1>6. Shape'
  BY <1>1, <1>2, <1>5 DEF Shape
<1>7. Votes'
  BY <1>2 DEF Inv, Votes
<1>8. Newest'
  <2>1. \A b \in up' : b # a /\ b \in up /\ mem'[b] = mem[b] /\ (b \in todo' <=> b \in todo)
    BY <1>1, <1>2, <1>3 DEF Processes
  <2> QED
    BY <1>2, <2>1 DEF Inv, Newest
<1>9. \A b \in Authorities : ResumesFromItsFile(b)' => ResumesFromItsFile(b)
  <2>1. ASSUME NEW b \in Authorities, ResumesFromItsFile(b)'
        PROVE  ResumesFromItsFile(b)
    <3>1. CASE b = a
      BY <1>2, <1>3, <1>4, <2>1, <3>1 DEF ResumesFromItsFile
    <3>2. CASE b # a
      BY <1>2, <1>3, <2>1, <3>2 DEF ResumesFromItsFile
    <3> QED
      BY <3>1, <3>2
  <2> QED
    BY <2>1
<1>10. History'
  <2>1. slot' \in {slot, slot + 1}
    BY <1>2
  <2> QED
    BY <1>1, <1>2, <1>9, <2>1, HistoryKept
<1>11. File(a, disk[a])'
  <2> DEFINE m == mem[a]
             d == disk[a]
             V == VotedBy(a)
  <2>1. Memory(a, m) /\ d = disk_state_update(m)
    BY <1>2 DEF Inv, Authority
  <2>2. IsState(m) /\ Dated(a, m, slot)
    BY <2>1 DEF Memory
  <2>3. /\ d.valid_after = m.valid_after /\ d.valid_until = m.valid_until
        /\ d.commits = m.commits
    BY <2>1 DEF disk_state_update
  <2>4. V' = V /\ disk'[a] = d
    BY <1>2 DEF VotedBy
  <2>5. \A v \in V : v.ts \in Nat
    BY <1>1, VotedTimes
  <2>6. ASSUME ResumesFromItsFile(a)'
        PROVE  Binding(V, a, m.commits, m.valid_after) /\ Lasting(a, m.commits, m.valid_until)
    <3>1. a \notin torn
      <4>1. a \in torn => crashes[a] >= 1
        BY <1>1 DEF Processes
      <4> QED
        BY <1>2, <1>3, <1>4, <2>6, <4>1 DEF ResumesFromItsFile
    <3> QED
      BY <2>1, <3>1 DEF Memory, ResumesFromItsFile
  <2>7. a \notin torn => Complete(m.phase, m.commits)
    BY <2>1 DEF Memory
  <2> HIDE DEF m, d, V
  <2>8. m.valid_after \in Nat /\ m.valid_after <= slot + 1 /\ m.valid_after \in 0 .. slot + 1
        /\ m.phase = Phase(m.valid_after) /\ slot + 1 \in Nat
    BY <1>1, <2>2 DEF Dated, IsState
  <2>9. IsFile(d, slot)
    BY <2>2, <2>3, <2>8 DEF IsFile, IsState, Dated
  <2>10. ASSUME ResumesFromItsFile(a)'
         PROVE  Binding(V, a, d.commits, slot + 1) /\ Lasting(a, d.commits, d.valid_until)
    <3>1. Binding(V, a, m.commits, slot + 1)
      BY <2>5, <2>6, <2>8, <2>10, BindingLater
    <3> QED
      BY <2>3, <2>6, <2>10, <3>1
  <2>11. a \notin torn => Complete(Phase(d.valid_after), d.commits)
    BY <2>3, <2>7, <2>8
  <2> QED
    BY <1>2, <2>4, <2>9, <2>10, <2>11 DEF File, V
<1>12. ASSUME NEW b \in Authorities
       PROVE  Authority(b)'
  <2>1. CASE b = a
    BY <1>2, <1>11, <2>1 DEF Authority
  <2>2. CASE b # a
    <3>1. /\ Authority(b) /\ (b \in up' <=> b \in up) /\ crashes'[b] = crashes[b]
          /\ mem'[b] = mem[b] /\ disk'[b] = disk[b] /\ (b \in torn' <=> b \in torn)
          /\ stage' = "publish" /\ b \in todo' => stage = "publish" /\ b \in todo
          /\ VotedBy(b)' = VotedBy(b)
      BY <1>2, <1>3, <2>2 DEF Inv, VotedBy
    <3> QED
      BY <1>2, <3>1, Bystander
  <2> QED
    BY <2>1, <2>2
<1> QED
  BY <1>6, <1>7, <1>8, <1>10, <1>12 DEF Inv

(* A handler that writes leaves the other authorities alone.               *)
LEMMA OthersKept ==
  ASSUME Inv, NEW a \in Authorities, NEW W, Runs(a, W), slot' = slot, stage' = stage,
         voted' = voted, \A b \in Authorities \ {a} : b \in todo' => b \in todo
  PROVE  /\ Processes'
         /\ \A b \in Authorities \ {a} :
              Authority(b)' /\ (b \in up' <=> b \in up) /\ mem'[b] = mem[b]
         /\ \A b \in Authorities : ResumesFromItsFile(b)' => ResumesFromItsFile(b)
<1>1. Processes
  BY DEF Inv, Shape
<1>2. /\ Processes'
      /\ \A b \in Authorities \ {a} :
           /\ b \in up' <=> b \in up
           /\ b \in torn' <=> b \in torn
           /\ crashes'[b] = crashes[b] /\ mem'[b] = mem[b] /\ disk'[b] = disk[b]
  BY <1>1, RunsFrame
<1>3. ASSUME NEW b \in Authorities \ {a}
      PROVE  Authority(b)'
  <2>1. Authority(b) /\ VotedBy(b)' = VotedBy(b)
    BY DEF Inv, VotedBy
  <2>2. stage' = "publish" /\ b \in todo' => stage = "publish" /\ b \in todo
    OBVIOUS
  <2> QED
    BY <1>2, <2>1, <2>2, Bystander
<1>4. ASSUME NEW b \in Authorities, ResumesFromItsFile(b)'
      PROVE  ResumesFromItsFile(b)
  <2>1. CASE b # a
    BY <1>2, <1>4, <2>1 DEF ResumesFromItsFile
  <2>2. CASE b = a
    <3>1. CASE torn' = torn /\ crashes' = crashes
      BY <1>4, <3>1 DEF ResumesFromItsFile
    <3>2. CASE crashes' = [crashes EXCEPT ![a] = @ + 1] /\ torn' = torn \cup {a}
      <4>1. crashes'[a] = crashes[a] + 1 /\ crashes[a] \in Nat /\ a \in torn'
            /\ (a \in torn => crashes[a] >= 1)
        BY <1>1, <3>2 DEF Processes
      <4> QED
        BY <1>4, <2>2, <4>1 DEF ResumesFromItsFile
    <3> QED
      BY <3>1, <3>2 DEF Runs
  <2> QED
    BY <2>1, <2>2
<1> QED
  BY <1>2, <1>3, <1>4

LEMMA InitStep ==
  ASSUME Inv, NEW a \in Authorities, sr_init(a)
  PROVE  Inv'
<1>1. slot \in Nat /\ slot >= 1 /\ Processes /\ Shape /\ History /\ File(a, disk[a])
      /\ \A d \in VotedBy(a) : d.ts \in Nat
  BY SlotIsPositive, VotedTimes DEF Inv, Shape, Authority, sr_init
<1>2. /\ a \notin up /\ Runs(a, sr_state_init(a)) /\ todo' = (todo \cup Due(a)) \cap up'
      /\ slot' = slot /\ stage' = stage /\ post' = post /\ docs' = docs
      /\ latest' = latest /\ voted' = voted /\ revealed' = revealed
  BY DEF sr_init
<1>3. /\ \A b \in Authorities \ {a} : b \in todo' => b \in todo
      /\ ~(stage' = "publish" /\ a \in todo') /\ todo' \subseteq up'
  BY <1>1, <1>2 DEF Due, Shape
<1>4. /\ Processes'
      /\ \A b \in Authorities \ {a} :
           Authority(b)' /\ (b \in up' <=> b \in up) /\ mem'[b] = mem[b]
      /\ \A b \in Authorities : ResumesFromItsFile(b)' => ResumesFromItsFile(b)
  BY <1>2, <1>3, OthersKept
<1>5. Authority(a)' /\ (a \in up' => mem'[a].valid_after = slot + 1)
  BY <1>1, <1>2, <1>3, InitRun
<1>6. Shape'
  BY <1>1, <1>2, <1>3, <1>4 DEF Shape
<1>7. Votes'
  BY <1>2 DEF Inv, Votes
<1>8. Newest'
  <2>1. ASSUME NEW b \in up'
        PROVE  /\ stage' = "publish" /\ b \in todo' => latest'[b].valid_after < slot'
               /\ ~(stage' = "publish" /\ b \in todo') =>
                    mem'[b].valid_after = slot' + 1 \/ latest'[b].valid_after < slot'
    <3>1. CASE b = a
      BY <1>2, <1>3, <1>5, <2>1, <3>1
    <3>2. CASE b # a
      <4>1. b \in Authorities \ {a}
        BY <1>4, <2>1, <3>2 DEF Processes
      <4>2. b \in up /\ mem'[b] = mem[b] /\ (b \in todo' <=> b \in todo)
        BY <1>2, <1>4, <2>1, <3>2, <4>1 DEF Due
      <4> QED
        BY <1>2, <4>2 DEF Inv, Newest
    <3> QED
      BY <3>1, <3>2
  <2> QED
    BY <1>2, <2>1 DEF Inv, Newest
<1>9. History'
  <2>1. slot' \in {slot, slot + 1}
    BY <1>2
  <2> QED
    BY <1>1, <1>2, <1>4, <2>1, HistoryKept
<1>10. \A b \in Authorities : Authority(b)'
  BY <1>4, <1>5
<1> QED
  BY <1>6, <1>7, <1>8, <1>9, <1>10 DEF Inv

LEMMA PublishStep ==
  ASSUME Inv, NEW a \in Authorities, PublishConsensus(a)
  PROVE  Inv' /\ (a \in up' /\ mem[a].valid_after = slot + 1 =>
                    mem'[a].commits = mem[a].commits)
<1>1. slot \in Nat /\ slot >= 1 /\ Processes /\ Shape /\ History /\ Newest
      /\ \A d \in VotedBy(a) : d.ts \in Nat
  BY SlotIsPositive, VotedTimes DEF Inv, Shape
<1>2. PICK published \in BOOLEAN :
        /\ published => docs[a] # NoDoc
        /\ latest' = [latest EXCEPT ![a] = IF published THEN docs[a] ELSE @]
        /\ Runs(a, sr_act_post_consensus(mem[a], a, latest'[a],
                     IF published THEN slot + 1 ELSE slot))
  BY DEF PublishConsensus
<1>3. /\ stage = "publish" /\ a \in todo /\ todo' = todo \ {a}
      /\ slot' = slot /\ stage' = stage /\ post' = post /\ docs' = docs
      /\ voted' = voted /\ revealed' = revealed
  BY DEF PublishConsensus
<1>4. a \in up /\ Memory(a, mem[a]) /\ Early(mem[a], slot)
  BY <1>1, <1>3 DEF Inv, Shape, Authority, Memory
<1> DEFINE t == IF published THEN slot + 1 ELSE slot
<1>5. t \in {slot, slot + 1}
  OBVIOUS
<1>6. /\ \A b \in Authorities \ {a} : b \in todo' => b \in todo
      /\ ~(stage' = "publish" /\ a \in todo')
  BY <1>3
<1>7. Runs(a, sr_act_post_consensus(mem[a], a, latest'[a], t))
  BY <1>2
<1> HIDE DEF t
<1>8. /\ Processes'
      /\ \A b \in Authorities \ {a} :
           Authority(b)' /\ (b \in up' <=> b \in up) /\ mem'[b] = mem[b]
      /\ \A b \in Authorities : ResumesFromItsFile(b)' => ResumesFromItsFile(b)
  BY <1>3, <1>6, <1>7, OthersKept
<1>9. Authority(a)' /\ (a \in up' => Final(a, mem[a], slot, t, mem'[a]))
  BY <1>1, <1>3, <1>4, <1>5, <1>6, <1>7, ConsensusRun
<1>10. todo' \subseteq up'
  BY <1>1, <1>3, <1>8 DEF Shape, Processes
<1>11. Shape'
  BY <1>1, <1>2, <1>3, <1>8, <1>10 DEF Shape
<1>12. Votes'
  BY <1>3 DEF Inv, Votes
<1>13. mem[a].valid_after \in Nat /\ mem[a].valid_after <= slot + 1
  BY <1>1, <1>4 DEF Memory, Dated
<1>14. Newest'
  <2>1. latest'[a] = (IF published THEN docs[a] ELSE latest[a])
        /\ \A b \in Authorities \ {a} : latest'[b] = latest[b]
    BY <1>1, <1>2 DEF Shape
  <2>2. latest[a].valid_after < slot /\ latest[a].valid_after \in 0 .. slot
    BY <1>1, <1>3, <1>4 DEF Newest
  <2>3. docs[a] = NoDoc \/ docs[a].valid_after = slot
    BY <1>1, <1>3 DEF Newest
  <2>4. latest'[a].valid_after \in 0 .. slot
    BY <1>1, <1>2, <2>1, <2>2, <2>3
  <2>5. \A b \in Authorities : latest'[b].valid_after \in 0 .. slot
    BY <1>1, <2>1, <2>4 DEF Newest
  <2>6. ASSUME a \in up'
        PROVE  mem'[a].valid_after = slot + 1 \/ latest'[a].valid_after < slot
    <3>1. CASE published
      <4>1. Final(a, mem[a], slot, slot + 1, mem'[a])
        BY <1>9, <2>6, <3>1 DEF t
      <4>2. mem'[a].valid_after = slot + 1
        BY <1>1, <1>13, <4>1 DEF Final, SameCore
      <4> QED
        BY <4>2
    <3>2. CASE ~published
      BY <2>1, <2>2, <3>2
    <3> QED
      BY <3>1, <3>2
  <2>7. ASSUME NEW b \in up'
        PROVE  /\ stage' = "publish" /\ b \in todo' => latest'[b].valid_after < slot'
               /\ ~(stage' = "publish" /\ b \in todo') =>
                    mem'[b].valid_after = slot' + 1 \/ latest'[b].valid_after < slot'
    <3>1. CASE b = a
      BY <1>3, <1>6, <2>6, <2>7, <3>1
    <3>2. CASE b # a
      <4>1. b \in Authorities \ {a}
        BY <1>8, <2>7, <3>2 DEF Processes
      <4>2. b \in up /\ mem'[b] = mem[b] /\ (b \in todo' <=> b \in todo) /\ latest'[b] = latest[b]
        BY <1>3, <1>8, <2>1, <2>7, <3>2, <4>1
      <4> QED
        BY <1>1, <1>3, <4>2 DEF Newest
    <3> QED
      BY <3>1, <3>2
  <2> QED
    BY <1>1, <1>3, <2>5, <2>7 DEF Newest
<1>15. History'
  <2>1. slot' \in {slot, slot + 1}
    BY <1>3
  <2> QED
    BY <1>1, <1>3, <1>8, <2>1, HistoryKept
<1>16. \A b \in Authorities : Authority(b)'
  BY <1>8, <1>9
<1>17. ASSUME a \in up', mem[a].valid_after = slot + 1
       PROVE  mem'[a].commits = mem[a].commits
  <2>1. t <= mem[a].valid_after /\ ~(mem[a].valid_after < t)
    BY <1>1, <1>5, <1>17
  <2> QED
    BY <1>9, <1>17, <2>1 DEF Final, SameCore
<1> QED
  BY <1>11, <1>12, <1>14, <1>15, <1>16, <1>17 DEF Inv

LEMMA FetchStep ==
  ASSUME Inv, NEW a \in Authorities, FetchConsensus(a)
  PROVE  Inv' /\ (a \in up' /\ mem[a].valid_after = slot + 1 =>
                    mem'[a].commits = mem[a].commits)
<1>1. slot \in Nat /\ slot >= 1 /\ Processes /\ Shape /\ History /\ Newest
      /\ \A d \in VotedBy(a) : d.ts \in Nat
  BY SlotIsPositive, VotedTimes DEF Inv, Shape
<1>2. PICK b \in Authorities :
        /\ latest' = [latest EXCEPT ![a] = latest[b]]
        /\ Runs(a, sr_act_post_consensus(mem[a], a, latest[b], slot + 1))
  BY DEF FetchConsensus
<1>3. /\ stage \in {"publish", "vote"} /\ a \in up /\ (stage = "publish" => a \notin todo)
      /\ todo' = (todo \cup Due(a)) \cap up'
      /\ slot' = slot /\ stage' = stage /\ post' = post /\ docs' = docs
      /\ voted' = voted /\ revealed' = revealed
  BY DEF FetchConsensus
<1>4. Memory(a, mem[a]) /\ slot + 1 \in {slot, slot + 1}
  BY <1>3 DEF Inv, Authority
<1>5. /\ \A c \in Authorities \ {a} : c \in todo' => c \in todo
      /\ ~(stage' = "publish" /\ a \in todo') /\ todo' \subseteq up'
  BY <1>3 DEF Due
<1>6. /\ Processes'
      /\ \A c \in Authorities \ {a} :
           Authority(c)' /\ (c \in up' <=> c \in up) /\ mem'[c] = mem[c]
      /\ \A c \in Authorities : ResumesFromItsFile(c)' => ResumesFromItsFile(c)
  BY <1>2, <1>3, <1>5, OthersKept
<1>7. Authority(a)' /\ (a \in up' => Final(a, mem[a], slot, slot + 1, mem'[a]))
  <2>1. slot + 1 = slot + 1 \/ Early(mem[a], slot)
    OBVIOUS
  <2> QED
    BY <1>1, <1>2, <1>3, <1>4, <1>5, <2>1, ConsensusRun
<1>8. Shape'
  BY <1>1, <1>2, <1>3, <1>5, <1>6 DEF Shape
<1>9. Votes'
  BY <1>3 DEF Inv, Votes
<1>10. mem[a].valid_after \in Nat /\ mem[a].valid_after <= slot + 1
  BY <1>1, <1>4 DEF Memory, Dated
<1>11. Newest'
  <2>1. latest'[a] = latest[b] /\ \A c \in Authorities \ {a} : latest'[c] = latest[c]
    BY <1>1, <1>2 DEF Shape
  <2>2. \A c \in Authorities : latest'[c].valid_after \in 0 .. slot
    BY <1>1, <2>1 DEF Newest
  <2>3. a \in up' => mem'[a].valid_after = slot + 1
    BY <1>1, <1>7, <1>10 DEF Final, SameCore
  <2>4. ASSUME NEW c \in up'
        PROVE  /\ stage' = "publish" /\ c \in todo' => latest'[c].valid_after < slot'
               /\ ~(stage' = "publish" /\ c \in todo') =>
                    mem'[c].valid_after = slot' + 1 \/ latest'[c].valid_after < slot'
    <3>1. CASE c = a
      BY <1>3, <1>5, <2>3, <2>4, <3>1
    <3>2. CASE c # a
      <4>1. c \in Authorities \ {a}
        BY <1>6, <2>4, <3>2 DEF Processes
      <4>2. c \in up /\ mem'[c] = mem[c] /\ (c \in todo' <=> c \in todo) /\ latest'[c] = latest[c]
        BY <1>3, <1>6, <2>1, <2>4, <3>2, <4>1 DEF Due
      <4> QED
        BY <1>1, <1>3, <4>2 DEF Newest
    <3> QED
      BY <3>1, <3>2
  <2> QED
    BY <1>1, <1>3, <2>2, <2>4 DEF Newest
<1>12. History'
  <2>1. slot' \in {slot, slot + 1}
    BY <1>3
  <2> QED
    BY <1>1, <1>3, <1>6, <2>1, HistoryKept
<1>13. \A c \in Authorities : Authority(c)'
  BY <1>6, <1>7
<1>14. ASSUME a \in up', mem[a].valid_after = slot + 1
       PROVE  mem'[a].commits = mem[a].commits
  <2>1. ~(mem[a].valid_after < slot + 1)
    BY <1>1, <1>14
  <2> QED
    BY <1>7, <1>14, <2>1 DEF Final, SameCore
<1> QED
  BY <1>8, <1>9, <1>11, <1>12, <1>13, <1>14 DEF Inv

LEMMA VoteStep ==
  ASSUME Inv, NEW a \in Authorities, dirvote_perform_vote(a)
  PROVE  Inv' /\ \A b \in Authorities : mem'[b] = mem[b]
<1> DEFINE vote == sr_get_string_for_vote(a)
           m == mem[a]
<1>1. slot \in Nat /\ slot >= 1 /\ Processes /\ Shape /\ History /\ Newest /\ Votes
  BY SlotIsPositive DEF Inv, Shape
<1>2. /\ stage = "vote" /\ a \in todo /\ todo' = todo \ {a}
      /\ slot' = slot /\ stage' = stage /\ up' = up /\ crashes' = crashes
      /\ docs' = docs /\ latest' = latest /\ torn' = torn
  BY DEF dirvote_perform_vote
<1>3. /\ post' = [post EXCEPT ![a] = vote]
      /\ mem' = [mem EXCEPT ![a] = AddedTo(m, pending[a][a], vote, a)]
      /\ disk' = [disk EXCEPT ![a] = disk_state_update(AddedTo(m, pending[a][a], vote, a))]
      /\ voted' = voted \cup {Commitment(c) : c \in {d \in vote.commits : d.auth = a}}
      /\ revealed' = revealed \cup {Commitment(c) : c \in {d \in vote.commits : d.reveal}}
  BY DEF dirvote_perform_vote
<1>4. a \in up /\ Memory(a, m) /\ disk[a] = disk_state_update(m)
  BY <1>1, <1>2 DEF Inv, Shape, Authority
<1>5. IsState(m) /\ Dated(a, m, slot) /\ CommitsOK(m.commits)
  BY <1>4 DEF Memory, IsState
<1>6. /\ vote.commits \subseteq Commits
      /\ \A c \in vote.commits : \E d \in m.commits :
           Commitment(c) = Commitment(d) /\ (c.reveal => m.phase = REVEAL)
      /\ Own(vote.commits, a) = Own(m.commits, a)
      /\ AddedTo(m, pending[a][a], vote, a) = m
  BY <1>5, OwnVote
<1> HIDE DEF vote
<1>7. DOMAIN mem' = Authorities /\ \A b \in Authorities : mem'[b] = mem[b]
  BY <1>1, <1>3, <1>6 DEF Processes
<1>8. DOMAIN disk' = Authorities /\ \A b \in Authorities : disk'[b] = disk[b]
  BY <1>1, <1>3, <1>4, <1>6 DEF Processes
<1>9. voted' = voted \cup Own(m.commits, a)
  BY <1>3, <1>6 DEF Own
<1>10. \A d \in Own(m.commits, a) : d.auth = a /\ d.ts \in Nat
  BY <1>5, OwnIs
<1>11. Shape'
  <2>1. Processes'
    BY <1>1, <1>2, <1>7, <1>8 DEF Processes
  <2> QED
    BY <1>1, <1>2, <1>3, <2>1 DEF Shape
<1>12. Votes'
  <2>1. ASSUME NEW c \in vote.commits
        PROVE  c.ts <= slot + 1
    <3>1. PICK d \in m.commits : Commitment(c) = Commitment(d)
      BY <1>6
    <3>2. c.ts = d.ts
      BY <3>1, SameCommitment
    <3> QED
      BY <1>5, <3>2 DEF Dated
  <2>2. post'[a] = vote /\ \A b \in Authorities \ {a} : post'[b] = post[b]
    BY <1>1, <1>3 DEF Shape
  <2> QED
    BY <1>1, <1>2, <1>6, <2>1, <2>2 DEF Votes
<1>13. Newest'
  <2>1. \A b \in up : b \in Authorities /\ mem'[b] = mem[b]
    BY <1>1, <1>7 DEF Processes
  <2> QED
    BY <1>1, <1>2, <2>1 DEF Newest
<1>14. ASSUME NEW b \in Authorities
       PROVE  Authority(b)'
  <2>1. CASE b = a
    <3>1. Memory(a, mem[a])'
      <4>1. mem'[a] = mem[a] /\ stage' # "publish"
        BY <1>2, <1>7
      <4> QED
        BY <1>2, <1>4, <1>9, <4>1, VoteMemory
    <3> QED
      BY <1>2, <1>4, <1>7, <1>8, <2>1, <3>1 DEF Authority
  <2>2. CASE b # a
    <3>1. VotedBy(b)' = VotedBy(b)
      BY <1>9, <1>10, <2>2 DEF VotedBy
    <3>2. /\ Authority(b) /\ (stage' = "publish" /\ b \in todo' => stage = "publish" /\ b \in todo)
          /\ (b \in up' <=> b \in up) /\ (b \in torn' <=> b \in torn)
          /\ crashes'[b] = crashes[b] /\ mem'[b] = mem[b] /\ disk'[b] = disk[b]
      BY <1>2, <1>7, <1>8 DEF Inv
    <3> QED
      BY <1>2, <3>1, <3>2, Bystander
  <2> QED
    BY <2>1, <2>2
<1>15. History'
  <2>1. \A c \in voted' : c.auth \in Authorities /\ c.ts \in Nat
    BY <1>1, <1>9, <1>10 DEF History
  <2>2. OneCommitmentPerRun'
    <3> SUFFICES ASSUME NEW c \in voted', NEW d \in voted', c.auth = d.auth,
                        RunOf(c) = RunOf(d), ResumesFromItsFile(c.auth)
                 PROVE  c = d
      BY <1>2 DEF OneCommitmentPerRun, ResumesFromItsFile
    <3>1. ASSUME NEW e \in voted, NEW f \in Own(m.commits, a), e.auth = a, RunOf(e) = RunOf(f),
                 ResumesFromItsFile(a)
          PROVE  e = f
      <4>1. Binding(VotedBy(a), a, m.commits, m.valid_after)
        BY <1>4, <3>1 DEF Memory
      <4>2. e \in VotedBy(a)
        BY <3>1 DEF VotedBy
      <4> QED
        BY <3>1, <4>1, <4>2 DEF Binding
    <3>2. CASE c \in voted /\ d \in voted
      BY <1>1, <3>2 DEF History, OneCommitmentPerRun
    <3>3. CASE c \in voted /\ d \in Own(m.commits, a)
      BY <1>10, <3>1, <3>3
    <3>4. CASE c \in Own(m.commits, a) /\ d \in voted
      BY <1>10, <3>1, <3>4
    <3>5. CASE c \in Own(m.commits, a) /\ d \in Own(m.commits, a)
      BY <1>5, <3>5, OwnIs
    <3> QED
      BY <1>9, <3>2, <3>3, <3>4, <3>5
  <2>3. ASSUME NEW r \in revealed'
        PROVE  r.ts \in Nat /\ Past(r, slot' + 1)
    <3>1. CASE r \in revealed
      BY <1>1, <1>2, <3>1 DEF History
    <3>2. CASE r \notin revealed
      <4>1. PICK c \in vote.commits : c.reveal /\ r = Commitment(c)
        BY <1>3, <2>3, <3>2
      <4>2. PICK d \in m.commits : Commitment(c) = Commitment(d) /\ m.phase = REVEAL
        BY <1>6, <4>1
      <4>3. r.ts = d.ts
        <5>1. r = Commitment(d)
          BY <4>1, <4>2
        <5> QED
          BY <5>1 DEF Commitment
      <4>4. d.ts \in Nat /\ m.valid_after \in Nat
        BY <1>5 DEF CommitsOK, Commits, IsState
      <4>5. d.ts <= m.valid_after /\ Phase(m.valid_after) = REVEAL /\ m.valid_after <= slot + 1
        BY <1>1, <1>5, <4>2 DEF Dated
      <4> HIDE DEF m
      <4>6. Past(r, m.valid_after)
        BY <4>3, <4>4, <4>5, RevealIsPast
      <4>7. slot + 1 \in Nat
        BY <1>1
      <4>8. Past(r, slot + 1)
        BY <4>3, <4>4, <4>5, <4>6, <4>7, PastIsMonotone
      <4> QED
        BY <1>2, <4>3, <4>4, <4>8
    <3> QED
      BY <3>1, <3>2
  <2> QED
    BY <2>1, <2>2, <2>3 DEF History
<1> QED
  BY <1>7, <1>11, <1>12, <1>13, <1>14, <1>15 DEF Inv

LEMMA AddVoteStep ==
  ASSUME Inv, NEW a \in Authorities, NEW b \in Authorities, dirvote_add_vote(a, b)
  PROVE  Inv' /\ Taken(mem[a], post[b].commits, b, mem'[a])
         /\ \A c \in Authorities \ {a} : mem'[c] = mem[c]
<1> DEFINE m == mem[a]
           x == AddedTo(m, pending[a][b], post[b], b)
<1>1. slot \in Nat /\ slot >= 1 /\ Processes /\ Shape /\ History /\ Newest /\ Votes
  BY SlotIsPositive DEF Inv, Shape
<1>2. /\ stage = "vote" /\ a \in up /\ a # b
      /\ slot' = slot /\ stage' = stage /\ todo' = todo /\ up' = up /\ crashes' = crashes
      /\ post' = post /\ docs' = docs /\ latest' = latest /\ torn' = torn
      /\ voted' = voted /\ revealed' = revealed
  BY DEF dirvote_add_vote
<1>3. mem' = [mem EXCEPT ![a] = x] /\ disk' = [disk EXCEPT ![a] = disk_state_update(x)]
  BY DEF dirvote_add_vote
<1>4. Memory(a, m) /\ IsState(m)
  BY <1>2 DEF Inv, Authority, Memory
<1>5. post[b].commits \subseteq Commits /\ \A c \in post[b].commits : c.ts <= slot + 1
  BY <1>1, <1>2 DEF Votes
<1>6. Taken(m, post[b].commits, b, x)
  BY <1>4, <1>5, AddedIsTaken
<1> HIDE DEF x
<1>7. /\ DOMAIN mem' = Authorities /\ DOMAIN disk' = Authorities
      /\ mem'[a] = x /\ disk'[a] = disk_state_update(x)
      /\ \A c \in Authorities \ {a} : mem'[c] = mem[c] /\ disk'[c] = disk[c]
  BY <1>1, <1>3 DEF Processes
<1>8. Shape'
  <2>1. Processes'
    BY <1>1, <1>2, <1>7 DEF Processes
  <2> QED
    BY <1>1, <1>2, <2>1 DEF Shape
<1>9. Votes'
  BY <1>1, <1>2 DEF Votes
<1>10. Newest'
  <2>1. mem'[a].valid_after = mem[a].valid_after
    BY <1>6, <1>7 DEF Taken
  <2>2. \A c \in up : mem'[c].valid_after = mem[c].valid_after
    BY <1>1, <1>7, <2>1 DEF Processes
  <2> QED
    BY <1>1, <1>2, <2>2 DEF Newest
<1>11. \A c \in Authorities : ResumesFromItsFile(c)' => ResumesFromItsFile(c)
  BY <1>2 DEF ResumesFromItsFile
<1>12. History'
  <2>1. slot' \in {slot, slot + 1}
    BY <1>2
  <2> QED
    BY <1>1, <1>2, <1>11, <2>1, HistoryKept
<1>13. ASSUME NEW c \in Authorities
       PROVE  Authority(c)'
  <2>1. CASE c = a
    <3>1. Memory(a, mem[a])'
      <4>1. Taken(mem[a], post[b].commits, b, mem'[a]) /\ stage' # "publish" /\ b # a
        BY <1>2, <1>6, <1>7
      <4> QED
        BY <1>1, <1>2, <1>4, <1>5, <4>1, TakenMemory
    <3> QED
      BY <1>2, <1>7, <2>1, <3>1 DEF Authority
  <2>2. CASE c # a
    <3>1. /\ Authority(c) /\ (stage' = "publish" /\ c \in todo' => stage = "publish" /\ c \in todo)
          /\ (c \in up' <=> c \in up) /\ (c \in torn' <=> c \in torn)
          /\ crashes'[c] = crashes[c] /\ mem'[c] = mem[c] /\ disk'[c] = disk[c]
          /\ VotedBy(c)' = VotedBy(c)
      BY <1>2, <1>7, <2>2 DEF Inv, VotedBy
    <3> QED
      BY <1>2, <3>1, Bystander
  <2> QED
    BY <2>1, <2>2
<1> QED
  BY <1>6, <1>7, <1>8, <1>9, <1>10, <1>12, <1>13 DEF Inv

(* Steps that touch the state of no authority.                             *)
LEMMA QuietStep ==
  ASSUME Inv, slot' = slot, stage' # "publish" \/ (stage = "publish" /\ todo' \subseteq todo),
         <<up, crashes, mem, disk, torn, voted, revealed>>'
           = <<up, crashes, mem, disk, torn, voted, revealed>>
  PROVE  Processes' /\ History' /\ \A b \in Authorities : Authority(b)'
<1>1. up' = up /\ crashes' = crashes /\ mem' = mem /\ disk' = disk /\ torn' = torn
      /\ voted' = voted /\ revealed' = revealed
  OBVIOUS
<1>2. Processes'
  BY <1>1 DEF Inv, Shape, Processes
<1>3. History'
  <2>1. \A c \in Authorities : ResumesFromItsFile(c)' => ResumesFromItsFile(c)
    BY <1>1 DEF ResumesFromItsFile
  <2>2. slot' \in {slot, slot + 1} /\ slot \in Nat /\ History
    BY DEF Inv, Shape
  <2> QED
    BY <1>1, <2>1, <2>2, HistoryKept
<1>4. ASSUME NEW b \in Authorities
      PROVE  Authority(b)'
  <2>1. Authority(b) /\ VotedBy(b)' = VotedBy(b)
    BY <1>1 DEF Inv, VotedBy
  <2>2. stage' = "publish" /\ b \in todo' => stage = "publish" /\ b \in todo
    OBVIOUS
  <2> QED
    BY <1>1, <2>1, <2>2, Bystander
<1> QED
  BY <1>2, <1>3, <1>4

LEMMA ComputeStep ==
  ASSUME Inv, NEW a \in Authorities, dirvote_compute_consensuses(a)
  PROVE  Inv' /\ mem' = mem
<1>1. /\ stage = "build" /\ todo' = todo \ {a}
      /\ slot' = slot /\ stage' = stage /\ up' = up /\ crashes' = crashes /\ mem' = mem
      /\ disk' = disk /\ post' = post /\ latest' = latest /\ torn' = torn
      /\ voted' = voted /\ revealed' = revealed
  BY DEF dirvote_compute_consensuses
<1>2. \/ docs' = [docs EXCEPT ![a] = networkstatus_compute_consensus(a)]
      \/ docs' = [docs EXCEPT ![a] = NoDoc]
  BY DEF dirvote_compute_consensuses
<1>3. networkstatus_compute_consensus(a).valid_after = slot + 1
  BY DEF networkstatus_compute_consensus
<1>4. Shape /\ Newest /\ Votes
  BY DEF Inv
<1>5. /\ DOMAIN docs' = Authorities
      /\ docs'[a] = NoDoc \/ docs'[a].valid_after = slot + 1
      /\ \A b \in Authorities \ {a} : docs'[b] = docs[b]
  BY <1>2, <1>3, <1>4 DEF Shape
<1>6. Processes' /\ History' /\ \A b \in Authorities : Authority(b)'
  BY <1>1, QuietStep
<1>7. Shape'
  BY <1>1, <1>4, <1>5, <1>6 DEF Shape
<1>8. Votes'
  BY <1>1, <1>4 DEF Votes
<1>9. Newest'
  BY <1>1, <1>4, <1>5 DEF Newest
<1> QED
  BY <1>1, <1>6, <1>7, <1>8, <1>9 DEF Inv

LEMMA EndVotingStep ==
  ASSUME Inv, EndVoting
  PROVE  Inv' /\ mem' = mem
<1>1. /\ stage = "vote" /\ stage' = "build" /\ todo' = up
      /\ slot' = slot /\ up' = up /\ crashes' = crashes /\ mem' = mem
      /\ disk' = disk /\ post' = post /\ docs' = docs /\ latest' = latest /\ torn' = torn
      /\ voted' = voted /\ revealed' = revealed
  BY DEF EndVoting
<1>2. Shape /\ Newest /\ Votes
  BY DEF Inv
<1>3. Processes' /\ History' /\ \A b \in Authorities : Authority(b)'
  BY <1>1, QuietStep
<1>4. Shape'
  BY <1>1, <1>2, <1>3 DEF Shape
<1>5. Votes'
  BY <1>1, <1>2 DEF Votes
<1>6. Newest'
  BY <1>1, <1>2 DEF Newest
<1> QED
  BY <1>1, <1>3, <1>4, <1>5, <1>6 DEF Inv

LEMMA EndPublishStep ==
  ASSUME Inv, EndPublish
  PROVE  Inv' /\ mem' = mem
<1>1. /\ stage = "publish" /\ todo = {} /\ slot < LastSlot /\ stage' = "vote" /\ todo' = up
      /\ slot' = slot /\ up' = up /\ crashes' = crashes /\ mem' = mem
      /\ disk' = disk /\ post' = NoVotes /\ docs' = [b \in Authorities |-> NoDoc]
      /\ latest' = latest /\ torn' = torn /\ voted' = voted /\ revealed' = revealed
  BY DEF EndPublish
<1>2. Shape /\ Newest
  BY DEF Inv
<1>3. Processes' /\ History' /\ \A b \in Authorities : Authority(b)'
  BY <1>1, QuietStep
<1>4. DOMAIN post' = Authorities /\ DOMAIN docs' = Authorities
      /\ \A b \in Authorities : docs'[b] = NoDoc /\ post'[b].commits = {}
  BY <1>1 DEF NoVotes, NoVote
<1>5. Shape'
  BY <1>1, <1>2, <1>3, <1>4 DEF Shape
<1>6. Votes'
  BY <1>4 DEF Votes
<1>7. Newest'
  BY <1>1, <1>2, <1>4 DEF Newest
<1> QED
  BY <1>1, <1>3, <1>5, <1>6, <1>7 DEF Inv

LEMMA EndBuildStep ==
  ASSUME Inv, EndBuild
  PROVE  Inv' /\ mem' = mem
<1>1. /\ stage = "build" /\ todo = {} /\ slot' = slot + 1 /\ stage' = "publish" /\ todo' = up
      /\ up' = up /\ crashes' = crashes /\ mem' = mem /\ disk' = disk /\ post' = post
      /\ docs' = docs /\ latest' = latest /\ torn' = torn
      /\ voted' = voted /\ revealed' = revealed
  BY DEF EndBuild
<1>2. Shape /\ Newest /\ Votes /\ History /\ slot \in Nat
  BY DEF Inv, Shape
<1>3. Processes'
  BY <1>1, <1>2 DEF Shape, Processes
<1>4. LastSlot \in Nat /\ slot < LastSlot /\ slot >= TotalRounds - 1 /\ TotalRounds \in Nat
  BY <1>1, <1>2, Rounds, SharedRandomAssumption DEF Shape, SharedRandomAssumption
<1>5. slot' \in Nat /\ slot' >= TotalRounds - 1 /\ slot' <= LastSlot
  BY <1>1, <1>2, <1>4
<1>6. Shape'
  BY <1>1, <1>2, <1>3, <1>5 DEF Shape
<1>7. Votes'
  BY <1>1, <1>2 DEF Votes
<1>8. Newest'
  <2>1. \A b \in Authorities : latest[b].valid_after \in 0 .. slot + 1
                               /\ latest[b].valid_after < slot + 1
    BY <1>2 DEF Newest
  <2>2. \A b \in Authorities : docs[b] = NoDoc \/ docs[b].valid_after = slot + 1
    BY <1>1, <1>2 DEF Newest
  <2>3. up \subseteq Authorities
    BY <1>2 DEF Shape, Processes
  <2> QED
    BY <1>1, <2>1, <2>2, <2>3 DEF Newest
<1>9. \A b \in Authorities : ResumesFromItsFile(b)' <=> ResumesFromItsFile(b)
  BY <1>1 DEF ResumesFromItsFile
<1>10. History'
  <2>1. slot' \in {slot, slot + 1}
    BY <1>1
  <2> QED
    BY <1>1, <1>2, <1>9, <2>1, HistoryKept
<1>11. ASSUME NEW b \in Authorities
       PROVE  Authority(b)'
  <2>1. VotedBy(b)' = VotedBy(b) /\ mem'[b] = mem[b] /\ disk'[b] = disk[b]
    BY <1>1 DEF VotedBy
  <2>2. CASE b \in up
    <3> DEFINE m == mem[b]
    <3>1. Memory(b, m) /\ disk[b] = disk_state_update(m)
      BY <2>2 DEF Inv, Authority
    <3>2. Dated(b, m, slot) /\ IsState(m)
      BY <3>1 DEF Memory
    <3> HIDE DEF m
    <3>3. Dated(b, m, slot + 1)
      <4>1. \A c \in m.commits : c.ts \in Nat
        BY <3>2 DEF IsState, CommitsOK, Commits
      <4>2. ASSUME NEW c \in m.commits
            PROVE  /\ c.ts <= (slot + 1) + 1
                   /\ m.phase = REVEAL \/ c.auth = b => c.ts <= m.valid_after
        BY <1>2, <3>2, <4>1 DEF Dated
      <4>3. m.valid_after \in 1 .. (slot + 1) + 1 /\ m.phase = Phase(m.valid_after)
        BY <1>2, <3>2 DEF Dated
      <4> QED
        BY <4>2, <4>3 DEF Dated
    <3>4. Early(m, slot + 1)
      BY <3>2 DEF Dated, Early
    <3>5. Memory(b, mem[b])'
      <4>1. /\ IsState(m) /\ Dated(b, m, slot')
            /\ stage' = "publish" /\ b \in todo' => Early(m, slot')
        BY <1>1, <3>2, <3>3, <3>4
      <4>2. /\ ResumesFromItsFile(b)' => Binding(VotedBy(b)', b, m.commits, m.valid_after)
            /\ b \notin torn' => Lasting(b, m.commits, m.valid_until)
                                 /\ Complete(m.phase, m.commits)
        BY <1>1, <1>9, <2>1, <3>1 DEF Memory
      <4>3. mem'[b] = m
        BY <2>1 DEF m
      <4> QED
        BY <4>1, <4>2, <4>3 DEF Memory
    <3> QED
      BY <1>1, <2>1, <2>2, <3>1, <3>5 DEF Authority, m
  <2>3. CASE b \notin up
    <3> DEFINE d == disk[b]
               V == VotedBy(b)
    <3>1. File(b, d)
      BY <2>3 DEF Inv, Authority
    <3>2. \A v \in V : v.ts \in Nat
      BY <1>2, VotedTimes
    <3>3. IsFile(d, slot)
      BY <3>1 DEF File
    <3> HIDE DEF d
    <3>4. IsFile(d, slot + 1)
      <4>1. \A c \in d.commits : c.ts \in Nat
        BY <3>3 DEF IsFile, CommitsOK, Commits
      <4>2. ASSUME NEW c \in d.commits
            PROVE  /\ c.ts <= (slot + 1) + 1
                   /\ Phase(d.valid_after) = REVEAL => c.ts <= d.valid_after
        BY <1>2, <3>3, <4>1 DEF IsFile
      <4>3. d.valid_after \in 0 .. (slot + 1) + 1 /\ d.valid_until \in Nat
            /\ CommitsOK(d.commits)
        BY <1>2, <3>3 DEF IsFile
      <4> QED
        BY <4>2, <4>3 DEF IsFile
    <3>5. ASSUME ResumesFromItsFile(b)
          PROVE  Binding(V, b, d.commits, (slot + 1) + 1) /\ Lasting(b, d.commits, d.valid_until)
      <4>1. Binding(V, b, d.commits, slot + 1) /\ Lasting(b, d.commits, d.valid_until)
        BY <3>1, <3>5 DEF File
      <4>2. slot + 1 \in Nat /\ (slot + 1) + 1 \in Nat /\ slot + 1 <= (slot + 1) + 1
        BY <1>2
      <4> HIDE DEF V
      <4> QED
        BY <3>2, <4>1, <4>2, BindingLater
    <3>6. b \notin torn => Complete(Phase(d.valid_after), d.commits)
      BY <3>1 DEF File
    <3>7. File(b, disk[b])'
      <4>1. disk'[b] = d /\ VotedBy(b)' = V
        BY <2>1 DEF d
      <4>2. /\ IsFile(d, slot') /\ slot' + 1 = (slot + 1) + 1
        BY <1>1, <3>4
      <4> QED
        BY <1>1, <1>9, <3>5, <3>6, <4>1, <4>2 DEF File
    <3> QED
      BY <1>1, <2>3, <3>7 DEF Authority
  <2> QED
    BY <2>2, <2>3
<1> QED
  BY <1>1, <1>6, <1>7, <1>8, <1>10, <1>11 DEF Inv

LEMMA StutterStep ==
  ASSUME Inv, UNCHANGED vars
  PROVE  Inv' /\ mem' = mem
<1>1. /\ slot' = slot /\ stage' = stage /\ todo' = todo /\ up' = up /\ crashes' = crashes
      /\ mem' = mem /\ disk' = disk /\ post' = post /\ docs' = docs /\ latest' = latest
      /\ torn' = torn /\ voted' = voted /\ revealed' = revealed
  BY DEF vars
<1>2. Shape /\ Newest /\ Votes
  BY DEF Inv
<1>3. Processes' /\ History' /\ \A b \in Authorities : Authority(b)'
  <2>1. stage' # "publish" \/ (stage = "publish" /\ todo' \subseteq todo)
    BY <1>1
  <2> QED
    BY <1>1, <2>1, QuietStep
<1>4. Shape'
  BY <1>1, <1>2, <1>3 DEF Shape
<1>5. Votes'
  BY <1>1, <1>2 DEF Votes
<1>6. Newest'
  BY <1>1, <1>2 DEF Newest
<1> QED
  BY <1>1, <1>3, <1>4, <1>5, <1>6 DEF Inv

LEMMA StepInv ==
  ASSUME Inv, [Next]_vars
  PROVE  Inv'
<1>1. ASSUME NEW a \in Authorities, Crash(a)
      PROVE  Inv'
  BY <1>1, CrashStep
<1>2. ASSUME NEW a \in Authorities, sr_init(a)
      PROVE  Inv'
  BY <1>2, InitStep
<1>3. ASSUME NEW a \in Authorities, dirvote_perform_vote(a)
      PROVE  Inv'
  BY <1>3, VoteStep
<1>4. ASSUME NEW a \in Authorities, dirvote_compute_consensuses(a)
      PROVE  Inv'
  BY <1>4, ComputeStep
<1>5. ASSUME NEW a \in Authorities, PublishConsensus(a)
      PROVE  Inv'
  BY <1>5, PublishStep
<1>6. ASSUME NEW a \in Authorities, FetchConsensus(a)
      PROVE  Inv'
  BY <1>6, FetchStep
<1>7. ASSUME NEW a \in Authorities, NEW b \in Authorities, dirvote_add_vote(a, b)
      PROVE  Inv'
  BY <1>7, AddVoteStep
<1>8. CASE EndVoting
  BY <1>8, EndVotingStep
<1>9. CASE EndBuild
  BY <1>9, EndBuildStep
<1>10. CASE EndPublish
  BY <1>10, EndPublishStep
<1>11. CASE UNCHANGED vars \/ Horizon
  BY <1>11, StutterStep DEF Horizon
<1> QED
  BY <1>1, <1>2, <1>3, <1>4, <1>5, <1>6, <1>7, <1>8, <1>9, <1>10, <1>11 DEF Next

LEMMA InvHolds == Spec => []Inv
<1>1. Init => Inv
  BY InitInv
<1>2. Inv /\ [Next]_vars => Inv'
  BY StepInv
<1> QED
  BY <1>1, <1>2, PTL DEF Spec
-----------------------------------------------------------------------------
(* The theorems.                                                           *)

(* The type invariant: every running authority has a state of the protocol *)
(* with one commit of each authority at most, whatever votes it has taken  *)
(* (save_commit_to_state) and however it came back (disk_state_parse,      *)
(* state_new), and its file holds that state.                              *)
THEOREM SrTypeCorrect == Spec => []SrTypeOK
<1>1. Inv => SrTypeOK
  <2> SUFFICES ASSUME Inv
               PROVE  SrTypeOK
    OBVIOUS
  <2>1. LastSlot \in Nat /\ TotalRounds \in Nat
    BY Rounds, SharedRandomAssumption DEF SharedRandomAssumption
  <2>2. /\ slot \in TotalRounds - 1 .. LastSlot /\ stage \in {"vote", "build", "publish"}
        /\ todo \subseteq up /\ up \subseteq Authorities
    BY <2>1 DEF Inv, Shape, Processes
  <2>3. ASSUME NEW a \in up
        PROVE  IsState(mem[a]) /\ disk[a] = disk_state_update(mem[a])
    BY <2>2 DEF Inv, Authority, Memory
  <2>4. \A a \in up : /\ mem[a].phase \in {COMMIT, REVEAL}
                      /\ mem[a].is_srv_fresh \in BOOLEAN
                      /\ \A c, d \in mem[a].commits : c.auth = d.auth => c = d
    BY <2>3 DEF IsState, CommitsOK
  <2> QED
    BY <2>2, <2>3, <2>4 DEF SrTypeOK
<1> QED
  BY <1>1, InvHolds, PTL

(* No double voting, for any number of authorities, rounds, lost votes and *)
(* failed consensuses: an authority votes for one commitment in a run      *)
(* however often it is killed between two handlers (disk_state_parse), or  *)
(* once inside one (state_query saves after every change).                 *)
THEOREM NoDoubleVoting == Spec => []OneCommitmentPerRun
<1>1. Inv => OneCommitmentPerRun
  BY DEF Inv, History
<1> QED
  BY <1>1, InvHolds, PTL

(* An authority that votes with the state of another round has not got the *)
(* consensus of this interval (sr_act_post_consensus, sr_state_init).      *)
THEOREM LagIsForWantOfConsensus == Spec => []LagsOnlyWithoutConsensus
<1>1. Inv => LagsOnlyWithoutConsensus
  BY DEF Inv, Newest, LagsOnlyWithoutConsensus
<1> QED
  BY <1>1, InvHolds, PTL

LEMMA StepLearns ==
  ASSUME Inv, [Next]_vars, NEW a \in up, a \in up', mem[a].valid_after = slot + 1,
         NEW c \in mem'[a].commits
  PROVE  \/ \E d \in mem[a].commits : commitments_are_the_same(c, d)
         \/ \A r \in revealed' : RunOf(r) # (slot + 1) \div TotalRounds
<1>1. Processes /\ a \in Authorities /\ Memory(a, mem[a]) /\ slot \in Nat /\ History
  BY DEF Inv, Shape, Processes, Authority
<1>2. CASE mem'[a].commits = mem[a].commits
  BY <1>2 DEF commitments_are_the_same
<1>3. ASSUME NEW b \in Authorities, NEW W, b # a, Runs(b, W)
      PROVE  mem'[a] = mem[a]
  BY <1>1, <1>3, RunsFrame
<1>4. ASSUME NEW b \in Authorities, Crash(b)
      PROVE  mem'[a] = mem[a]
  BY <1>1, <1>4 DEF Crash, Processes
<1>5. ASSUME NEW b \in Authorities, sr_init(b)
      PROVE  mem'[a] = mem[a]
  BY <1>3, <1>5 DEF sr_init
<1>6. ASSUME NEW b \in Authorities, dirvote_perform_vote(b)
      PROVE  mem'[a] = mem[a]
  BY <1>1, <1>6, VoteStep
<1>7. ASSUME NEW b \in Authorities, PublishConsensus(b)
      PROVE  mem'[a].commits = mem[a].commits
  <2>1. CASE b = a
    BY <1>7, <2>1, PublishStep
  <2>2. CASE b # a
    BY <1>3, <1>7, <2>2 DEF PublishConsensus
  <2> QED
    BY <2>1, <2>2
<1>8. ASSUME NEW b \in Authorities, FetchConsensus(b)
      PROVE  mem'[a].commits = mem[a].commits
  <2>1. CASE b = a
    BY <1>8, <2>1, FetchStep
  <2>2. CASE b # a
    BY <1>3, <1>8, <2>2 DEF FetchConsensus
  <2> QED
    BY <2>1, <2>2
<1>9. ASSUME NEW b \in Authorities, NEW v \in Authorities, dirvote_add_vote(b, v)
      PROVE  \/ \E d \in mem[a].commits : commitments_are_the_same(c, d)
             \/ \A r \in revealed' : RunOf(r) # (slot + 1) \div TotalRounds
  <2>1. CASE b # a
    <3>1. mem'[a] = mem[a]
      BY <1>1, <1>9, <2>1, AddVoteStep
    <3> QED
      BY <1>2, <3>1
  <2>2. CASE b = a
    <3>1. Taken(mem[a], post[v].commits, v, mem'[a])
      BY <1>9, <2>2, AddVoteStep
    <3>2. CASE \E d \in mem[a].commits : Commitment(c) = Commitment(d)
      BY <3>2 DEF commitments_are_the_same
    <3>3. CASE mem[a].phase = COMMIT
      <4>1. Phase(slot + 1) = COMMIT
        BY <1>1, <3>3 DEF Memory, Dated
      <4>2. revealed' = revealed
        BY <1>9 DEF dirvote_add_vote
      <4>3. ASSUME NEW r \in revealed
            PROVE  RunOf(r) # (slot + 1) \div TotalRounds
        <5>1. r.ts \in Nat /\ Past(r, slot + 1) /\ slot + 1 \in Nat /\ slot + 1 <= slot + 1
          BY <1>1 DEF History
        <5>2. (slot + 1) \div TotalRounds > RunOf(r)
          BY <4>1, <5>1, PastIsOver
        <5>3. RunOf(r) \in Nat /\ (slot + 1) \div TotalRounds \in Nat
          BY <5>1, Rounds, DivMod DEF RunOf
        <5> QED
          BY <5>2, <5>3
      <4> QED
        BY <4>2, <4>3
    <3> QED
      BY <3>1, <3>2, <3>3 DEF Taken
  <2> QED
    BY <2>1, <2>2
<1>10. ASSUME \/ EndVoting \/ EndBuild \/ EndPublish \/ Horizon \/ UNCHANGED vars
              \/ \E b \in Authorities : dirvote_compute_consensuses(b)
       PROVE  mem' = mem
  BY <1>10 DEF EndVoting, EndBuild, EndPublish, Horizon, dirvote_compute_consensuses, vars
<1> QED
  BY <1>2, <1>4, <1>5, <1>6, <1>7, <1>8, <1>9, <1>10 DEF Next

(* Commitments are binding: no authority whose state is that of the round  *)
(* being voted on takes a commitment from a vote (should_keep_commit) once *)
(* a reveal value of the run has been in a vote (sr_get_string_for_vote).  *)
THEOREM CommitmentsAreBinding == Spec => NoCommitAfterReveal
<1>1. Inv /\ [Next]_vars =>
        [\A a \in up \cap up' :
           mem[a].valid_after = slot + 1 =>
             \A c \in mem'[a].commits :
               \/ \E d \in mem[a].commits : commitments_are_the_same(c, d)
               \/ \A r \in revealed' : RunOf(r) # (slot + 1) \div TotalRounds]_vars
  <2> SUFFICES ASSUME Inv, [Next]_vars, NEW a \in up, a \in up',
                      mem[a].valid_after = slot + 1, NEW c \in mem'[a].commits
               PROVE  \/ \E d \in mem[a].commits : commitments_are_the_same(c, d)
                      \/ \A r \in revealed' : RunOf(r) # (slot + 1) \div TotalRounds
    OBVIOUS
  <2> QED
    BY StepLearns
<1> QED
  BY <1>1, InvHolds, PTL DEF Spec, NoCommitAfterReveal
-----------------------------------------------------------------------------
(* Shared random values in consensuses.  C is the set of authorities that  *)
(* have crashed: what they hold, and the values they voted for, is not     *)
(* relied upon.                                                            *)

Crashed == {a \in Authorities : crashes[a] > 0}

(* The authorities that vouch for v: its reveals are theirs, or they have   *)
(* crashed.                                                                *)
Backers(C, v) == C \cup {a \in Authorities : \E c \in v.reveals : c.auth = a}

Supported(C, v) == v \in {NoSrv, OldSrv} \/ Cardinality(Backers(C, v)) >= Majority

(* What an authority a may hold or vote for.                               *)
Vouched(C, a, v) == Supported(C, v) \/ a \in Backers(C, v)

(* The own commit of authority a is in its state, with its reveal value.   *)
Reveals(a, m) == \E c \in m.commits : c.auth = a /\ c.reveal

Documents ==
  \A a \in Authorities : /\ Supported(Crashed, docs[a].current_srv)
                         /\ Supported(Crashed, latest[a].current_srv)

Ballots ==
  /\ DOMAIN pending = Authorities
  /\ \A a \in Authorities :
       /\ Vouched(Crashed, a, post[a].current_srv)
       /\ DOMAIN pending[a] = Authorities
       /\ \A b \in Authorities : Vouched(Crashed, b, pending[a][b].current_srv)

Memories ==
  \A a \in Authorities \ Crashed :
    Reveals(a, mem[a]) /\ Vouched(Crashed, a, mem[a].current_srv)

Backed == Documents /\ Ballots /\ Memories

LEMMA MajorityIsNat == Majority \in Nat /\ Majority >= 1
<1>1. Cardinality(Authorities) \in Nat
  BY SharedRandomAssumption, FS_CardinalityType
<1>2. \A n \in Nat : n \div 2 \in Nat
  OBVIOUS
<1> QED
  BY <1>1, <1>2 DEF Majority

(* Fewer vouch for a value than there are authorities.                     *)
LEMMA BackersAreFinite ==
  ASSUME NEW C, C \subseteq Authorities, NEW v, NEW S, S \subseteq Backers(C, v)
  PROVE  /\ IsFiniteSet(Backers(C, v)) /\ Cardinality(Backers(C, v)) \in Nat
         /\ Cardinality(S) \in Nat /\ Cardinality(S) <= Cardinality(Backers(C, v))
<1>1. Backers(C, v) \in SUBSET Authorities
  BY DEF Backers
<1>2. IsFiniteSet(Backers(C, v))
  BY <1>1, SharedRandomAssumption, FS_Subset
<1>3. S \in SUBSET Backers(C, v)
  OBVIOUS
<1>4. IsFiniteSet(S) /\ Cardinality(S) <= Cardinality(Backers(C, v))
  BY <1>2, <1>3, FS_Subset
<1> QED
  BY <1>2, <1>4, FS_CardinalityType

(* A crash takes no support away.                                          *)
LEMMA SupportGrows ==
  ASSUME NEW C, NEW D, C \subseteq D, D \subseteq Authorities
  PROVE  \A v : /\ Supported(C, v) => Supported(D, v)
                /\ \A a : Vouched(C, a, v) => Vouched(D, a, v)
<1> SUFFICES ASSUME NEW v
             PROVE  /\ Supported(C, v) => Supported(D, v)
                    /\ \A a : Vouched(C, a, v) => Vouched(D, a, v)
  OBVIOUS
<1>1. Backers(C, v) \subseteq Backers(D, v)
  BY DEF Backers
<1>2. /\ Cardinality(Backers(D, v)) \in Nat /\ Cardinality(Backers(C, v)) \in Nat
      /\ Cardinality(Backers(C, v)) <= Cardinality(Backers(D, v))
  BY <1>1, BackersAreFinite
<1>3. Supported(C, v) => Supported(D, v)
  BY <1>2, MajorityIsNat DEF Supported
<1> QED
  BY <1>1, <1>3 DEF Vouched

LEMMA NothingIsSupported ==
  ASSUME NEW C
  PROVE  /\ Supported(C, NoSrv) /\ Supported(C, NoDoc.current_srv)
         /\ \A a : Vouched(C, a, NoVote.current_srv)
BY DEF Supported, Vouched, NoDoc, NoVote

LEMMA CrashedGrows ==
  ASSUME Processes, NEW a \in Authorities,
         crashes' = crashes \/ crashes' = [crashes EXCEPT ![a] = @ + 1]
  PROVE  Crashed \subseteq Crashed' /\ Crashed' \subseteq Authorities
<1>1. \A b \in Authorities : crashes[b] \in Nat /\ (crashes[b] > 0 => crashes'[b] > 0)
  BY DEF Processes
<1> QED
  BY <1>1 DEF Crashed

(* A value that a majority votes for is supported.                         *)
LEMMA MajorityIsSupported ==
  ASSUME NEW C, C \subseteq Authorities, NEW m, NEW V, V \subseteq Authorities,
         NEW srvs, DOMAIN srvs = V, \A b \in V : Vouched(C, b, srvs[b])
  PROVE  Supported(C, get_majority_srv_from_votes(m, srvs))
<1> DEFINE Agreeing(v) == Cardinality({b \in DOMAIN srvs : srvs[b] = v})
           kept == {v \in {srvs[b] : b \in DOMAIN srvs} \ {NoSrv} :
                      should_keep_srv(m, Agreeing(v))}
           v == CHOOSE x \in kept : TRUE
<1>1. get_majority_srv_from_votes(m, srvs) = IF kept = {} THEN NoSrv ELSE v
  BY DEF get_majority_srv_from_votes
<1>2. CASE kept = {}
  BY <1>1, <1>2, NothingIsSupported
<1>3. CASE kept # {}
  <2>1. v \in kept
    BY <1>3
  <2>2. Agreeing(v) >= Majority
    BY <2>1 DEF should_keep_srv
  <2>3. get_majority_srv_from_votes(m, srvs) = v
    BY <1>1, <1>3
  <2> HIDE DEF v, kept
  <2> DEFINE S == {b \in DOMAIN srvs : srvs[b] = v}
  <2>4. CASE S \subseteq Backers(C, v)
    <3>1. Cardinality(S) >= Majority
      BY <2>2
    <3> HIDE DEF S
    <3>2. /\ Cardinality(Backers(C, v)) \in Nat /\ Cardinality(S) \in Nat
          /\ Cardinality(S) <= Cardinality(Backers(C, v))
      BY <2>4, BackersAreFinite
    <3> QED
      BY <2>3, <3>1, <3>2, MajorityIsNat DEF Supported
  <2>5. CASE ~(S \subseteq Backers(C, v))
    <3>1. PICK b \in V : srvs[b] = v /\ b \notin Backers(C, v)
      BY <2>5
    <3> QED
      BY <2>3, <3>1 DEF Vouched
  <2> QED
    BY <2>4, <2>5
<1> QED
  BY <1>2, <1>3

-----------------------------------------------------------------------------
(* The current value after a handler: the one before it, that of the       *)
(* consensus, or one computed from the own reveal among others.            *)

Computed(a, v) == \E c \in v.reveals : c.auth = a

LEMMA LastOfAppend ==
  ASSUME NEW P, \E S : P \in Seq(S), NEW x
  PROVE  Last(Append(P, x)) = x
<1>1. PICK S : P \in Seq(S)
  OBVIOUS
<1>2. P \in Seq(S \cup {x}) /\ Len(P) \in Nat
  BY <1>1
<1> QED
  BY <1>2 DEF Last

LEMMA OurCommitReveals ==
  ASSUME NEW a, NEW m, IsState(m), NEW t
  PROVE  LET x == sr_state_add_commit(m, sr_generate_our_commit(a, t))
         IN  Reveals(a, x) /\ x.current_srv = m.current_srv
<1> DEFINE c == sr_generate_our_commit(a, t)
           x == sr_state_add_commit(m, c)
<1>1. c.auth = a /\ c.reveal
  BY DEF sr_generate_our_commit
<1> HIDE DEF c
<1>2. c \in x.commits /\ x.current_srv = m.current_srv
  BY DEF sr_state_add_commit, IsState, MemFields
<1> QED
  BY <1>1, <1>2 DEF Reveals, c

LEMMA RotatedComputes ==
  ASSUME NEW a, NEW m, IsState(m), Reveals(a, m)
  PROVE  Computed(a, Rotated(m)[4].current_srv)
<1> DEFINE r1 == [m EXCEPT !.previous_srv = NoSrv]
           r2 == [m EXCEPT !.previous_srv = m.current_srv]
           r3 == [m EXCEPT !.previous_srv = m.current_srv, !.current_srv = NoSrv]
           r4 == sr_compute_srv(r3)
<1>1. Rotated(m) = Append(<<r1, r2, r3>>, r4)
  BY DEF Rotated, state_rotate_srv
<1>2. DOMAIN r3 = MemFields /\ r3.commits = m.commits
  BY DEF IsState, MemFields
<1> HIDE DEF r1, r2, r3
<1>3. r4.current_srv.reveals = {Commitment(c) : c \in {d \in r3.commits : d.reveal}}
  BY <1>2 DEF sr_compute_srv, MemFields
<1> HIDE DEF r4
<1>4. Rotated(m)[4] = r4
  BY <1>1
<1>5. PICK c \in m.commits : c.auth = a /\ c.reveal
  BY DEF Reveals
<1>6. Commitment(c) \in r4.current_srv.reveals /\ Commitment(c).auth = a
  BY <1>2, <1>3, <1>5 DEF Commitment
<1> QED
  BY <1>4, <1>6 DEF Computed

LEMMA NewRunEnds ==
  ASSUME NEW a \in Authorities, NEW m, IsState(m), slot \in Nat, NEW t \in {slot, slot + 1},
         m.phase = REVEAL, Reveals(a, m)
  PROVE  LET x == Last(new_protocol_run(m, a, t))
         IN  Reveals(a, x) /\ Computed(a, x.current_srv)
<1> DEFINE R == Rotated(m)
           clean == reset_state_for_new_protocol_run(R[4], t)
           own == sr_state_add_commit(clean, sr_generate_our_commit(a, t))
           D == <<clean, own>>
<1>1. /\ \E S : R \in Seq(S)
      /\ Len(R) = 4 /\ R # << >> /\ \A i \in 1 .. 4 : SameCore(m, R[i])
  BY RotatedIs
<1>2. new_protocol_run(m, a, t) = R \o D
  <2>1. Last(R) = R[4]
    BY <1>1 DEF Last
  <2> QED
    BY <1>1, <2>1 DEF new_protocol_run, Rotated
<1>3. Computed(a, R[4].current_srv)
  BY RotatedComputes
<1>4. IsState(R[4]) /\ t \in Nat
  BY <1>1 DEF SameCore
<1> HIDE DEF R
<1>5. IsState(clean)
  BY <1>4, Reset
<1>6. clean.current_srv = R[4].current_srv
  BY <1>4 DEF reset_state_for_new_protocol_run, IsState, MemFields
<1> HIDE DEF clean
<1>7. Reveals(a, own) /\ own.current_srv = clean.current_srv
  BY <1>5, OurCommitReveals
<1> HIDE DEF own
<1>8. PICK S : R \in Seq(S)
  BY <1>1
<1>9. R \in Seq(S \cup {clean, own}) /\ D \in Seq(S \cup {clean, own})
      /\ Len(D) = 2 /\ D[2] = own
  BY <1>8
<1> HIDE DEF D
<1>10. /\ Len(R \o D) = Len(R) + Len(D)
       /\ \A i \in 1 .. Len(D) : (R \o D)[Len(R) + i] = D[i]
  <2> DEFINE Y == S \cup {clean, own}
  <2>1. R \in Seq(Y) /\ D \in Seq(Y)
    BY <1>9
  <2> HIDE DEF Y
  <2> QED
    BY <2>1, ConcatIndex
<1>11. Last(R \o D) = own
  <2>1. 2 \in 1 .. Len(D) /\ Len(R) + 2 = Len(R \o D)
    BY <1>1, <1>9, <1>10
  <2> QED
    BY <1>9, <1>10, <2>1 DEF Last
<1> QED
  BY <1>2, <1>3, <1>6, <1>7, <1>11

LEMMA UpdateEnds ==
  ASSUME NEW a \in Authorities, NEW m, IsState(m), slot \in Nat, NEW t \in {slot, slot + 1},
         crashes[a] \in Nat, Reveals(a, m)
  PROVE  LET x == Last(sr_state_update(m, a, t))
         IN  /\ Reveals(a, x)
             /\ x.current_srv = m.current_srv \/ Computed(a, x.current_srv)
<1> DEFINE W == sr_state_update(m, a, t)
           Moved(x) == [x EXCEPT !.phase = get_sr_protocol_phase(t), !.valid_after = t]
<1>1. t \in Nat /\ m.valid_after \in Nat /\ m.phase \in {COMMIT, REVEAL}
  BY DEF IsState
<1>2. Phase(t) \in {COMMIT, REVEAL} /\ COMMIT # REVEAL
  BY <1>1, Phases
<1>3. ASSUME NEW x, IsState(x)
      PROVE  Moved(x).commits = x.commits /\ Moved(x).current_srv = x.current_srv
  BY <1>3 DEF IsState, MemFields
<1>4. m.commits # {}
  BY DEF Reveals
<1>5. CASE t <= m.valid_after
  <2>1. W = <<m>>
    BY <1>5 DEF sr_state_update
  <2> QED
    BY <2>1, OneWrite
<1>6. CASE m.valid_after < t /\ Phase(t) = COMMIT /\ m.phase = REVEAL
  <2> DEFINE P == new_protocol_run(m, a, t)
  <2>1. (\E S : P \in Seq(S)) /\ Len(P) = 6 /\ IsState(P[6])
    BY <1>6, NewRunWrites
  <2>2. Reveals(a, Last(P)) /\ Computed(a, Last(P).current_srv)
    BY <1>6, NewRunEnds
  <2>3. W = Append(P, Moved(Last(P)))
    BY <1>1, <1>2, <1>6 DEF sr_state_update, Phase
  <2> HIDE DEF P, W, Moved
  <2>4. IsState(Last(P))
    BY <2>1 DEF Last
  <2>5. Last(W) = Moved(Last(P))
    BY <2>1, <2>3, LastOfAppend
  <2>6. Last(W).commits = Last(P).commits /\ Last(W).current_srv = Last(P).current_srv
    BY <1>3, <2>4, <2>5
  <2>7. Reveals(a, Last(W)) /\ Computed(a, Last(W).current_srv)
    BY <2>2, <2>6 DEF Reveals
  <2> QED
    BY <2>7 DEF W
<1>7. CASE m.valid_after < t /\ ~(Phase(t) = COMMIT /\ m.phase = REVEAL)
  <2>1. W = Append(<<m>>, Moved(Last(<<m>>)))
    <3> DEFINE prepared ==
                 IF Phase(t) # m.phase
                 THEN IF Phase(t) = COMMIT THEN new_protocol_run(m, a, t) ELSE <<m>>
                 ELSE IF m.phase = COMMIT /\ m.commits = {}
                 THEN <<sr_state_add_commit(m, sr_generate_our_commit(a, t))>>
                 ELSE <<m>>
    <3>1. W = IF t <= m.valid_after THEN <<m>>
              ELSE Append(prepared, Moved(Last(prepared)))
      BY DEF sr_state_update, Phase
    <3>2. prepared = <<m>>
      BY <1>1, <1>2, <1>4, <1>7
    <3> HIDE DEF prepared
    <3>3. ~(t <= m.valid_after)
      BY <1>1, <1>7
    <3> QED
      BY <3>1, <3>2, <3>3
  <2>2. Last(<<m>>) = m /\ \E S : <<m>> \in Seq(S)
    BY OneWrite
  <2> HIDE DEF W, Moved
  <2>3. Last(W) = Moved(m)
    BY <2>1, <2>2, LastOfAppend
  <2>4. Last(W).commits = m.commits /\ Last(W).current_srv = m.current_srv
    BY <1>3, <2>3
  <2>5. Reveals(a, Last(W)) /\ Last(W).current_srv = m.current_srv
    BY <2>4 DEF Reveals
  <2> QED
    BY <2>5 DEF W
<1> QED
  BY <1>1, <1>2, <1>5, <1>6, <1>7

LEMMA ConsensusEnds ==
  ASSUME NEW a \in Authorities, NEW m, IsState(m), slot \in Nat, NEW t \in {slot, slot + 1},
         crashes[a] \in Nat, Reveals(a, m), NEW consensus
  PROVE  LET x == Last(sr_act_post_consensus(m, a, consensus, t))
         IN  /\ Reveals(a, x)
             /\ \/ x.current_srv \in {m.current_srv, consensus.current_srv}
                \/ Computed(a, x.current_srv)
<1>1. CASE consensus = NoDoc
  BY <1>1, UpdateEnds DEF sr_act_post_consensus
<1>2. CASE consensus # NoDoc
  <2> DEFINE noprev == [m EXCEPT !.previous_srv = NoSrv]
             clean == [noprev EXCEPT !.current_srv = NoSrv]
             prev == [clean EXCEPT !.is_srv_fresh = FALSE,
                                   !.previous_srv = consensus.previous_srv]
             cur == [prev EXCEPT !.current_srv = consensus.current_srv]
             P == <<noprev, clean, prev, cur>>
             U == sr_state_update(cur, a, t)
             W == sr_act_post_consensus(m, a, consensus, t)
  <2>1. W = P \o U
    BY <1>2 DEF sr_act_post_consensus
  <2>2. IsState(noprev) /\ noprev.commits = m.commits
    <3>1. SameCore(m, noprev)
      BY SetSrvs
    <3> QED
      BY <3>1 DEF SameCore
  <2> HIDE DEF noprev
  <2>3. IsState(clean) /\ clean.commits = m.commits
    <3>1. SameCore(noprev, clean)
      BY <2>2, SetSrvs
    <3> QED
      BY <2>2, <3>1 DEF SameCore
  <2> HIDE DEF clean
  <2>4. IsState(prev) /\ prev.commits = m.commits
    <3>1. SameCore(clean, prev)
      BY <2>3, SetSrvs
    <3> QED
      BY <2>3, <3>1 DEF SameCore
  <2> HIDE DEF prev
  <2>5. IsState(cur) /\ cur.commits = m.commits
    <3>1. SameCore(prev, cur)
      BY <2>4, SetSrvs
    <3> QED
      BY <2>4, <3>1 DEF SameCore
  <2>6. cur.current_srv = consensus.current_srv
    BY <2>4 DEF IsState, MemFields
  <2> HIDE DEF cur
  <2>7. Reveals(a, cur)
    BY <2>5 DEF Reveals
  <2>8. /\ Reveals(a, Last(U))
        /\ Last(U).current_srv = cur.current_srv \/ Computed(a, Last(U).current_srv)
    BY <2>5, <2>7, UpdateEnds
  <2>9. Writes(U, a, cur, slot, t)
    BY <2>5, UpdateWrites
  <2> HIDE DEF U
  <2>10. \E S : P \in Seq(S)
    <3>1. P \in Seq({noprev, clean, prev, cur})
      OBVIOUS
    <3> QED
      BY <3>1
  <2> HIDE DEF P
  <2>11. PICK Z : U \in Seq(Z)
    BY <2>9 DEF Writes
  <2>16. PICK S : P \in Seq(S)
    BY <2>10
  <2> DEFINE Y == Z \cup S
  <2>17. P \in Seq(Y) /\ U \in Seq(Y)
    BY <2>11, <2>16
  <2>12. P \in Seq(Y) /\ U \in Seq(Y) /\ Len(P) \in Nat /\ Len(U) \in Nat /\ Len(U) >= 1
    BY <2>9, <2>17 DEF Writes
  <2> HIDE DEF Y, W
  <2>13. /\ Len(P \o U) = Len(P) + Len(U)
         /\ \A i \in 1 .. Len(U) : (P \o U)[Len(P) + i] = U[i]
    BY <2>12, ConcatIndex
  <2>14. Last(W) = Last(U)
    <3>1. Len(U) \in 1 .. Len(U)
      BY <2>12
    <3> QED
      BY <2>1, <2>13, <3>1 DEF Last
  <2>15. /\ Reveals(a, Last(W))
         /\ Last(W).current_srv = consensus.current_srv \/ Computed(a, Last(W).current_srv)
    BY <2>6, <2>8, <2>14
  <2> QED
    BY <2>15 DEF W
<1> QED
  BY <1>1, <1>2

-----------------------------------------------------------------------------
(* The steps.                                                              *)

LEMMA KeepsDocuments ==
  ASSUME Documents, Crashed \subseteq Crashed', Crashed' \subseteq Authorities,
         \A a \in Authorities :
           /\ docs'[a] \in {docs[a], NoDoc}
           /\ \E b \in Authorities : latest'[a] \in {docs[b], latest[b]}
  PROVE  Documents'
<1>1. \A v : Supported(Crashed, v) => Supported(Crashed', v)
  BY SupportGrows
<1>2. Supported(Crashed', NoDoc.current_srv)
  BY NothingIsSupported
<1>3. ASSUME NEW a \in Authorities
      PROVE  Supported(Crashed', docs'[a].current_srv)
  BY <1>1, <1>2 DEF Documents
<1>4. ASSUME NEW a \in Authorities
      PROVE  Supported(Crashed', latest'[a].current_srv)
  BY <1>1 DEF Documents
<1> QED
  BY <1>3, <1>4 DEF Documents

LEMMA KeepsBallots ==
  ASSUME Ballots, Crashed \subseteq Crashed', Crashed' \subseteq Authorities,
         DOMAIN pending' = Authorities,
         \A a \in Authorities :
           /\ post'[a] \in {post[a], NoVote}
           /\ DOMAIN pending'[a] = Authorities
           /\ \A b \in Authorities : pending'[a][b] \in {pending[a][b], post[b], NoVote}
  PROVE  Ballots'
<1>1. \A a, v : Vouched(Crashed, a, v) => Vouched(Crashed', a, v)
  BY SupportGrows
<1>2. \A a : Vouched(Crashed', a, NoVote.current_srv)
  BY NothingIsSupported
<1>3. ASSUME NEW a \in Authorities
      PROVE  Vouched(Crashed', a, post'[a].current_srv)
  BY <1>1, <1>2 DEF Ballots
<1>4. ASSUME NEW a \in Authorities, NEW b \in Authorities
      PROVE  Vouched(Crashed', b, pending'[a][b].current_srv)
  BY <1>1, <1>2 DEF Ballots
<1> QED
  BY <1>3, <1>4 DEF Ballots

LEMMA KeepsMemories ==
  ASSUME Memories, Crashed \subseteq Crashed', Crashed' \subseteq Authorities,
         \A a \in Authorities \ Crashed' :
           /\ Reveals(a, mem[a]) => Reveals(a, mem'[a])
           /\ mem'[a].current_srv = mem[a].current_srv
  PROVE  Memories'
<1>1. \A a, v : Vouched(Crashed, a, v) => Vouched(Crashed', a, v)
  BY SupportGrows
<1>2. ASSUME NEW a \in Authorities \ Crashed'
      PROVE  Reveals(a, mem'[a]) /\ Vouched(Crashed', a, mem'[a].current_srv)
  <2>1. a \in Authorities \ Crashed
    BY <1>2
  <2> QED
    BY <1>1, <1>2, <2>1 DEF Memories
<1> QED
  BY <1>2 DEF Memories, Reveals

LEMMA CrashedSame ==
  ASSUME Processes, crashes' = crashes
  PROVE  Crashed' = Crashed /\ Crashed \subseteq Authorities
BY DEF Crashed

LEMMA ConsensusBacked ==
  ASSUME Inv, Memories, NEW a \in Authorities, a \in up, NEW t \in {slot, slot + 1},
         NEW consensus, Supported(Crashed, consensus.current_srv),
         Runs(a, sr_act_post_consensus(mem[a], a, consensus, t))
  PROVE  Memories' /\ Crashed \subseteq Crashed' /\ Crashed' \subseteq Authorities
<1> DEFINE W == sr_act_post_consensus(mem[a], a, consensus, t)
<1>1. Processes /\ slot \in Nat /\ IsState(mem[a]) /\ crashes[a] \in Nat
  BY DEF Inv, Shape, Processes, Authority, Memory
<1>2. Runs(a, W)
  OBVIOUS
<1>3. a \notin Crashed =>
        /\ Reveals(a, Last(W))
        /\ \/ Last(W).current_srv \in {mem[a].current_srv, consensus.current_srv}
           \/ Computed(a, Last(W).current_srv)
  BY <1>1, ConsensusEnds DEF Memories
<1> HIDE DEF W
<1>4. crashes' = crashes \/ crashes' = [crashes EXCEPT ![a] = @ + 1]
  BY <1>2 DEF Runs
<1>5. Crashed \subseteq Crashed' /\ Crashed' \subseteq Authorities
  BY <1>1, <1>4, CrashedGrows
<1>6. \A b \in Authorities \ {a} : mem'[b] = mem[b]
  BY <1>1, <1>2, RunsFrame
<1>7. \A b, v : Vouched(Crashed, b, v) => Vouched(Crashed', b, v)
  BY <1>5, SupportGrows
<1>8. ASSUME a \notin Crashed'
      PROVE  Reveals(a, mem'[a]) /\ Vouched(Crashed', a, mem'[a].current_srv)
  <2>1. a \notin Crashed
    BY <1>5, <1>8
  <2>2. crashes' # [crashes EXCEPT ![a] = @ + 1]
    <3>1. SUFFICES ASSUME crashes' = [crashes EXCEPT ![a] = @ + 1] PROVE FALSE
      OBVIOUS
    <3>2. crashes'[a] = crashes[a] + 1
      BY <1>1, <3>1 DEF Processes
    <3> QED
      BY <1>1, <1>8, <3>2 DEF Crashed
  <2>3. mem'[a] = Last(W)
    BY <1>1, <1>2, <2>2 DEF Runs, Processes
  <2>4. Vouched(Crashed, a, mem[a].current_srv) /\ Vouched(Crashed, a, consensus.current_srv)
    BY <2>1 DEF Memories, Vouched
  <2>5. ASSUME NEW v, Computed(a, v)
        PROVE  Vouched(Crashed, a, v)
    BY <2>5 DEF Vouched, Backers, Computed
  <2>6. Vouched(Crashed, a, Last(W).current_srv)
    BY <1>3, <2>1, <2>4, <2>5
  <2> QED
    BY <1>3, <1>7, <2>1, <2>3, <2>6
<1>9. ASSUME NEW b \in Authorities \ Crashed'
      PROVE  Reveals(b, mem'[b]) /\ Vouched(Crashed', b, mem'[b].current_srv)
  <2>1. CASE b = a
    BY <1>8, <1>9, <2>1
  <2>2. CASE b # a
    <3>1. b \in Authorities \ Crashed /\ mem'[b] = mem[b]
      BY <1>5, <1>6, <1>9, <2>2
    <3> QED
      BY <1>7, <3>1 DEF Memories
  <2> QED
    BY <2>1, <2>2
<1> QED
  BY <1>5, <1>9 DEF Memories, Reveals

(* Taking the commits of a vote keeps our own reveal and our values.       *)
LEMMA HandledKeeps ==
  ASSUME NEW m, IsState(m), NEW commits, NEW voter, NEW a
  PROVE  LET x == sr_handle_received_commits(m, commits, voter)
         IN  /\ Reveals(a, m) => Reveals(a, x)
             /\ x.current_srv = m.current_srv
<1> DEFINE kept == {c \in commits : should_keep_commit(m, c, voter)}
           d == CHOOSE c \in kept : TRUE
           x == sr_handle_received_commits(m, commits, voter)
<1>1. x = IF kept = {} THEN m ELSE save_commit_to_state(m, d)
  BY DEF sr_handle_received_commits
<1>2. CASE kept = {}
  BY <1>1, <1>2
<1>3. CASE kept # {}
  <2>1. x = save_commit_to_state(m, d)
    BY <1>1, <1>3
  <2> HIDE DEF d, x, kept
  <2>2. CASE m.phase = COMMIT
    <3>1. x.commits = m.commits \cup {d} /\ x.current_srv = m.current_srv
      BY <2>1, <2>2 DEF save_commit_to_state, sr_state_add_commit, IsState, MemFields
    <3> QED
      BY <3>1 DEF Reveals, x
  <2>3. CASE m.phase # COMMIT
    <3> DEFINE R(s) == IF s.auth = d.auth THEN [s EXCEPT !.reveal = TRUE] ELSE s
    <3>1. x.commits = {R(s) : s \in m.commits} /\ x.current_srv = m.current_srv
      BY <2>1, <2>3 DEF save_commit_to_state, IsState, MemFields
    <3>2. ASSUME NEW s \in m.commits, s.auth = a, s.reveal
          PROVE  R(s).auth = a /\ R(s).reveal
      <4>1. s \in Commits
        BY DEF IsState, CommitsOK
      <4> QED
        BY <3>2, <4>1 DEF Commits
    <3> HIDE DEF R
    <3> QED
      BY <3>1, <3>2 DEF Reveals, x
  <2> QED
    BY <2>2, <2>3
<1> QED
  BY <1>2, <1>3

LEMMA InitBacked ==
  ASSUME Init
  PROVE  Backed
<1>1. Crashed = {}
  BY DEF Init, Crashed
<1>2. Documents
  <2>1. \A a \in Authorities : docs[a] = NoDoc /\ latest[a].current_srv = OldSrv
    BY DEF Init, NoDoc
  <2> QED
    BY <2>1, NothingIsSupported DEF Documents, Supported
<1>3. Ballots
  <2>1. /\ DOMAIN pending = Authorities
        /\ \A a \in Authorities :
             /\ post[a] = NoVote /\ DOMAIN pending[a] = Authorities
             /\ \A b \in Authorities : pending[a][b] = NoVote
    BY DEF Init, NoVotes
  <2> QED
    BY <2>1, NothingIsSupported DEF Ballots
<1>4. ASSUME NEW a \in Authorities
      PROVE  Reveals(a, mem[a]) /\ Vouched(Crashed, a, mem[a].current_srv)
  <2> DEFINE c == [auth |-> a, ts |-> TotalRounds, n |-> 0, reveal |-> TRUE]
  <2>1. mem[a].commits = {c} /\ mem[a].current_srv = FirstSrv
    BY DEF Init
  <2>2. c.auth = a /\ c.reveal
    OBVIOUS
  <2> HIDE DEF c
  <2>3. \E r \in FirstSrv.reveals : r.auth = a
    <3>1. FirstSrv.reveals = {[auth |-> b, ts |-> 0, n |-> 0] : b \in Authorities}
      BY DEF FirstSrv
    <3>2. [auth |-> a, ts |-> 0, n |-> 0] \in FirstSrv.reveals
      BY <3>1
    <3> QED
      BY <3>2
  <2> QED
    BY <2>1, <2>2, <2>3 DEF Reveals, Vouched, Backers
<1> QED
  BY <1>2, <1>3, <1>4 DEF Backed, Memories

LEMMA CrashBacked ==
  ASSUME Inv, Backed, NEW a \in Authorities, Crash(a)
  PROVE  Backed'
<1>1. Processes
  BY DEF Inv, Shape
<1>2. /\ crashes' = [crashes EXCEPT ![a] = @ + 1] /\ mem' = [mem EXCEPT ![a] = NoState]
      /\ pending' = [pending EXCEPT ![a] = NoVotes]
      /\ docs' = docs /\ latest' = latest /\ post' = post
  BY DEF Crash
<1>3. Crashed \subseteq Crashed' /\ Crashed' \subseteq Authorities /\ a \in Crashed'
  <2>1. crashes'[a] > 0
    BY <1>1, <1>2 DEF Processes
  <2> QED
    BY <1>1, <1>2, <2>1, CrashedGrows DEF Crashed
<1>4. Documents'
  BY <1>2, <1>3, KeepsDocuments DEF Backed
<1>5. Ballots'
  <2>1. /\ DOMAIN pending' = Authorities
        /\ \A c \in Authorities :
             /\ DOMAIN pending'[c] = Authorities
             /\ \A b \in Authorities : pending'[c][b] \in {pending[c][b], NoVote}
    BY <1>2 DEF Backed, Ballots, NoVotes
  <2> QED
    BY <1>2, <1>3, <2>1, KeepsBallots DEF Backed
<1>6. Memories'
  <2>1. \A b \in Authorities \ Crashed' : mem'[b] = mem[b]
    BY <1>1, <1>2, <1>3 DEF Processes
  <2> QED
    BY <1>3, <2>1, KeepsMemories DEF Backed
<1> QED
  BY <1>4, <1>5, <1>6 DEF Backed

LEMMA RestartBacked ==
  ASSUME Inv, Backed, NEW a \in Authorities, sr_init(a)
  PROVE  Backed'
<1>1. Processes
  BY DEF Inv, Shape
<1> DEFINE W == sr_state_init(a)
<1>2. /\ a \notin up /\ Runs(a, W)
      /\ docs' = docs /\ latest' = latest /\ post' = post /\ pending' = pending
  BY DEF sr_init
<1> HIDE DEF W
<1>3. crashes' = crashes \/ crashes' = [crashes EXCEPT ![a] = @ + 1]
  BY <1>2 DEF Runs
<1>4. Crashed \subseteq Crashed' /\ Crashed' \subseteq Authorities
  BY <1>1, <1>3, CrashedGrows
<1>5. a \in Crashed'
  <2>1. a \in Crashed
    BY <1>1, <1>2 DEF Processes, Crashed
  <2> QED
    BY <1>4, <2>1
<1>6. \A b \in Authorities \ Crashed' : mem'[b] = mem[b]
  BY <1>1, <1>2, <1>5, RunsFrame
<1>7. Documents'
  BY <1>2, <1>4, KeepsDocuments DEF Backed
<1>8. Ballots'
  BY <1>2, <1>4, KeepsBallots DEF Backed, Ballots
<1>9. Memories'
  BY <1>4, <1>6, KeepsMemories DEF Backed
<1> QED
  BY <1>7, <1>8, <1>9 DEF Backed

LEMMA VoteBacked ==
  ASSUME Inv, Backed, NEW a \in Authorities, dirvote_perform_vote(a)
  PROVE  Backed'
<1>1. Processes /\ DOMAIN post = Authorities
  BY DEF Inv, Shape
<1> DEFINE vote == sr_get_string_for_vote(a)
<1>2. /\ post' = [post EXCEPT ![a] = vote] /\ pending' = [pending EXCEPT ![a][a] = vote]
      /\ crashes' = crashes /\ docs' = docs /\ latest' = latest
  BY DEF dirvote_perform_vote
<1>3. vote.current_srv = mem[a].current_srv
  BY DEF sr_get_string_for_vote
<1> HIDE DEF vote
<1>4. Crashed' = Crashed /\ Crashed \subseteq Authorities
  BY <1>1, <1>2, CrashedSame
<1>5. \A b \in Authorities : mem'[b] = mem[b]
  BY VoteStep
<1>6. Vouched(Crashed, a, vote.current_srv)
  <2>1. CASE a \in Crashed
    BY <2>1 DEF Vouched, Backers
  <2>2. CASE a \notin Crashed
    BY <1>3, <2>2 DEF Backed, Memories
  <2> QED
    BY <2>1, <2>2
<1>7. Documents'
  BY <1>2, <1>4, KeepsDocuments DEF Backed
<1>8. Memories'
  BY <1>4, <1>5, KeepsMemories DEF Backed
<1>9. Ballots'
  <2>1. /\ post'[a] = vote /\ \A b \in Authorities \ {a} : post'[b] = post[b]
    BY <1>1, <1>2
  <2>2. /\ DOMAIN pending' = Authorities /\ DOMAIN pending'[a] = Authorities
        /\ pending'[a][a] = vote
        /\ \A b \in Authorities \ {a} : pending'[a][b] = pending[a][b]
        /\ \A c \in Authorities \ {a} : pending'[c] = pending[c]
    BY <1>2 DEF Backed, Ballots
  <2>3. ASSUME NEW c \in Authorities
        PROVE  /\ Vouched(Crashed', c, post'[c].current_srv)
               /\ DOMAIN pending'[c] = Authorities
               /\ \A b \in Authorities : Vouched(Crashed', b, pending'[c][b].current_srv)
    <3>1. CASE c = a
      BY <1>4, <1>6, <2>1, <2>2, <3>1 DEF Backed, Ballots
    <3>2. CASE c # a
      BY <1>4, <2>1, <2>2, <3>2 DEF Backed, Ballots
    <3> QED
      BY <3>1, <3>2
  <2> QED
    BY <2>2, <2>3 DEF Ballots
<1> QED
  BY <1>7, <1>8, <1>9 DEF Backed

LEMMA AddVoteBacked ==
  ASSUME Inv, Backed, NEW a \in Authorities, NEW b \in Authorities, dirvote_add_vote(a, b)
  PROVE  Backed'
<1>1. Processes
  BY DEF Inv, Shape
<1> DEFINE m == AddedTo(mem[a], pending[a][b], post[b], b)
<1>2. /\ a \in up /\ mem' = [mem EXCEPT ![a] = m]
      /\ pending' = [pending EXCEPT ![a][b] = post[b]]
      /\ crashes' = crashes /\ docs' = docs /\ latest' = latest /\ post' = post
  BY DEF dirvote_add_vote
<1>3. IsState(mem[a])
  BY <1>2 DEF Inv, Authority, Memory
<1>4. (Reveals(a, mem[a]) => Reveals(a, m)) /\ m.current_srv = mem[a].current_srv
  BY <1>3, HandledKeeps DEF AddedTo
<1> HIDE DEF m
<1>5. Crashed' = Crashed /\ Crashed \subseteq Authorities
  BY <1>1, <1>2, CrashedSame
<1>6. Documents'
  BY <1>2, <1>5, KeepsDocuments DEF Backed
<1>7. Ballots'
  <2>1. /\ DOMAIN pending' = Authorities
        /\ \A c \in Authorities :
             /\ DOMAIN pending'[c] = Authorities
             /\ \A d \in Authorities : pending'[c][d] \in {pending[c][d], post[d]}
    BY <1>2 DEF Backed, Ballots
  <2> QED
    BY <1>2, <1>5, <2>1, KeepsBallots DEF Backed
<1>8. Memories'
  <2>1. mem'[a] = m /\ \A c \in Authorities \ {a} : mem'[c] = mem[c]
    BY <1>1, <1>2 DEF Processes
  <2>2. ASSUME NEW c \in Authorities \ Crashed'
        PROVE  /\ Reveals(c, mem[c]) => Reveals(c, mem'[c])
               /\ mem'[c].current_srv = mem[c].current_srv
    BY <1>4, <2>1
  <2> QED
    BY <1>5, <2>2, KeepsMemories DEF Backed
<1> QED
  BY <1>6, <1>7, <1>8 DEF Backed

LEMMA ComputeBacked ==
  ASSUME Inv, Backed, NEW a \in Authorities, dirvote_compute_consensuses(a)
  PROVE  Backed'
<1>1. Processes /\ DOMAIN docs = Authorities
  BY DEF Inv, Shape
<1> DEFINE new == IF Cardinality({b \in Authorities : pending[a][b] # NoVote}) >= Majority
                  THEN networkstatus_compute_consensus(a) ELSE NoDoc
           voters == {b \in Authorities : pending[a][b] # NoVote}
           srvs == [b \in voters |-> pending[a][b]["current_srv"]]
<1>2. /\ docs' = [docs EXCEPT ![a] = new]
      /\ crashes' = crashes /\ mem' = mem /\ post' = post /\ pending' = pending
      /\ latest' = latest
  BY DEF dirvote_compute_consensuses
<1>3. Crashed' = Crashed /\ Crashed \subseteq Authorities
  BY <1>1, <1>2, CrashedSame
<1>4. Supported(Crashed, new.current_srv)
  <2>1. networkstatus_compute_consensus(a).current_srv
          = get_majority_srv_from_votes(mem[a], srvs)
    BY DEF networkstatus_compute_consensus
  <2>2. /\ voters \subseteq Authorities /\ DOMAIN srvs = voters
        /\ \A b \in voters : Vouched(Crashed, b, srvs[b])
    BY DEF Backed, Ballots
  <2> HIDE DEF srvs, voters
  <2>3. Supported(Crashed, get_majority_srv_from_votes(mem[a], srvs))
    BY <1>3, <2>2, MajorityIsSupported
  <2>4. Supported(Crashed, NoDoc.current_srv)
    BY NothingIsSupported
  <2> QED
    BY <2>1, <2>3, <2>4
<1> HIDE DEF new
<1>5. Documents'
  <2>1. docs'[a] = new /\ \A b \in Authorities \ {a} : docs'[b] = docs[b]
    BY <1>1, <1>2
  <2> QED
    BY <1>2, <1>3, <1>4, <2>1 DEF Backed, Documents
<1>6. Ballots'
  BY <1>2, <1>3 DEF Backed, Ballots
<1>7. Memories'
  BY <1>2, <1>3 DEF Backed, Memories, Reveals
<1> QED
  BY <1>5, <1>6, <1>7 DEF Backed

LEMMA PublishBacked ==
  ASSUME Inv, Backed, NEW a \in Authorities, PublishConsensus(a)
  PROVE  Backed'
<1>1. Processes /\ DOMAIN latest = Authorities
  BY DEF Inv, Shape
<1>2. PICK published \in BOOLEAN :
        /\ latest' = [latest EXCEPT ![a] = IF published THEN docs[a] ELSE @]
        /\ Runs(a, sr_act_post_consensus(mem[a], a, latest'[a],
                     IF published THEN slot + 1 ELSE slot))
  BY DEF PublishConsensus
<1>3. /\ a \in todo /\ pending' = [pending EXCEPT ![a] = NoVotes]
      /\ post' = post /\ docs' = docs
  BY DEF PublishConsensus
<1>4. a \in up
  BY <1>3 DEF Inv, Shape
<1>5. /\ latest'[a] \in {docs[a], latest[a]}
      /\ \A b \in Authorities \ {a} : latest'[b] = latest[b]
  BY <1>1, <1>2
<1>6. Supported(Crashed, latest'[a].current_srv)
  BY <1>5 DEF Backed, Documents
<1> DEFINE t == IF published THEN slot + 1 ELSE slot
<1>7. t \in {slot, slot + 1} /\ Runs(a, sr_act_post_consensus(mem[a], a, latest'[a], t))
  BY <1>2
<1> HIDE DEF t
<1>8. Memories' /\ Crashed \subseteq Crashed' /\ Crashed' \subseteq Authorities
  BY <1>4, <1>6, <1>7, ConsensusBacked DEF Backed
<1>9. Documents'
  <2>1. \A b \in Authorities : \E c \in Authorities : latest'[b] \in {docs[c], latest[c]}
    BY <1>5
  <2> QED
    BY <1>3, <1>8, <2>1, KeepsDocuments DEF Backed
<1>10. Ballots'
  <2>1. /\ DOMAIN pending' = Authorities
        /\ \A c \in Authorities :
             /\ DOMAIN pending'[c] = Authorities
             /\ \A b \in Authorities : pending'[c][b] \in {pending[c][b], NoVote}
    BY <1>3 DEF Backed, Ballots, NoVotes
  <2> QED
    BY <1>3, <1>8, <2>1, KeepsBallots DEF Backed
<1> QED
  BY <1>8, <1>9, <1>10 DEF Backed

LEMMA FetchBacked ==
  ASSUME Inv, Backed, NEW a \in Authorities, FetchConsensus(a)
  PROVE  Backed'
<1>1. Processes /\ DOMAIN latest = Authorities
  BY DEF Inv, Shape
<1>2. PICK b \in Authorities :
        /\ latest' = [latest EXCEPT ![a] = latest[b]]
        /\ Runs(a, sr_act_post_consensus(mem[a], a, latest[b], slot + 1))
  BY DEF FetchConsensus
<1>3. /\ a \in up /\ pending' = [pending EXCEPT ![a] = IF a \in up' THEN @ ELSE NoVotes]
      /\ post' = post /\ docs' = docs
  BY DEF FetchConsensus
<1>4. Supported(Crashed, latest[b].current_srv) /\ slot + 1 \in {slot, slot + 1}
  BY DEF Backed, Documents
<1>5. Memories' /\ Crashed \subseteq Crashed' /\ Crashed' \subseteq Authorities
  BY <1>2, <1>3, <1>4, ConsensusBacked DEF Backed
<1>6. Documents'
  <2>1. \A c \in Authorities : \E d \in Authorities : latest'[c] \in {docs[d], latest[d]}
    BY <1>1, <1>2
  <2> QED
    BY <1>3, <1>5, <2>1, KeepsDocuments DEF Backed
<1>7. Ballots'
  <2>1. /\ DOMAIN pending' = Authorities
        /\ \A c \in Authorities :
             /\ DOMAIN pending'[c] = Authorities
             /\ \A d \in Authorities : pending'[c][d] \in {pending[c][d], NoVote}
    BY <1>3 DEF Backed, Ballots, NoVotes
  <2> QED
    BY <1>3, <1>5, <2>1, KeepsBallots DEF Backed
<1> QED
  BY <1>5, <1>6, <1>7 DEF Backed

(* The clock changes neither memories nor consensuses; it discards votes.  *)
LEMMA ClockBacked ==
  ASSUME Inv, Backed, crashes' = crashes, mem' = mem, latest' = latest, pending' = pending,
         \/ post' = post /\ docs' = docs
         \/ post' = NoVotes /\ docs' = [a \in Authorities |-> NoDoc]
  PROVE  Backed'
<1>1. Crashed' = Crashed /\ Crashed \subseteq Authorities
  BY CrashedSame DEF Inv, Shape
<1>2. \A a \in Authorities : docs'[a] \in {docs[a], NoDoc} /\ post'[a] \in {post[a], NoVote}
  BY DEF NoVotes
<1>3. Documents'
  BY <1>1, <1>2, KeepsDocuments DEF Backed
<1>4. Ballots'
  BY <1>1, <1>2, KeepsBallots DEF Backed, Ballots
<1>5. Memories'
  BY <1>1, KeepsMemories DEF Backed
<1> QED
  BY <1>3, <1>4, <1>5 DEF Backed

LEMMA StepBacked ==
  ASSUME Inv, Backed, [Next]_vars
  PROVE  Backed'
<1>1. CASE \E a \in Authorities :
             \/ Crash(a) \/ sr_init(a)
             \/ dirvote_perform_vote(a) \/ dirvote_compute_consensuses(a)
             \/ PublishConsensus(a) \/ FetchConsensus(a)
             \/ \E b \in Authorities : dirvote_add_vote(a, b)
  BY <1>1, CrashBacked, RestartBacked, VoteBacked, ComputeBacked, PublishBacked,
     FetchBacked, AddVoteBacked
<1>2. CASE EndVoting
  BY <1>2, ClockBacked DEF EndVoting
<1>3. CASE EndBuild
  BY <1>3, ClockBacked DEF EndBuild
<1>4. CASE EndPublish
  BY <1>4, ClockBacked DEF EndPublish
<1>5. CASE Horizon \/ UNCHANGED vars
  BY <1>5, ClockBacked DEF Horizon, vars
<1> QED
  BY <1>1, <1>2, <1>3, <1>4, <1>5 DEF Next

(* For any number of authorities, rounds, losses and crashes: while fewer  *)
(* than a majority have crashed, every current shared random value that    *)
(* gets into a consensus has in it the reveal of an authority that has not *)
(* (sr_compute_srv, should_keep_srv).  An authority only votes for a value *)
(* that was in a consensus before or that it computed itself, from its own *)
(* reveal among others; so whoever brings a value into a consensus is, by  *)
(* majority, in the value or has crashed.                                  *)
THEOREM PublishedIsRandom == Spec => []PublishedSrvIsRandom
<1>1. Init => Backed
  BY InitBacked
<1>2. Inv /\ Backed /\ [Next]_vars => Backed'
  BY StepBacked
<1>3. Inv /\ Backed => PublishedSrvIsRandom
  <2> SUFFICES ASSUME Inv, Backed, Cardinality(Crashed) < Majority,
                      NEW a \in Authorities, latest[a].current_srv \notin {NoSrv, OldSrv}
               PROVE  \E c \in latest[a].current_srv.reveals : c.auth \notin Crashed
    BY DEF PublishedSrvIsRandom, Crashed
  <2> DEFINE v == latest[a].current_srv
  <2>1. Cardinality(Backers(Crashed, v)) >= Majority
    BY DEF Backed, Documents, Supported
  <2>2. SUFFICES ASSUME \A c \in v.reveals : c.auth \in Crashed
                 PROVE  FALSE
    OBVIOUS
  <2>3. Crashed \subseteq Authorities
    BY DEF Crashed
  <2> HIDE DEF v
  <2>4. Backers(Crashed, v) = Crashed
    BY <2>2 DEF Backers
  <2>5. Cardinality(Crashed) \in Nat
    <3>1. Crashed \in SUBSET Authorities
      BY <2>3
    <3> QED
      BY <3>1, SharedRandomAssumption, FS_Subset, FS_CardinalityType
  <2> QED
    BY <2>1, <2>4, <2>5, MajorityIsNat
<1> QED
  BY <1>1, <1>2, <1>3, InvHolds, PTL DEF Spec

-----------------------------------------------------------------------------
(* Loss.  Without a crash, and while every authority gets each consensus   *)
(* before voting starts, a commit that an authority has not got costs a    *)
(* lost vote in every round of the run so far.                             *)

Calm == /\ \A a \in Authorities : crashes[a] = 0
        /\ misses = 0 /\ losses < SHARED_RANDOM_N_ROUNDS

Run(t) == t \div TotalRounds
Start(t) == TotalRounds * Run(t)

(* The rounds of voting that have ended, and the current one.              *)
Elapsed == slot + (IF stage = "build" THEN 2 ELSE 1)

Ready(a) == ~(stage = "publish" /\ a \in todo)

Has(m, b) == \E c \in m.commits : c.auth = b

(* The authorities go through the run together, or one round late when     *)
(* there was no consensus.                                                 *)
Together ==
  /\ stage # "publish" =>
       \A a, b \in Authorities :
         /\ mem[a].valid_after = mem[b].valid_after /\ latest[a] = latest[b]
         /\ mem[a].valid_after >= slot
         /\ mem[a].valid_after = slot => losses >= 1
  /\ stage = "publish" =>
       /\ \A a, b \in todo : mem[a].valid_after = mem[b].valid_after
       /\ \A a \in todo : /\ mem[a].valid_after \in {slot - 1, slot}
                          /\ mem[a].valid_after = slot - 1 => losses >= 1
       /\ \A a \in Authorities \ todo :
            /\ mem[a].valid_after >= slot
            /\ mem[a].valid_after = slot + 1 => latest[a].valid_after = slot

(* What an authority has not learned has been lost in every round.         *)
LearnedInTime ==
  \A a, b \in Authorities :
    LET late == Elapsed - Start(mem[a].valid_after)
    IN  /\ ~Has(mem[a], b) => losses >= late
        /\ ~Reveals(b, mem[a]) => losses >= late - SHARED_RANDOM_N_ROUNDS

(* Authorities in the same run know the same commitments; one that is      *)
(* ahead of another has only just begun its run.                           *)
Agreed(m, x) ==
  \A c \in m.commits, d \in x.commits : c.auth = d.auth => Commitment(c) = Commitment(d)

Alone(a, m) == \A c \in m.commits : c.auth = a

CommitsAgree ==
  \A a, b \in Authorities :
    /\ Run(mem[a].valid_after) = Run(mem[b].valid_after) => Agreed(mem[a], mem[b])
    /\ Run(mem[a].valid_after) < Run(mem[b].valid_after) => Alone(b, mem[b])

(* Votes of the current round, and what has been taken from them.          *)
Got(a, b) == IF mem[a].phase = COMMIT THEN Has(mem[a], b) ELSE Reveals(b, mem[a])

Posted(b) ==
  /\ \A c \in post[b].commits : c.auth = b =>
       \E d \in mem[b].commits : Commitment(c) = Commitment(d)
  /\ \E c \in post[b].commits : c.auth = b /\ (c.reveal <=> mem[b].phase = REVEAL)

Cast ==
  /\ stage = "vote" =>
       /\ \A b \in todo : post[b] = NoVote
       /\ \A b \in Authorities \ todo : post[b] # NoVote /\ Posted(b)
       /\ \A a, b \in Authorities :
            /\ pending[a][b] \in {NoVote, post[b]}
            /\ pending[a][b] # NoVote => Got(a, b)
  /\ stage = "publish" =>
       \A a \in Authorities \ todo, b \in Authorities : pending[a][b] = NoVote

(* Without a loss all build the same consensus, and one of them gets it.   *)
Built(m, p) ==
  LET voters == {b \in Authorities : p[b] # NoVote}
      Srvs(f) == [b \in voters |-> p[b][f]]
  IN  [valid_after |-> slot + 1,
       votes |-> {<<b, p[b].pub>> : b \in voters},
       previous_srv |-> get_majority_srv_from_votes(m, Srvs("previous_srv")),
       current_srv |-> get_majority_srv_from_votes(m, Srvs("current_srv"))]

Signers(d) == {b \in Authorities : docs[b] = d}

Agreement ==
  /\ \A a \in Authorities : latest[a].valid_after >= 1
  /\ stage = "build" /\ losses = 0 =>
       /\ \A a, b \in Authorities : pending[a][b] = post[b] /\ post[b] # NoVote
       /\ \A a \in Authorities \ todo : docs[a] = Built(mem[a], pending[a])
  /\ stage = "publish" =>
       /\ losses = 0 =>
            /\ \A a, b \in Authorities : docs[a] = docs[b] /\ docs[a] # NoDoc
            /\ todo # Authorities => \E b \in Authorities : latest[b].valid_after = slot
       /\ \A a \in Authorities : latest[a].valid_after = slot =>
            Cardinality(Signers(latest[a])) >= Majority
       /\ \A a, b \in Authorities :
            latest[a].valid_after < slot /\ latest[b].valid_after < slot =>
              latest[a] = latest[b]

(* The values that authorities have computed.                              *)
Commitments(m) == {Commitment(c) : c \in m.commits}

Values ==
  /\ \A a \in Authorities : mem[a].is_srv_fresh =>
       LET v == mem[a].current_srv
       IN  /\ v = [reveals |-> v.reveals, prev |-> <<latest[a].current_srv>>]
           /\ {c.auth : c \in v.reveals} = Authorities
  /\ \A a, b \in Authorities :
       mem[a].is_srv_fresh /\ mem[b].is_srv_fresh /\ (Ready(a) <=> Ready(b)) =>
         mem[a].current_srv.reveals = mem[b].current_srv.reveals
  /\ stage = "publish" =>
       \A b \in Authorities \ todo : mem[b].is_srv_fresh =>
         /\ Start(mem[b].valid_after) >= slot
         /\ \A a \in todo : mem[b].valid_after > mem[a].valid_after
         /\ \A a \in Authorities : Run(mem[a].valid_after) # Run(mem[b].valid_after) =>
              Commitments(mem[a]) = mem[b].current_srv.reveals
  /\ losses = 0 =>
       \A a \in Authorities : Ready(a) /\ mem[a].valid_after = slot + 1 =>
         (mem[a].is_srv_fresh <=> (slot + 1) % TotalRounds = 0)

(* The counters are never negative.                                        *)
Counted == losses \in Nat /\ misses \in Nat

Tolerant ==
  /\ up = Authorities
  /\ Together /\ LearnedInTime /\ CommitsAgree /\ Cast /\ Agreement /\ Values

(* What every step starts from.                                            *)
Good == Inv /\ Backed /\ Counted /\ Calm /\ Tolerant

-----------------------------------------------------------------------------
(* The times of rounds and runs.                                           *)

LEMMA RunTimes ==
  ASSUME NEW t \in Nat
  PROVE  /\ Run(t) \in Nat /\ Start(t) \in Nat
         /\ Start(t) <= t /\ t < Start(t) + TotalRounds
         /\ t % TotalRounds = t - Start(t)
         /\ Phase(t) \in {COMMIT, REVEAL} /\ COMMIT # REVEAL
         /\ Phase(t) = COMMIT <=> t < Start(t) + SHARED_RANDOM_N_ROUNDS
         /\ Phase(t) = REVEAL <=> t >= Start(t) + SHARED_RANDOM_N_ROUNDS
<1>1. TotalRounds \in Nat /\ TotalRounds > 0 /\ SHARED_RANDOM_N_ROUNDS \in Nat
  BY Rounds
<1>2. /\ t \div TotalRounds \in Nat /\ t % TotalRounds \in 0 .. TotalRounds - 1
      /\ t = TotalRounds * (t \div TotalRounds) + (t % TotalRounds)
  BY <1>1, DivMod
<1>3. Run(t) \in Nat /\ Start(t) \in Nat /\ t = Start(t) + (t % TotalRounds)
  BY <1>1, <1>2 DEF Run, Start
<1>4. /\ Phase(t) \in {COMMIT, REVEAL} /\ COMMIT # REVEAL
      /\ Phase(t) = COMMIT <=> t % TotalRounds < SHARED_RANDOM_N_ROUNDS
      /\ Phase(t) = REVEAL <=> t % TotalRounds >= SHARED_RANDOM_N_ROUNDS
  BY Phases
<1> DEFINE r == t % TotalRounds
<1>5. r \in 0 .. TotalRounds - 1 /\ t = Start(t) + r
      /\ (Phase(t) = COMMIT <=> r < SHARED_RANDOM_N_ROUNDS)
      /\ (Phase(t) = REVEAL <=> r >= SHARED_RANDOM_N_ROUNDS)
  BY <1>2, <1>3, <1>4
<1> HIDE DEF r
<1>6. /\ Start(t) <= t /\ t < Start(t) + TotalRounds /\ r = t - Start(t)
      /\ Phase(t) = COMMIT <=> t < Start(t) + SHARED_RANDOM_N_ROUNDS
      /\ Phase(t) = REVEAL <=> t >= Start(t) + SHARED_RANDOM_N_ROUNDS
  BY <1>1, <1>3, <1>5
<1> QED
  BY <1>3, <1>4, <1>6 DEF r

LEMMA LaterRun ==
  ASSUME NEW t \in Nat, NEW u \in Nat, t <= u
  PROVE  /\ Run(t) <= Run(u) /\ Start(t) <= Start(u)
         /\ Run(t) = Run(u) <=> u < Start(t) + TotalRounds
         /\ Run(t) = Run(u) => Start(t) = Start(u)
         /\ Run(t) # Run(u) => Start(u) >= Start(t) + TotalRounds
         /\ u < Start(t) + TotalRounds + TotalRounds => Run(u) <= Run(t) + 1
         /\ Run(u) = Run(t) + 1 => Start(u) = Start(t) + TotalRounds
<1>1. TotalRounds \in Nat /\ TotalRounds > 0
  BY Rounds
<1>2. /\ Run(t) \in Nat /\ Start(t) \in Nat /\ Start(t) <= t
      /\ Run(u) \in Nat /\ Start(u) \in Nat /\ Start(u) <= u /\ u < Start(u) + TotalRounds
  BY RunTimes
<1>3. Run(t) <= Run(u)
  BY <1>1, <1>2, Lexicographic DEF Run
<1> DEFINE k == Run(u) - Run(t)
<1>4. k \in Nat /\ Run(u) = Run(t) + k
  BY <1>2, <1>3
<1> HIDE DEF k
<1>5. Start(u) = Start(t) + TotalRounds * k
  BY <1>1, <1>2, <1>4 DEF Start
<1>6. /\ k = 0 => TotalRounds * k = 0
      /\ k = 1 => TotalRounds * k = TotalRounds
      /\ k >= 1 => TotalRounds * k >= TotalRounds
      /\ k >= 2 => TotalRounds * k >= TotalRounds + TotalRounds
      /\ TotalRounds * k \in Nat
  <2>1. k >= 1 => TotalRounds * k = TotalRounds + TotalRounds * (k - 1) /\ TotalRounds * (k - 1) \in Nat
    BY <1>1, <1>4
  <2>2. k >= 2 => TotalRounds * k = TotalRounds + TotalRounds + TotalRounds * (k - 2)
                  /\ TotalRounds * (k - 2) \in Nat
    BY <1>1, <1>4
  <2>3. TotalRounds * 0 = 0 /\ TotalRounds * 1 = TotalRounds /\ TotalRounds * k \in Nat
    BY <1>1, <1>4
  <2> QED
    BY <1>1, <1>4, <2>1, <2>2, <2>3
<1> DEFINE p == TotalRounds * k
<1>7. /\ Start(u) = Start(t) + p /\ p \in Nat
      /\ (k = 0 => p = 0) /\ (k = 1 => p = TotalRounds) /\ (k >= 1 => p >= TotalRounds)
      /\ (k >= 2 => p >= TotalRounds + TotalRounds)
  BY <1>5, <1>6
<1> HIDE DEF p
<1> QED
  BY <1>1, <1>2, <1>4, <1>7

(* A new run begins exactly when a reveal phase is followed by a commit    *)
(* phase, also when a round was skipped.                                   *)
LEMMA NewRunTimes ==
  ASSUME NEW v \in Nat, NEW t \in Nat, v < t, t <= v + 2,
         t = v + 2 => SHARED_RANDOM_N_ROUNDS >= 2
  PROVE  /\ Phase(t) = COMMIT /\ Phase(v) = REVEAL
              => Run(t) = Run(v) + 1 /\ Start(t) = Start(v) + TotalRounds /\ Start(t) > v
         /\ ~(Phase(t) = COMMIT /\ Phase(v) = REVEAL)
              => Run(t) = Run(v) /\ Start(t) = Start(v)
<1>1. /\ SHARED_RANDOM_N_ROUNDS \in Nat /\ SHARED_RANDOM_N_ROUNDS >= 1
      /\ TotalRounds \in Nat /\ TotalRounds = SHARED_RANDOM_N_ROUNDS + SHARED_RANDOM_N_ROUNDS
  BY Rounds
<1>2. /\ Run(t) \in Nat /\ Start(t) \in Nat /\ Start(t) <= t /\ t < Start(t) + TotalRounds
      /\ Run(v) \in Nat /\ Start(v) \in Nat /\ Start(v) <= v /\ v < Start(v) + TotalRounds
  BY RunTimes
<1>3. /\ Phase(t) = COMMIT <=> t < Start(t) + SHARED_RANDOM_N_ROUNDS
      /\ Phase(v) = REVEAL <=> v >= Start(v) + SHARED_RANDOM_N_ROUNDS
  BY RunTimes
<1>4. /\ Run(v) <= Run(t)
      /\ Run(v) = Run(t) => Start(v) = Start(t)
      /\ Run(v) # Run(t) => Start(t) >= Start(v) + TotalRounds
      /\ t < Start(v) + TotalRounds + TotalRounds => Run(t) <= Run(v) + 1
      /\ Run(t) = Run(v) + 1 => Start(t) = Start(v) + TotalRounds
  BY LaterRun
<1>5. CASE Run(t) = Run(v)
  BY <1>1, <1>2, <1>3, <1>4, <1>5
<1>6. CASE Run(t) # Run(v)
  <2>1. Start(t) >= Start(v) + TotalRounds
    BY <1>4, <1>6
  <2>2. t < Start(v) + TotalRounds + TotalRounds
    BY <1>1, <1>2, <2>1
  <2>3. Run(t) = Run(v) + 1 /\ Start(t) = Start(v) + TotalRounds
    BY <1>2, <1>4, <1>6, <2>2
  <2>4. v >= Start(v) + SHARED_RANDOM_N_ROUNDS /\ t < Start(t) + SHARED_RANDOM_N_ROUNDS
    BY <1>1, <1>2, <2>3
  <2> QED
    BY <1>2, <1>3, <2>3, <2>4
<1> QED
  BY <1>5, <1>6

LEMMA FirstRound ==
  ASSUME NEW v \in Nat
  PROVE  Phase(v + 1) = COMMIT /\ Phase(v) = REVEAL <=> (v + 1) % TotalRounds = 0
<1>1. /\ SHARED_RANDOM_N_ROUNDS \in Nat /\ SHARED_RANDOM_N_ROUNDS >= 1
      /\ TotalRounds \in Nat /\ TotalRounds = SHARED_RANDOM_N_ROUNDS + SHARED_RANDOM_N_ROUNDS
  BY Rounds
<1>2. /\ Start(v + 1) \in Nat /\ (v + 1) % TotalRounds = (v + 1) - Start(v + 1)
      /\ Start(v) \in Nat /\ v < Start(v) + TotalRounds /\ Start(v) <= v
      /\ Start(v + 1) <= v + 1
  BY RunTimes
<1>3. /\ Phase(v + 1) = COMMIT /\ Phase(v) = REVEAL => Start(v + 1) = Start(v) + TotalRounds
      /\ ~(Phase(v + 1) = COMMIT /\ Phase(v) = REVEAL) => Start(v + 1) = Start(v)
  <2>1. v < v + 1 /\ v + 1 <= v + 2 /\ (v + 1 = v + 2 => SHARED_RANDOM_N_ROUNDS >= 2)
        /\ v + 1 \in Nat
    OBVIOUS
  <2> QED
    BY <2>1, NewRunTimes
<1> QED
  BY <1>1, <1>2, <1>3

(* Two majorities have a member in common.                                 *)
LEMMA MajoritiesMeet ==
  ASSUME NEW A, A \subseteq Authorities, NEW B, B \subseteq Authorities,
         Cardinality(A) >= Majority, Cardinality(B) >= Majority
  PROVE  \E b \in A : b \in B
<1>1. IsFiniteSet(Authorities) /\ Cardinality(Authorities) \in Nat
  BY SharedRandomAssumption, FS_CardinalityType
<1>2. A \in SUBSET Authorities /\ B \in SUBSET Authorities /\ A \cup B \in SUBSET Authorities
  OBVIOUS
<1>3. IsFiniteSet(A) /\ IsFiniteSet(B) /\ Cardinality(A \cup B) <= Cardinality(Authorities)
  BY <1>1, <1>2, FS_Subset
<1>4. Cardinality(A) \in Nat /\ Cardinality(B) \in Nat
  BY <1>3, FS_CardinalityType
<1>5. Cardinality(A \cup B) = Cardinality(A) + Cardinality(B) - Cardinality(A \cap B)
  BY <1>3, FS_Union
<1>6. \A n \in Nat : 2 * ((n \div 2) + 1) > n /\ (n \div 2) \in Nat
  OBVIOUS
<1>7. Majority \in Nat /\ Majority + Majority > Cardinality(Authorities)
  BY <1>1, <1>6 DEF Majority
<1>8. A \cap B # {}
  <2>1. SUFFICES ASSUME A \cap B = {} PROVE FALSE
    OBVIOUS
  <2>2. Cardinality(A \cap B) = 0
    BY <2>1, FS_EmptySet
  <2> DEFINE u == Cardinality(A \cup B)
             i == Cardinality(A \cap B)
             x == Cardinality(A)
             y == Cardinality(B)
             n == Cardinality(Authorities)
  <2>3. /\ x \in Nat /\ y \in Nat /\ n \in Nat /\ u = x + y - i /\ i = 0 /\ u <= n
        /\ x >= Majority /\ y >= Majority /\ Majority \in Nat /\ Majority + Majority > n
    BY <1>1, <1>3, <1>4, <1>5, <1>7, <2>2
  <2> HIDE DEF u, i, x, y, n
  <2> QED
    BY <2>3
<1> QED
  BY <1>8

-----------------------------------------------------------------------------
(* The state x that a handler ends with, of an authority a that acts on    *)
(* the consensus cons, on the way from m to the round at t.                *)
NewRun(m, t) == m.valid_after < t /\ Phase(t) = COMMIT /\ m.phase = REVEAL

Revealed(m) == {Commitment(c) : c \in {d \in m.commits : d.reveal}}

Ended(a, m, cons, t, x) ==
  /\ x.valid_after = IF t <= m.valid_after THEN m.valid_after ELSE t
  /\ NewRun(m, t) =>
       /\ x.is_srv_fresh
       /\ \E c \in Commits : c.auth = a /\ c.reveal /\ x.commits = {c}
       /\ x.current_srv = [reveals |-> Revealed(m), prev |-> <<cons.current_srv>>]
  /\ ~NewRun(m, t) => ~x.is_srv_fresh /\ x.commits = m.commits

LEMMA RotatedValue ==
  ASSUME NEW m, IsState(m)
  PROVE  /\ Rotated(m)[4].current_srv = [reveals |-> Revealed(m), prev |-> <<m.current_srv>>]
         /\ Rotated(m)[4].is_srv_fresh
<1> DEFINE r1 == [m EXCEPT !.previous_srv = NoSrv]
           r2 == [m EXCEPT !.previous_srv = m.current_srv]
           r3 == [m EXCEPT !.previous_srv = m.current_srv, !.current_srv = NoSrv]
           r4 == sr_compute_srv(r3)
<1>1. Rotated(m) = Append(<<r1, r2, r3>>, r4)
  BY DEF Rotated, state_rotate_srv
<1>2. DOMAIN r3 = MemFields /\ r3.commits = m.commits /\ r3.previous_srv = m.current_srv
  BY DEF IsState, MemFields
<1> HIDE DEF r1, r2, r3
<1>3. /\ r4.current_srv = [reveals |-> Revealed(r3), prev |-> <<r3.previous_srv>>]
      /\ r4.is_srv_fresh
  BY <1>2 DEF sr_compute_srv, MemFields, Revealed
<1>4. Revealed(r3) = Revealed(m)
  BY <1>2 DEF Revealed
<1> HIDE DEF r4
<1>5. Rotated(m)[4] = r4
  BY <1>1
<1> QED
  BY <1>2, <1>3, <1>4, <1>5

LEMMA NewRunValue ==
  ASSUME NEW a \in Authorities, NEW m, IsState(m), slot \in Nat, NEW t \in {slot, slot + 1},
         m.phase = REVEAL, crashes[a] \in Nat
  PROVE  LET x == Last(new_protocol_run(m, a, t))
         IN  /\ x.is_srv_fresh
             /\ \E c \in Commits : c.auth = a /\ c.reveal /\ x.commits = {c}
             /\ x.current_srv = [reveals |-> Revealed(m), prev |-> <<m.current_srv>>]
<1> DEFINE R == Rotated(m)
           clean == reset_state_for_new_protocol_run(R[4], t)
           c == sr_generate_our_commit(a, t)
           own == sr_state_add_commit(clean, c)
           D == <<clean, own>>
<1>1. /\ \E S : R \in Seq(S)
      /\ Len(R) = 4 /\ R # << >> /\ \A i \in 1 .. 4 : SameCore(m, R[i])
  BY RotatedIs
<1>2. new_protocol_run(m, a, t) = R \o D
  <2>1. Last(R) = R[4]
    BY <1>1 DEF Last
  <2> QED
    BY <1>1, <2>1 DEF new_protocol_run, Rotated
<1>3. /\ R[4].current_srv = [reveals |-> Revealed(m), prev |-> <<m.current_srv>>]
      /\ R[4].is_srv_fresh
  BY RotatedValue
<1>4. IsState(R[4]) /\ t \in Nat
  BY <1>1 DEF SameCore
<1> HIDE DEF R
<1>5. IsState(clean) /\ clean.commits = {}
  BY <1>4, Reset
<1>6. clean.current_srv = R[4].current_srv /\ clean.is_srv_fresh = R[4].is_srv_fresh
  BY <1>4 DEF reset_state_for_new_protocol_run, IsState, MemFields
<1>14. c \in Commits /\ c.auth = a /\ c.reveal
  <2>1. c \in Commits /\ c.auth = a
    BY <1>4, OurCommit
  <2>2. c.reveal
    BY DEF sr_generate_our_commit
  <2> QED
    BY <2>1, <2>2
<1> HIDE DEF clean, c
<1>7. /\ own.commits = {c} /\ own.current_srv = clean.current_srv
      /\ own.is_srv_fresh = clean.is_srv_fresh
  BY <1>5 DEF sr_state_add_commit, IsState, MemFields
<1> HIDE DEF own
<1>8. PICK S : R \in Seq(S)
  BY <1>1
<1>9. R \in Seq(S \cup {clean, own}) /\ D \in Seq(S \cup {clean, own})
      /\ Len(D) = 2 /\ D[2] = own
  BY <1>8
<1> HIDE DEF D
<1>10. /\ Len(R \o D) = Len(R) + Len(D)
       /\ \A i \in 1 .. Len(D) : (R \o D)[Len(R) + i] = D[i]
  <2> DEFINE Y == S \cup {clean, own}
  <2>1. R \in Seq(Y) /\ D \in Seq(Y)
    BY <1>9
  <2> HIDE DEF Y
  <2> QED
    BY <2>1, ConcatIndex
<1>11. Last(R \o D) = own
  <2>1. 2 \in 1 .. Len(D) /\ Len(R) + 2 = Len(R \o D)
    BY <1>1, <1>9, <1>10
  <2> QED
    BY <1>9, <1>10, <2>1 DEF Last
<1>12. /\ own.is_srv_fresh
       /\ own.current_srv = [reveals |-> Revealed(m), prev |-> <<m.current_srv>>]
  BY <1>3, <1>6, <1>7
<1>13. \E d \in Commits : d.auth = a /\ d.reveal /\ own.commits = {d}
  BY <1>7, <1>14
<1> QED
  BY <1>2, <1>11, <1>12, <1>13

(* The state is prepared from m, which the values of cons have been set in *)
(* already.                                                                *)
LEMMA UpdateValue ==
  ASSUME NEW a \in Authorities, NEW m, IsState(m), slot \in Nat, NEW t \in {slot, slot + 1},
         crashes[a] \in Nat, m.commits # {}, ~m.is_srv_fresh,
         NEW cons, m.current_srv = cons.current_srv
  PROVE  Ended(a, m, cons, t, Last(sr_state_update(m, a, t)))
<1> DEFINE W == sr_state_update(m, a, t)
           Moved(x) == [x EXCEPT !.phase = get_sr_protocol_phase(t), !.valid_after = t]
<1>1. t \in Nat /\ m.valid_after \in Nat /\ m.phase \in {COMMIT, REVEAL}
  BY DEF IsState
<1>2. Phase(t) \in {COMMIT, REVEAL} /\ COMMIT # REVEAL
  BY <1>1, Phases
<1>3. ASSUME NEW x, IsState(x)
      PROVE  /\ Moved(x).commits = x.commits /\ Moved(x).current_srv = x.current_srv
             /\ Moved(x).is_srv_fresh = x.is_srv_fresh /\ Moved(x).valid_after = t
  BY <1>3 DEF IsState, MemFields
<1>5. CASE t <= m.valid_after
  <2>1. W = <<m>>
    BY <1>5 DEF sr_state_update
  <2>2. Last(W) = m
    BY <2>1, OneWrite
  <2>3. ~NewRun(m, t)
    BY <1>1, <1>5 DEF NewRun
  <2> HIDE DEF W
  <2>4. Ended(a, m, cons, t, Last(W))
    BY <1>5, <2>2, <2>3 DEF Ended
  <2> QED
    BY <2>4 DEF W
<1>6. CASE NewRun(m, t)
  <2> DEFINE P == new_protocol_run(m, a, t)
  <2>8. m.valid_after < t /\ Phase(t) = COMMIT /\ m.phase = REVEAL
    BY <1>6 DEF NewRun
  <2>1. (\E S : P \in Seq(S)) /\ Len(P) = 6 /\ IsState(P[6])
    BY <2>8, NewRunWrites
  <2>2. /\ Last(P).is_srv_fresh
        /\ \E c \in Commits : c.auth = a /\ c.reveal /\ Last(P).commits = {c}
        /\ Last(P).current_srv = [reveals |-> Revealed(m), prev |-> <<m.current_srv>>]
    BY <2>8, NewRunValue
  <2>3. W = Append(P, Moved(Last(P)))
    BY <1>1, <1>2, <2>8 DEF sr_state_update, Phase
  <2> HIDE DEF P, W, Moved
  <2>4. IsState(Last(P))
    BY <2>1 DEF Last
  <2>5. Last(W) = Moved(Last(P))
    BY <2>1, <2>3, LastOfAppend
  <2>6. /\ Last(W).commits = Last(P).commits /\ Last(W).current_srv = Last(P).current_srv
        /\ Last(W).is_srv_fresh = Last(P).is_srv_fresh /\ Last(W).valid_after = t
    BY <1>3, <2>4, <2>5
  <2>7. ~(t <= m.valid_after)
    BY <1>1, <2>8
  <2>9. Ended(a, m, cons, t, Last(W))
    BY <1>6, <2>2, <2>6, <2>7 DEF Ended
  <2> QED
    BY <2>9 DEF W
<1>7. CASE m.valid_after < t /\ ~NewRun(m, t)
  <2>1. W = Append(<<m>>, Moved(Last(<<m>>)))
    <3> DEFINE prepared ==
                 IF Phase(t) # m.phase
                 THEN IF Phase(t) = COMMIT THEN new_protocol_run(m, a, t) ELSE <<m>>
                 ELSE IF m.phase = COMMIT /\ m.commits = {}
                 THEN <<sr_state_add_commit(m, sr_generate_our_commit(a, t))>>
                 ELSE <<m>>
    <3>1. W = IF t <= m.valid_after THEN <<m>>
              ELSE Append(prepared, Moved(Last(prepared)))
      BY DEF sr_state_update, Phase
    <3>2. prepared = <<m>>
      BY <1>1, <1>2, <1>7 DEF NewRun
    <3> HIDE DEF prepared
    <3>3. ~(t <= m.valid_after)
      BY <1>1, <1>7
    <3> QED
      BY <3>1, <3>2, <3>3
  <2>2. Last(<<m>>) = m /\ \E S : <<m>> \in Seq(S)
    BY OneWrite
  <2> HIDE DEF W, Moved
  <2>3. Last(W) = Moved(m)
    BY <2>1, <2>2, LastOfAppend
  <2>4. /\ Last(W).commits = m.commits /\ Last(W).is_srv_fresh = m.is_srv_fresh
        /\ Last(W).valid_after = t
    BY <1>3, <2>3
  <2>7. ~(t <= m.valid_after)
    BY <1>1, <1>7
  <2>9. Ended(a, m, cons, t, Last(W))
    BY <1>7, <2>4, <2>7 DEF Ended
  <2> QED
    BY <2>9 DEF W
<1> QED
  BY <1>1, <1>5, <1>6, <1>7

LEMMA ConsensusValue ==
  ASSUME NEW a \in Authorities, NEW m, IsState(m), slot \in Nat, NEW t \in {slot, slot + 1},
         crashes[a] \in Nat, m.commits # {}, NEW cons, cons # NoDoc
  PROVE  Ended(a, m, cons, t, Last(sr_act_post_consensus(m, a, cons, t)))
<1> DEFINE noprev == [m EXCEPT !.previous_srv = NoSrv]
           clean == [noprev EXCEPT !.current_srv = NoSrv]
           prev == [clean EXCEPT !.is_srv_fresh = FALSE, !.previous_srv = cons.previous_srv]
           cur == [prev EXCEPT !.current_srv = cons.current_srv]
           P == <<noprev, clean, prev, cur>>
           U == sr_state_update(cur, a, t)
           W == sr_act_post_consensus(m, a, cons, t)
<1>1. W = P \o U
  BY DEF sr_act_post_consensus
<1>2. SameCore(m, noprev)
  BY SetSrvs
<1>3. IsState(noprev)
  BY <1>2 DEF SameCore
<1> HIDE DEF noprev
<1>4. SameCore(m, clean)
  <2>1. SameCore(noprev, clean)
    BY <1>3, SetSrvs
  <2> QED
    BY <1>2, <2>1, SameCoreTransitive
<1>5. IsState(clean)
  BY <1>4 DEF SameCore
<1> HIDE DEF clean
<1>6. SameCore(m, prev) /\ ~prev.is_srv_fresh
  <2>1. SameCore(clean, prev)
    BY <1>5, SetSrvs
  <2>2. ~prev.is_srv_fresh
    BY <1>5 DEF IsState, MemFields
  <2> QED
    BY <1>4, <2>1, <2>2, SameCoreTransitive
<1>7. IsState(prev)
  BY <1>6 DEF SameCore
<1> HIDE DEF prev
<1>8. SameCore(m, cur) /\ ~cur.is_srv_fresh /\ cur.current_srv = cons.current_srv
  <2>1. SameCore(prev, cur)
    BY <1>7, SetSrvs
  <2>2. cur.is_srv_fresh = prev.is_srv_fresh /\ cur.current_srv = cons.current_srv
    BY <1>7 DEF IsState, MemFields
  <2> QED
    BY <1>6, <2>1, <2>2, SameCoreTransitive
<1> HIDE DEF cur
<1>9. /\ IsState(cur) /\ cur.commits = m.commits /\ cur.phase = m.phase
      /\ cur.valid_after = m.valid_after
  BY <1>8 DEF SameCore
<1>10. Ended(a, cur, cons, t, Last(U))
  BY <1>8, <1>9, UpdateValue
<1>11. Writes(U, a, cur, slot, t)
  BY <1>9, UpdateWrites
<1> HIDE DEF U
<1>12. P \in Seq({noprev, clean, prev, cur})
  OBVIOUS
<1> HIDE DEF P
<1>13. PICK Z : U \in Seq(Z)
  BY <1>11 DEF Writes
<1> DEFINE Y == Z \cup {noprev, clean, prev, cur}
<1>14. P \in Seq(Y) /\ U \in Seq(Y) /\ Len(P) \in Nat /\ Len(U) \in Nat /\ Len(U) >= 1
  <2>1. P \in Seq(Y) /\ U \in Seq(Y)
    BY <1>12, <1>13
  <2> QED
    BY <1>11, <2>1 DEF Writes
<1> HIDE DEF Y, W
<1>15. /\ Len(P \o U) = Len(P) + Len(U)
       /\ \A i \in 1 .. Len(U) : (P \o U)[Len(P) + i] = U[i]
  BY <1>14, ConcatIndex
<1>16. Last(W) = Last(U)
  <2>1. Len(U) \in 1 .. Len(U)
    BY <1>14
  <2> QED
    BY <1>1, <1>15, <2>1 DEF Last
<1>17. (NewRun(cur, t) <=> NewRun(m, t)) /\ Revealed(cur) = Revealed(m)
  BY <1>9 DEF NewRun, Revealed
<1>18. Ended(a, m, cons, t, Last(W))
  BY <1>9, <1>10, <1>16, <1>17 DEF Ended
<1> QED
  BY <1>18 DEF W

-----------------------------------------------------------------------------
(* Facts of every calm state.                                              *)
LEMMA GoodFacts ==
  ASSUME Good
  PROVE  /\ slot \in Nat /\ slot >= 1 /\ losses \in Nat /\ losses < SHARED_RANDOM_N_ROUNDS
         /\ SHARED_RANDOM_N_ROUNDS \in Nat
         /\ up = Authorities /\ todo \subseteq Authorities
         /\ stage \in {"vote", "build", "publish"}
         /\ DOMAIN mem = Authorities /\ DOMAIN latest = Authorities
         /\ DOMAIN docs = Authorities /\ DOMAIN post = Authorities
         /\ DOMAIN pending = Authorities
         /\ \A a \in Authorities :
              /\ IsState(mem[a]) /\ mem[a].commits # {}
              /\ mem[a].valid_after \in Nat /\ mem[a].valid_after <= slot + 1
              /\ mem[a].phase = Phase(mem[a].valid_after)
              /\ Reveals(a, mem[a]) /\ Has(mem[a], a)
              /\ crashes[a] \in Nat
              /\ latest[a].valid_after \in Nat /\ latest[a].valid_after <= slot
              /\ DOMAIN pending[a] = Authorities
<1>1. slot \in Nat /\ slot >= 1
  BY SlotIsPositive DEF Good, Inv
<1>2. losses \in Nat /\ losses < SHARED_RANDOM_N_ROUNDS /\ SHARED_RANDOM_N_ROUNDS \in Nat
  BY Rounds DEF Good, Counted, Calm
<1>3. /\ up = Authorities /\ todo \subseteq Authorities
      /\ stage \in {"vote", "build", "publish"}
      /\ DOMAIN mem = Authorities /\ DOMAIN latest = Authorities
      /\ DOMAIN docs = Authorities /\ DOMAIN post = Authorities
      /\ DOMAIN pending = Authorities
  BY DEF Good, Inv, Shape, Processes, Tolerant, Backed, Ballots
<1>4. ASSUME NEW a \in Authorities
      PROVE  /\ IsState(mem[a]) /\ mem[a].commits # {}
             /\ mem[a].valid_after \in Nat /\ mem[a].valid_after <= slot + 1
             /\ mem[a].phase = Phase(mem[a].valid_after)
             /\ Reveals(a, mem[a]) /\ Has(mem[a], a)
             /\ crashes[a] \in Nat
             /\ latest[a].valid_after \in Nat /\ latest[a].valid_after <= slot
             /\ DOMAIN pending[a] = Authorities
  <2>1. IsState(mem[a]) /\ Dated(a, mem[a], slot)
    BY <1>3 DEF Good, Inv, Authority, Memory
  <2>2. mem[a].valid_after \in 1 .. slot + 1 /\ mem[a].phase = Phase(mem[a].valid_after)
    BY <2>1 DEF Dated
  <2>3. crashes[a] = 0
    BY DEF Good, Calm
  <2>4. a \notin Crashed
    BY <2>3 DEF Crashed
  <2>5. Reveals(a, mem[a])
    BY <2>4 DEF Good, Backed, Memories
  <2>6. Has(mem[a], a) /\ mem[a].commits # {}
    BY <2>5 DEF Reveals, Has
  <2>7. latest[a].valid_after \in 0 .. slot
    BY DEF Good, Inv, Newest
  <2>8. DOMAIN pending[a] = Authorities
    BY DEF Good, Backed, Ballots
  <2> QED
    BY <1>1, <2>1, <2>2, <2>3, <2>5, <2>6, <2>7, <2>8
<1> QED
  BY <1>1, <1>2, <1>3, <1>4

(* A handler that dies leaves a crash behind.                              *)
LEMMA CalmRuns ==
  ASSUME Good, NEW a \in Authorities, NEW W, Runs(a, W), Calm'
  PROVE  /\ mem'[a] = Last(W) /\ \A b \in Authorities \ {a} : mem'[b] = mem[b]
         /\ up' = Authorities
<1>1. crashes \in [Authorities -> Nat] /\ DOMAIN mem = Authorities /\ up = Authorities
  BY DEF Good, Inv, Shape, Processes, Tolerant
<1>2. crashes'[a] = 0
  BY DEF Calm
<1>3. crashes' # [crashes EXCEPT ![a] = @ + 1]
  BY <1>1, <1>2
<1>4. mem' = [mem EXCEPT ![a] = Last(W)] /\ up' = up \cup {a}
  BY <1>3 DEF Runs
<1> QED
  BY <1>1, <1>4

(* In the reveal phase an authority knows all commitments.                 *)
LEMMA RevealHasAll ==
  ASSUME Good, NEW a \in Authorities, mem[a].phase = REVEAL, NEW b \in Authorities
  PROVE  Has(mem[a], b)
<1> DEFINE v == mem[a].valid_after
<1>1. /\ slot \in Nat /\ losses \in Nat /\ losses < SHARED_RANDOM_N_ROUNDS
      /\ SHARED_RANDOM_N_ROUNDS \in Nat
      /\ v \in Nat /\ v <= slot + 1 /\ mem[a].phase = Phase(v)
  BY GoodFacts
<1>2. ~Has(mem[a], b) => losses >= Elapsed - Start(v)
  BY DEF Good, Tolerant, LearnedInTime
<1> HIDE DEF v
<1>3. Start(v) \in Nat /\ v >= Start(v) + SHARED_RANDOM_N_ROUNDS
  BY <1>1, RunTimes
<1>4. Elapsed \in Nat /\ Elapsed >= slot + 1
  BY <1>1 DEF Elapsed
<1> QED
  BY <1>1, <1>2, <1>3, <1>4

LEMMA LossesAreFinite ==
  ASSUME NEW S, S \subseteq Authorities \X Authorities
  PROVE  /\ IsFiniteSet(S) /\ Cardinality(S) \in Nat /\ (Cardinality(S) = 0 <=> S = {})
         /\ S # {} => Cardinality(S) >= 1
<1>1. IsFiniteSet(Authorities \X Authorities)
  BY SharedRandomAssumption, FS_Product
<1>2. IsFiniteSet(S)
  BY <1>1, FS_Subset
<1>3. Cardinality(S) \in Nat /\ (Cardinality(S) = 0 <=> S = {})
  BY <1>2, FS_CardinalityType, FS_EmptySet
<1> QED
  BY <1>2, <1>3

LEMMA LaggardsAreFinite ==
  ASSUME NEW S, S \subseteq Authorities
  PROVE  /\ IsFiniteSet(S) /\ Cardinality(S) \in Nat /\ (Cardinality(S) = 0 <=> S = {})
<1>1. IsFiniteSet(S)
  BY SharedRandomAssumption, FS_Subset
<1>2. Cardinality(S) \in Nat /\ (Cardinality(S) = 0 <=> S = {})
  BY <1>1, FS_CardinalityType, FS_EmptySet
<1> QED
  BY <1>1, <1>2

(* No step undoes a crash, a loss or a miss.                               *)
LEMMA CountsGrow ==
  ASSUME Inv, Counted, [Next]_vars
  PROVE  Counted' /\ losses' >= losses /\ misses' >= misses /\ (Calm' => Calm)
<1>1. Processes /\ up \subseteq Authorities /\ crashes \in [Authorities -> Nat]
  BY DEF Inv, Shape, Processes
<1>2. losses \in Nat /\ misses \in Nat /\ SHARED_RANDOM_N_ROUNDS \in Nat
  BY Rounds DEF Counted
<1> DEFINE Grown == /\ losses' \in Nat /\ losses' >= losses
                    /\ misses' \in Nat /\ misses' >= misses
                    /\ \/ crashes' = crashes
                       \/ \E a \in Authorities : crashes'[a] = crashes[a] + 1
<1>3. CASE Grown
  <2>1. Calm' => Calm
    <3> SUFFICES ASSUME Calm'
                 PROVE  Calm
      OBVIOUS
    <3>1. /\ \A a \in Authorities : crashes'[a] = 0
          /\ misses' = 0 /\ losses' < SHARED_RANDOM_N_ROUNDS
      BY DEF Calm
    <3>2. crashes' = crashes
      <4>1. \A a \in Authorities : crashes'[a] # crashes[a] + 1
        BY <1>1, <3>1
      <4> QED
        BY <1>3, <4>1
    <3>3. misses = 0 /\ losses < SHARED_RANDOM_N_ROUNDS
      BY <1>2, <1>3, <3>1
    <3> QED
      BY <3>1, <3>2, <3>3 DEF Calm
  <2> QED
    BY <1>3, <2>1 DEF Counted
<1>4. ASSUME NEW a \in Authorities, NEW W, Runs(a, W)
      PROVE  crashes' = crashes \/ crashes'[a] = crashes[a] + 1
  BY <1>1, <1>4 DEF Runs
<1>5. CASE \E a \in Authorities :
             \/ Crash(a) \/ sr_init(a)
             \/ dirvote_perform_vote(a) \/ dirvote_compute_consensuses(a)
             \/ PublishConsensus(a) \/ FetchConsensus(a)
             \/ \E b \in Authorities : dirvote_add_vote(a, b)
  <2>1. PICK a \in Authorities :
             \/ Crash(a) \/ sr_init(a)
             \/ dirvote_perform_vote(a) \/ dirvote_compute_consensuses(a)
             \/ PublishConsensus(a) \/ FetchConsensus(a)
             \/ \E b \in Authorities : dirvote_add_vote(a, b)
    BY <1>5
  <2>2. losses' = losses /\ misses' = misses
    BY <2>1 DEF Crash, sr_init, dirvote_perform_vote, dirvote_compute_consensuses,
                PublishConsensus, FetchConsensus, dirvote_add_vote
  <2>3. ASSUME Crash(a)
        PROVE  crashes' = crashes \/ crashes'[a] = crashes[a] + 1
    BY <1>1, <2>3 DEF Crash
  <2>4. ASSUME \/ dirvote_perform_vote(a) \/ dirvote_compute_consensuses(a)
               \/ \E b \in Authorities : dirvote_add_vote(a, b)
        PROVE  crashes' = crashes
    BY <2>4 DEF dirvote_perform_vote, dirvote_compute_consensuses, dirvote_add_vote
  <2>5. ASSUME sr_init(a) \/ PublishConsensus(a) \/ FetchConsensus(a)
        PROVE  crashes' = crashes \/ crashes'[a] = crashes[a] + 1
    <3>1. \E W : Runs(a, W)
      BY <2>5 DEF sr_init, PublishConsensus, FetchConsensus
    <3> QED
      BY <1>4, <3>1
  <2>6. crashes' = crashes \/ crashes'[a] = crashes[a] + 1
    BY <2>1, <2>3, <2>4, <2>5
  <2>7. Grown
    BY <1>2, <2>2, <2>6
  <2> QED
    BY <1>3, <2>7
<1>6. CASE EndVoting
  <2> DEFINE lost == {p \in up \X Authorities :
                        post[p[2]] # NoVote /\ pending[p[1]][p[2]] # post[p[2]]}
  <2>1. losses' = losses + Cardinality(lost) /\ misses' = misses /\ crashes' = crashes
    BY <1>6 DEF EndVoting
  <2>2. lost \subseteq Authorities \X Authorities
    BY <1>1
  <2> HIDE DEF lost
  <2>3. Cardinality(lost) \in Nat
    BY <2>2, LossesAreFinite
  <2>4. Grown
    BY <1>2, <2>1, <2>3
  <2> QED
    BY <1>3, <2>4
<1>7. CASE EndPublish
  <2> DEFINE behind == {a \in up : \E b \in Authorities :
                          latest[b].valid_after > latest[a].valid_after}
  <2>1. losses' = losses /\ misses' = misses + Cardinality(behind) /\ crashes' = crashes
    BY <1>7 DEF EndPublish
  <2>2. behind \subseteq Authorities
    BY <1>1
  <2> HIDE DEF behind
  <2>3. Cardinality(behind) \in Nat
    BY <2>2, LaggardsAreFinite
  <2>4. Grown
    BY <1>2, <2>1, <2>3
  <2> QED
    BY <1>3, <2>4
<1>8. CASE EndBuild \/ Horizon \/ UNCHANGED vars
  <2>1. losses' = losses /\ misses' = misses /\ crashes' = crashes
    BY <1>8 DEF EndBuild, Horizon, vars
  <2>2. Grown
    BY <1>2, <2>1
  <2> QED
    BY <1>3, <2>2
<1> QED
  BY <1>5, <1>6, <1>7, <1>8 DEF Next

-----------------------------------------------------------------------------
(* What an authority learns from a vote.                                   *)
LEMMA HandledGrows ==
  ASSUME NEW m, IsState(m), NEW commits, NEW voter, NEW a
  PROVE  LET x == sr_handle_received_commits(m, commits, voter)
         IN  /\ Has(m, a) => Has(x, a)
             /\ x.is_srv_fresh = m.is_srv_fresh
<1> DEFINE kept == {c \in commits : should_keep_commit(m, c, voter)}
           d == CHOOSE c \in kept : TRUE
           x == sr_handle_received_commits(m, commits, voter)
<1>1. x = IF kept = {} THEN m ELSE save_commit_to_state(m, d)
  BY DEF sr_handle_received_commits
<1>2. CASE kept = {}
  BY <1>1, <1>2
<1>3. CASE kept # {}
  <2>1. x = save_commit_to_state(m, d)
    BY <1>1, <1>3
  <2> HIDE DEF d, x, kept
  <2>2. CASE m.phase = COMMIT
    <3>1. x.commits = m.commits \cup {d} /\ x.is_srv_fresh = m.is_srv_fresh
      BY <2>1, <2>2 DEF save_commit_to_state, sr_state_add_commit, IsState, MemFields
    <3> QED
      BY <3>1 DEF Has, x
  <2>3. CASE m.phase # COMMIT
    <3> DEFINE R(s) == IF s.auth = d.auth THEN [s EXCEPT !.reveal = TRUE] ELSE s
    <3>1. x.commits = {R(s) : s \in m.commits} /\ x.is_srv_fresh = m.is_srv_fresh
      BY <2>1, <2>3 DEF save_commit_to_state, IsState, MemFields
    <3>2. ASSUME NEW s \in m.commits, s.auth = a
          PROVE  R(s).auth = a
      <4>1. s \in Commits
        BY DEF IsState, CommitsOK
      <4> QED
        BY <3>2, <4>1 DEF Commits
    <3> HIDE DEF R
    <3> QED
      BY <3>1, <3>2 DEF Has, x
  <2> QED
    BY <2>2, <2>3
<1> QED
  BY <1>2, <1>3

LEMMA HandledLearns ==
  ASSUME NEW m, IsState(m), NEW commits, NEW b, NEW c \in commits, c.auth = b,
         c.reveal <=> m.phase = REVEAL,
         \A s \in m.commits : s.auth = b => Commitment(c) = Commitment(s)
  PROVE  LET x == sr_handle_received_commits(m, commits, b)
         IN  /\ m.phase = COMMIT => Has(x, b)
             /\ m.phase = REVEAL /\ Has(m, b) => Reveals(b, x)
<1> DEFINE kept == {e \in commits : should_keep_commit(m, e, b)}
           d == CHOOSE e \in kept : TRUE
           x == sr_handle_received_commits(m, commits, b)
<1>1. x = IF kept = {} THEN m ELSE save_commit_to_state(m, d)
  BY DEF sr_handle_received_commits
<1>2. COMMIT # REVEAL
  BY DEF COMMIT, REVEAL
<1>3. kept # {} => d.auth = b
  <2>1. kept # {} => d \in kept
    OBVIOUS
  <2> HIDE DEF d
  <2> QED
    BY <2>1 DEF should_keep_commit
<1>4. ASSUME m.phase = COMMIT
      PROVE  Has(x, b)
  <2>1. CASE Has(m, b)
    BY <2>1, HandledGrows
  <2>2. CASE ~Has(m, b)
    <3>1. should_keep_commit(m, c, b)
      BY <1>2, <1>4, <2>2 DEF should_keep_commit, Has
    <3>2. kept # {}
      BY <3>1
    <3>3. x = sr_state_add_commit(m, d) /\ d.auth = b
      BY <1>1, <1>3, <1>4, <3>2 DEF save_commit_to_state
    <3> HIDE DEF d, x, kept
    <3>4. x.commits = m.commits \cup {d}
      BY <3>3 DEF sr_state_add_commit, IsState, MemFields
    <3>5. Has(x, b)
      BY <3>3, <3>4 DEF Has
    <3> QED
      BY <3>5 DEF x
  <2> QED
    BY <2>1, <2>2
<1>5. ASSUME m.phase = REVEAL, Has(m, b)
      PROVE  Reveals(b, x)
  <2>1. CASE Reveals(b, m)
    BY <2>1, HandledKeeps
  <2>2. CASE ~Reveals(b, m)
    <3>1. PICK s \in m.commits : s.auth = b
      BY <1>5 DEF Has
    <3>2. ~s.reveal /\ s \in Commits /\ commitments_are_the_same(c, s)
      BY <2>2, <3>1 DEF Reveals, IsState, CommitsOK, commitments_are_the_same
    <3>3. should_keep_commit(m, c, b)
      BY <1>2, <1>5, <3>1, <3>2 DEF should_keep_commit
    <3>4. kept # {}
      BY <3>3
    <3> DEFINE R(r) == IF r.auth = d.auth THEN [r EXCEPT !.reveal = TRUE] ELSE r
    <3>5. d.auth = b /\ x = [m EXCEPT !.commits = {R(r) : r \in @}]
      BY <1>1, <1>2, <1>3, <1>5, <3>4 DEF save_commit_to_state
    <3>6. x.commits = {R(r) : r \in m.commits}
      BY <3>5 DEF IsState, MemFields
    <3>7. R(s).auth = b /\ R(s).reveal
      BY <3>1, <3>2, <3>5 DEF Commits
    <3> HIDE DEF R, d, x, kept
    <3>8. Reveals(b, x)
      BY <3>1, <3>6, <3>7 DEF Reveals
    <3> QED
      BY <3>8 DEF x
  <2> QED
    BY <2>1, <2>2
<1> QED
  BY <1>4, <1>5

-----------------------------------------------------------------------------
(* The steps of a round of voting.                                         *)
LEMMA MemoriesKept ==
  ASSUME Good, \A a \in Authorities : mem'[a] = mem[a], latest' = latest, slot' = slot,
         stage' = stage, stage # "publish", losses' = losses
  PROVE  Together' /\ LearnedInTime' /\ CommitsAgree' /\ Values'
<1>1. Together /\ LearnedInTime /\ CommitsAgree /\ Values
  BY DEF Good, Tolerant
<1>2. Together'
  BY <1>1 DEF Together
<1>3. LearnedInTime'
  BY <1>1 DEF LearnedInTime, Elapsed, Has, Reveals, Start, Run
<1>4. CommitsAgree'
  BY <1>1 DEF CommitsAgree
<1>5. Values'
  BY <1>1 DEF Values, Ready
<1> QED
  BY <1>2, <1>3, <1>4, <1>5

LEMMA VoteTolerant ==
  ASSUME Good, NEW a \in Authorities, dirvote_perform_vote(a)
  PROVE  Tolerant'
<1> DEFINE vote == sr_get_string_for_vote(a)
<1>1. /\ stage = "vote" /\ stage' = stage /\ a \in todo /\ todo' = todo \ {a}
      /\ post' = [post EXCEPT ![a] = vote] /\ pending' = [pending EXCEPT ![a][a] = vote]
      /\ slot' = slot /\ up' = up /\ latest' = latest /\ losses' = losses
  BY DEF dirvote_perform_vote
<1>2. \A b \in Authorities : mem'[b] = mem[b]
  BY VoteStep DEF Good
<1>3. /\ IsState(mem[a]) /\ Reveals(a, mem[a]) /\ Has(mem[a], a) /\ up = Authorities
      /\ DOMAIN post = Authorities /\ DOMAIN pending = Authorities
      /\ \A b \in Authorities : DOMAIN pending[b] = Authorities
  BY GoodFacts
<1>4. post[a] = NoVote /\ Cast
  BY <1>1 DEF Good, Tolerant, Cast
<1>5. vote # NoVote
  <2>1. vote.pub = 0
    BY <1>4 DEF sr_get_string_for_vote, NoVote
  <2> HIDE DEF vote
  <2> QED
    BY <2>1 DEF NoVote
<1>6. \A c \in vote.commits : c.auth = a =>
        \E d \in mem[a].commits : Commitment(c) = Commitment(d)
  BY <1>3, OwnVote
<1>7. \E c \in vote.commits : c.auth = a /\ (c.reveal <=> mem[a].phase = REVEAL)
  <2>1. PICK d \in mem[a].commits : d.auth = a /\ d.reveal
    BY <1>3 DEF Reveals
  <2> DEFINE H(c) == IF mem[a].phase = COMMIT THEN [c EXCEPT !.reveal = FALSE] ELSE c
  <2>2. vote.commits = {H(c) : c \in mem[a].commits}
    BY DEF sr_get_string_for_vote
  <2>3. d \in Commits /\ mem[a].phase \in {COMMIT, REVEAL} /\ COMMIT # REVEAL
    BY <1>3 DEF IsState, CommitsOK, COMMIT, REVEAL
  <2>4. H(d).auth = a /\ (H(d).reveal <=> mem[a].phase = REVEAL)
    BY <2>1, <2>3 DEF Commits
  <2> HIDE DEF H, vote
  <2> QED
    BY <2>2, <2>4
<1> HIDE DEF vote
<1>8. /\ post'[a] = vote /\ \A b \in Authorities \ {a} : post'[b] = post[b]
      /\ pending'[a][a] = vote
      /\ \A b \in Authorities \ {a} : pending'[a][b] = pending[a][b]
      /\ \A b, c \in Authorities : b # a => pending'[b][c] = pending[b][c]
  BY <1>1, <1>3
<1>9. Posted(a)'
  BY <1>2, <1>6, <1>7, <1>8 DEF Posted
<1>10. Cast'
  <2>1. \A b \in todo' : post'[b] = NoVote
    BY <1>1, <1>4, <1>3, <1>8 DEF Cast, Good, Inv, Shape
  <2>2. ASSUME NEW b \in Authorities \ todo'
        PROVE  post'[b] # NoVote /\ Posted(b)'
    <3>1. CASE b = a
      BY <1>5, <1>8, <1>9, <3>1
    <3>2. CASE b # a
      <4>1. b \notin todo
        BY <1>1, <3>2
      <4>2. post[b] # NoVote /\ Posted(b)
        BY <1>1, <1>4, <4>1 DEF Cast
      <4> QED
        BY <1>2, <1>8, <3>2, <4>2 DEF Posted
    <3> QED
      BY <3>1, <3>2
  <2>3. ASSUME NEW b \in Authorities, NEW c \in Authorities
        PROVE  /\ pending'[b][c] \in {NoVote, post'[c]}
               /\ pending'[b][c] # NoVote => Got(b, c)'
    <3>1. pending[b][c] \in {NoVote, post[c]} /\ (pending[b][c] # NoVote => Got(b, c))
      BY <1>1, <1>4 DEF Cast
    <3>2. Got(b, c)' <=> Got(b, c)
      BY <1>2 DEF Got
    <3>3. Got(a, a)
      BY <1>3 DEF Got
    <3>4. CASE b = a /\ c = a
      BY <1>8, <3>2, <3>3, <3>4
    <3>5. CASE b # a \/ c # a
      <4>1. pending'[b][c] = pending[b][c]
        BY <1>8, <3>5
      <4>2. c = a => pending[b][c] = NoVote
        BY <1>4, <3>1
      <4>3. c # a => post'[c] = post[c]
        BY <1>8
      <4> QED
        BY <3>1, <3>2, <4>1, <4>2, <4>3
    <3> QED
      BY <3>4, <3>5
  <2> QED
    BY <1>1, <2>1, <2>2, <2>3 DEF Cast
<1>11. Agreement'
  BY <1>1 DEF Agreement, Good, Tolerant
<1>12. Together' /\ LearnedInTime' /\ CommitsAgree' /\ Values'
  BY <1>1, <1>2, MemoriesKept
<1> QED
  BY <1>1, <1>3, <1>10, <1>11, <1>12 DEF Tolerant

LEMMA AddVoteTolerant ==
  ASSUME Good, NEW a \in Authorities, NEW b \in Authorities, dirvote_add_vote(a, b), Inv'
  PROVE  Tolerant'
<1> DEFINE m == mem[a]
           x == sr_handle_received_commits(m, post[b].commits, b)
<1>1. /\ stage = "vote" /\ stage' = stage /\ a # b /\ todo' = todo
      /\ post[b] # NoVote /\ pending[a][b] # post[b]
      /\ pending' = [pending EXCEPT ![a][b] = post[b]] /\ post' = post
      /\ slot' = slot /\ up' = up /\ latest' = latest /\ losses' = losses
      /\ mem' = [mem EXCEPT ![a] = AddedTo(m, pending[a][b], post[b], b)]
  BY DEF dirvote_add_vote
<1>2. /\ up = Authorities /\ DOMAIN mem = Authorities /\ todo \subseteq Authorities
      /\ DOMAIN post = Authorities /\ DOMAIN pending = Authorities
      /\ \A c \in Authorities : DOMAIN pending[c] = Authorities
      /\ \A c \in Authorities : IsState(mem[c])
  BY GoodFacts
<1>3. Cast /\ Together /\ LearnedInTime /\ CommitsAgree /\ Values /\ Agreement
  BY DEF Good, Tolerant
<1>4. pending[a][b] = NoVote
  BY <1>1, <1>3 DEF Cast
<1>5. mem'[a] = x /\ \A c \in Authorities \ {a} : mem'[c] = mem[c]
  BY <1>1, <1>2, <1>4 DEF AddedTo
<1>6. b \notin todo /\ Posted(b)
  BY <1>1, <1>3 DEF Cast
<1>7. Taken(m, post[b].commits, b, x)
  BY <1>5, AddVoteStep DEF Good
<1>8. /\ x.phase = m.phase /\ x.valid_after = m.valid_after
      /\ \A c \in x.commits :
           \/ \E d \in m.commits : Commitment(c) = Commitment(d)
           \/ m.phase = COMMIT /\ c \in post[b].commits /\ c.auth = b
      /\ \A c : c # b => Own(x.commits, c) = Own(m.commits, c)
  BY <1>7 DEF Taken
<1>9. /\ x.current_srv = m.current_srv /\ x.is_srv_fresh = m.is_srv_fresh
      /\ \A c : (Has(m, c) => Has(x, c)) /\ (Reveals(c, m) => Reveals(c, x))
  BY <1>2, HandledKeeps, HandledGrows
<1>10. \A c, d \in Authorities :
         mem[c].valid_after = mem[d].valid_after /\ Agreed(mem[c], mem[d])
  BY <1>1, <1>3 DEF Together, CommitsAgree
<1>11. (m.phase = COMMIT => Has(x, b)) /\ (m.phase = REVEAL => Reveals(b, x))
  <2>1. PICK c \in post[b].commits : c.auth = b /\ (c.reveal <=> mem[b].phase = REVEAL)
    BY <1>6 DEF Posted
  <2>2. PICK d \in mem[b].commits : Commitment(c) = Commitment(d)
    BY <1>6, <2>1 DEF Posted
  <2>3. d.auth = b
    BY <2>1, <2>2, SameCommitment
  <2>4. \A s \in m.commits : s.auth = b => Commitment(c) = Commitment(s)
    BY <1>10, <2>2, <2>3 DEF Agreed
  <2>5. mem[b].phase = m.phase
    BY <1>10, GoodFacts
  <2>6. m.phase = REVEAL => Has(m, b)
    BY RevealHasAll
  <2>7. c.reveal <=> m.phase = REVEAL
    BY <2>1, <2>5
  <2> HIDE DEF m
  <2> QED
    BY <1>2, <2>1, <2>4, <2>6, <2>7, HandledLearns DEF m
<1> HIDE DEF x
<1>12. \A c \in x.commits : \E e \in {a, b} : \E d \in mem[e].commits :
         Commitment(c) = Commitment(d)
  BY <1>6, <1>8 DEF Posted
<1>13. ASSUME NEW e \in Authorities
       PROVE  Agreed(x, mem[e]) /\ Agreed(mem[e], x)
  <2>1. ASSUME NEW c \in x.commits, NEW d \in mem[e].commits, c.auth = d.auth
        PROVE  Commitment(c) = Commitment(d)
    <3>1. PICK f \in {a, b} : \E g \in mem[f].commits : Commitment(c) = Commitment(g)
      BY <1>12
    <3>2. PICK g \in mem[f].commits : Commitment(c) = Commitment(g)
      BY <3>1
    <3>3. g.auth = c.auth
      BY <3>2, SameCommitment
    <3>4. Agreed(mem[f], mem[e])
      BY <1>10
    <3> QED
      BY <2>1, <3>2, <3>3, <3>4 DEF Agreed
  <2> QED
    BY <2>1 DEF Agreed
<1>14. Agreed(x, x)
  <2>1. IsState(x)
    BY <1>7 DEF Taken
  <2> QED
    BY <2>1 DEF IsState, CommitsOK, Agreed
<1>15. \A c \in Authorities :
         /\ mem'[c].valid_after = mem[c].valid_after /\ mem'[c].phase = mem[c].phase
         /\ mem'[c].current_srv = mem[c].current_srv
         /\ mem'[c].is_srv_fresh = mem[c].is_srv_fresh
         /\ \A d : (Has(mem[c], d) => Has(mem'[c], d))
                   /\ (Reveals(d, mem[c]) => Reveals(d, mem'[c]))
  BY <1>5, <1>8, <1>9
<1>16. Together'
  BY <1>1, <1>3, <1>15 DEF Together
<1>17. LearnedInTime'
  <2>1. ASSUME NEW c \in Authorities, NEW d \in Authorities
        PROVE  LET late == Elapsed' - Start(mem'[c].valid_after)
               IN  /\ ~Has(mem'[c], d) => losses' >= late
                   /\ ~Reveals(d, mem'[c]) => losses' >= late - SHARED_RANDOM_N_ROUNDS
    <3>1. LET late == Elapsed - Start(mem[c].valid_after)
          IN  /\ ~Has(mem[c], d) => losses >= late
              /\ ~Reveals(d, mem[c]) => losses >= late - SHARED_RANDOM_N_ROUNDS
      BY <1>3 DEF LearnedInTime
    <3>2. Elapsed' = Elapsed /\ mem'[c].valid_after = mem[c].valid_after
      BY <1>1, <1>15 DEF Elapsed
    <3> QED
      BY <1>1, <1>15, <3>1, <3>2
  <2> QED
    BY <2>1 DEF LearnedInTime, Start, Run, Has, Reveals
<1>18. CommitsAgree'
  <2>1. ASSUME NEW c \in Authorities, NEW d \in Authorities
        PROVE  Agreed(mem'[c], mem'[d])
    BY <1>5, <1>10, <1>13, <1>14
  <2>2. \A c, d \in Authorities : ~(Run(mem'[c].valid_after) < Run(mem'[d].valid_after))
    <3>1. ASSUME NEW c \in Authorities, NEW d \in Authorities
          PROVE  ~(Run(mem'[c].valid_after) < Run(mem'[d].valid_after))
      <4>1. mem'[c].valid_after = mem'[d].valid_after /\ mem[c].valid_after \in Nat
            /\ mem'[c].valid_after = mem[c].valid_after
        BY <1>10, <1>15, GoodFacts
      <4>2. Run(mem'[c].valid_after) \in Nat
        BY <4>1, RunTimes
      <4> QED
        BY <4>1, <4>2
    <3> QED
      BY <3>1
  <2> QED
    BY <2>1, <2>2 DEF CommitsAgree, Run, Agreed
<1>19. Values'
  BY <1>1, <1>3, <1>15 DEF Values, Ready
<1>20. Agreement'
  BY <1>1, <1>3 DEF Agreement
<1>21. Cast'
  <2>1. ASSUME NEW c \in Authorities \ todo
        PROVE  post[c] # NoVote /\ Posted(c)'
    <3>1. post[c] # NoVote /\ Posted(c)
      BY <1>1, <1>3 DEF Cast
    <3>2. CASE c # a
      <4>1. mem'[c] = mem[c]
        BY <1>5, <3>2
      <4> QED
        BY <1>1, <3>1, <4>1 DEF Posted
    <3>3. CASE c = a
      <4>1. ASSUME NEW e \in post[a].commits, e.auth = a
            PROVE  \E d \in x.commits : Commitment(e) = Commitment(d)
        <5>1. PICK d \in m.commits : Commitment(e) = Commitment(d)
          BY <3>1, <3>3, <4>1 DEF Posted
        <5>2. d.auth = a
          BY <4>1, <5>1, SameCommitment
        <5>3. Commitment(e) \in Own(m.commits, a)
          BY <5>1, <5>2 DEF Own
        <5>4. Commitment(e) \in Own(x.commits, a)
          BY <1>1, <1>8, <5>3
        <5> QED
          BY <5>4 DEF Own
      <4>2. \E e \in post[a].commits : e.auth = a /\ (e.reveal <=> mem'[a].phase = REVEAL)
        BY <1>15, <3>1, <3>3 DEF Posted
      <4> QED
        BY <1>1, <1>5, <3>1, <3>3, <4>1, <4>2 DEF Posted
    <3> QED
      BY <3>2, <3>3
  <2>2. ASSUME NEW c \in Authorities, NEW d \in Authorities
        PROVE  /\ pending'[c][d] \in {NoVote, post[d]}
               /\ pending'[c][d] # NoVote => Got(c, d)'
    <3>1. pending[c][d] \in {NoVote, post[d]} /\ (pending[c][d] # NoVote => Got(c, d))
      BY <1>1, <1>3 DEF Cast
    <3>2. CASE c = a /\ d = b
      <4>1. pending'[c][d] = post[d]
        BY <1>1, <1>2, <3>2
      <4>2. m.phase \in {COMMIT, REVEAL}
        BY <1>2 DEF IsState
      <4>3. IF x.phase = COMMIT THEN Has(x, b) ELSE Reveals(b, x)
        BY <1>8, <1>11, <4>2
      <4>4. Got(c, d)'
        BY <1>5, <3>2, <4>3 DEF Got
      <4> QED
        BY <4>1, <4>4
    <3>3. CASE ~(c = a /\ d = b)
      <4>1. pending'[c][d] = pending[c][d]
        BY <1>1, <1>2, <3>3
      <4>2. Got(c, d) => Got(c, d)'
        BY <1>15 DEF Got
      <4> QED
        BY <3>1, <4>1, <4>2
    <3> QED
      BY <3>2, <3>3
  <2>3. \A c \in todo : post[c] = NoVote
    BY <1>1, <1>3 DEF Cast
  <2> QED
    BY <1>1, <2>1, <2>2, <2>3 DEF Cast
<1> QED
  BY <1>1, <1>2, <1>16, <1>17, <1>18, <1>19, <1>20, <1>21 DEF Tolerant

LEMMA BuiltSame ==
  ASSUME NEW m, NEW n, m.is_srv_fresh = n.is_srv_fresh,
         NEW p, NEW q, \A b \in Authorities : p[b] = q[b]
  PROVE  Built(m, p) = Built(n, q)
<1> DEFINE V(r) == {b \in Authorities : r[b] # NoVote}
           Srvs(r, f) == [b \in V(r) |-> r[b][f]]
<1>1. \A k : should_keep_srv(m, k) <=> should_keep_srv(n, k)
  BY DEF should_keep_srv
<1>2. ASSUME NEW s
      PROVE  get_majority_srv_from_votes(m, s) = get_majority_srv_from_votes(n, s)
  <2> DEFINE K(r) == {v \in {s[b] : b \in DOMAIN s} \ {NoSrv} :
                        should_keep_srv(r, Cardinality({b \in DOMAIN s : s[b] = v}))}
  <2>1. /\ get_majority_srv_from_votes(m, s)
             = (IF K(m) = {} THEN NoSrv ELSE CHOOSE v \in K(m) : TRUE)
        /\ get_majority_srv_from_votes(n, s)
             = (IF K(n) = {} THEN NoSrv ELSE CHOOSE v \in K(n) : TRUE)
    BY DEF get_majority_srv_from_votes
  <2>2. K(m) = K(n)
    BY <1>1
  <2> HIDE DEF K
  <2> QED
    BY <2>1, <2>2
<1>3. V(p) = V(q)
  OBVIOUS
<1>4. ASSUME NEW f
      PROVE  Srvs(p, f) = Srvs(q, f)
  BY <1>3
<1>5. {<<b, p[b].pub>> : b \in V(p)} = {<<b, q[b].pub>> : b \in V(q)}
  BY <1>3
<1>6. /\ get_majority_srv_from_votes(m, Srvs(p, "previous_srv"))
           = get_majority_srv_from_votes(n, Srvs(q, "previous_srv"))
      /\ get_majority_srv_from_votes(m, Srvs(p, "current_srv"))
           = get_majority_srv_from_votes(n, Srvs(q, "current_srv"))
  BY <1>2, <1>4
<1> QED
  BY <1>5, <1>6 DEF Built

LEMMA AllAreMajority ==
  Cardinality(Authorities) >= Majority
<1>1. Cardinality(Authorities) \in Nat /\ Cardinality(Authorities) # 0
  BY SharedRandomAssumption, FS_CardinalityType, FS_EmptySet
<1>2. \A n \in Nat : n # 0 => n >= (n \div 2) + 1
  OBVIOUS
<1> QED
  BY <1>1, <1>2 DEF Majority

LEMMA ComputeTolerant ==
  ASSUME Good, NEW a \in Authorities, dirvote_compute_consensuses(a)
  PROVE  Tolerant'
<1> DEFINE voters == {b \in Authorities : pending[a][b] # NoVote}
           new == IF Cardinality(voters) >= Majority
                  THEN networkstatus_compute_consensus(a) ELSE NoDoc
<1>1. /\ stage = "build" /\ stage' = stage /\ a \in todo /\ todo' = todo \ {a}
      /\ docs' = [docs EXCEPT ![a] = new]
      /\ slot' = slot /\ up' = up /\ latest' = latest /\ losses' = losses
      /\ mem' = mem /\ post' = post /\ pending' = pending
  BY DEF dirvote_compute_consensuses
<1>2. up = Authorities /\ DOMAIN docs = Authorities
  BY GoodFacts
<1>3. Agreement
  BY DEF Good, Tolerant
<1>4. Together' /\ LearnedInTime' /\ CommitsAgree' /\ Values'
  BY <1>1, MemoriesKept
<1>5. Cast'
  BY <1>1 DEF Cast
<1>6. Agreement'
  <2>1. ASSUME losses = 0
        PROVE  /\ \A c, b \in Authorities : pending[c][b] = post[b] /\ post[b] # NoVote
               /\ \A c \in Authorities \ todo' : docs'[c] = Built(mem[c], pending[c])
    <3>1. /\ \A c, b \in Authorities : pending[c][b] = post[b] /\ post[b] # NoVote
          /\ \A c \in Authorities \ todo : docs[c] = Built(mem[c], pending[c])
      BY <1>1, <1>3, <2>1 DEF Agreement
    <3>2. voters = Authorities
      BY <3>1
    <3>3. new = networkstatus_compute_consensus(a)
      BY <3>2, AllAreMajority
    <3>4. networkstatus_compute_consensus(a) = Built(mem[a], pending[a])
      BY DEF networkstatus_compute_consensus, Built
    <3> HIDE DEF new
    <3>5. docs'[a] = new /\ \A c \in Authorities \ {a} : docs'[c] = docs[c]
      BY <1>1, <1>2
    <3> QED
      BY <1>1, <3>1, <3>3, <3>4, <3>5
  <2>2. \A c \in Authorities : Built(mem[c], pending[c])' = Built(mem[c], pending[c])
    BY <1>1 DEF Built
  <2> QED
    BY <1>1, <1>3, <2>1, <2>2 DEF Agreement
<1> QED
  BY <1>1, <1>2, <1>4, <1>5, <1>6 DEF Tolerant

LEMMA EndVotingTolerant ==
  ASSUME Good, EndVoting, Calm'
  PROVE  Tolerant'
<1> DEFINE lost == {p \in up \X Authorities :
                      post[p[2]] # NoVote /\ pending[p[1]][p[2]] # post[p[2]]}
<1>1. /\ stage = "vote" /\ todo = {} /\ losses' = losses + Cardinality(lost)
      /\ stage' = "build" /\ todo' = up
      /\ slot' = slot /\ up' = up /\ latest' = latest /\ mem' = mem /\ docs' = docs
      /\ post' = post /\ pending' = pending
  BY DEF EndVoting
<1>2. up = Authorities /\ slot \in Nat /\ losses \in Nat /\ losses < SHARED_RANDOM_N_ROUNDS
      /\ SHARED_RANDOM_N_ROUNDS \in Nat
  BY GoodFacts
<1>3. Together /\ LearnedInTime /\ CommitsAgree /\ Cast /\ Agreement /\ Values
  BY DEF Good, Tolerant
<1>4. lost \subseteq Authorities \X Authorities
  BY <1>2
<1>5. ASSUME NEW c \in Authorities, NEW b \in Authorities, lost = {}
      PROVE  pending[c][b] = post[b] /\ post[b] # NoVote
  <2>1. post[b] # NoVote
    BY <1>1, <1>3 DEF Cast
  <2>2. <<c, b>> \notin lost
    BY <1>5
  <2> QED
    BY <1>2, <2>1, <2>2
<1>6. ASSUME NEW c \in Authorities, NEW b \in Authorities, ~Got(c, b)
      PROVE  <<c, b>> \in lost
  <2>1. post[b] # NoVote
    BY <1>1, <1>3 DEF Cast
  <2>2. pending[c][b] = NoVote
    BY <1>1, <1>3, <1>6 DEF Cast
  <2> QED
    BY <1>2, <2>1, <2>2
<1> HIDE DEF lost
<1>7. Cardinality(lost) \in Nat /\ (Cardinality(lost) = 0 <=> lost = {})
  BY <1>4, LossesAreFinite
<1>8. losses' \in Nat /\ losses' >= losses /\ (losses' = 0 => lost = {} /\ losses = 0)
      /\ (lost # {} => losses' >= losses + 1)
  BY <1>1, <1>2, <1>7
<1>9. Together'
  <2>1. ASSUME NEW c \in Authorities, NEW b \in Authorities
        PROVE  /\ mem[c].valid_after = mem[b].valid_after /\ latest[c] = latest[b]
               /\ mem[c].valid_after >= slot
               /\ mem[c].valid_after = slot => losses' >= 1
    BY <1>1, <1>2, <1>3, <1>8 DEF Together
  <2> QED
    BY <1>1, <2>1 DEF Together
<1>10. LearnedInTime'
  <2>1. ASSUME NEW c \in Authorities, NEW b \in Authorities
        PROVE  LET late == Elapsed' - Start(mem[c].valid_after)
               IN  /\ ~Has(mem[c], b) => losses' >= late
                   /\ ~Reveals(b, mem[c]) => losses' >= late - SHARED_RANDOM_N_ROUNDS
    <3> DEFINE v == mem[c].valid_after
    <3>1. Elapsed' = slot + 2 /\ Elapsed = slot + 1
      BY <1>1 DEF Elapsed
    <3>2. /\ ~Has(mem[c], b) => losses >= (slot + 1) - Start(v)
          /\ ~Reveals(b, mem[c]) => losses >= ((slot + 1) - Start(v)) - SHARED_RANDOM_N_ROUNDS
      BY <1>3, <3>1 DEF LearnedInTime
    <3>3. v \in Nat /\ v <= slot + 1 /\ mem[c].phase = Phase(v)
      BY GoodFacts
    <3>4. v >= slot /\ (v = slot => losses >= 1)
      BY <1>1, <1>3 DEF Together
    <3>5. mem[c].phase = REVEAL => Has(mem[c], b)
      BY RevealHasAll
    <3> HIDE DEF v
    <3>6. /\ Start(v) \in Nat /\ Phase(v) \in {COMMIT, REVEAL} /\ COMMIT # REVEAL
          /\ Phase(v) = COMMIT <=> v < Start(v) + SHARED_RANDOM_N_ROUNDS
      BY <3>3, RunTimes
    <3>7. CASE mem[c].phase = COMMIT
      <4>1. ~Has(mem[c], b) => losses' >= losses + 1
        BY <1>6, <1>8, <3>7 DEF Got
      <4>2. ~Has(mem[c], b) => losses' >= (slot + 2) - Start(v)
        BY <1>2, <1>8, <3>2, <3>6, <4>1
      <4>3. losses' >= ((slot + 2) - Start(v)) - SHARED_RANDOM_N_ROUNDS
        BY <1>2, <1>8, <3>3, <3>4, <3>6, <3>7
      <4> QED
        BY <3>1, <4>2, <4>3 DEF v
    <3>8. CASE mem[c].phase = REVEAL
      <4>1. ~Reveals(b, mem[c]) => losses' >= losses + 1
        BY <1>6, <1>8, <3>6, <3>8 DEF Got
      <4>2. ~Reveals(b, mem[c]) => losses' >= ((slot + 2) - Start(v)) - SHARED_RANDOM_N_ROUNDS
        BY <1>2, <1>8, <3>2, <3>6, <4>1
      <4> QED
        BY <3>1, <3>5, <3>8, <4>2 DEF v
    <3> QED
      BY <3>3, <3>6, <3>7, <3>8
  <2> QED
    BY <1>1, <2>1 DEF LearnedInTime
<1>11. CommitsAgree'
  BY <1>1, <1>3 DEF CommitsAgree
<1>12. Cast'
  BY <1>1 DEF Cast
<1>13. Agreement'
  <2>1. losses' = 0 => \A c, b \in Authorities : pending[c][b] = post[b] /\ post[b] # NoVote
    BY <1>5, <1>8
  <2> QED
    BY <1>1, <1>2, <1>3, <2>1 DEF Agreement
<1>14. Values'
  <2>1. \A c \in Authorities : (Ready(c)' <=> Ready(c)) /\ Ready(c)
    BY <1>1 DEF Ready
  <2> QED
    BY <1>1, <1>3, <1>8, <2>1 DEF Values
<1> QED
  BY <1>1, <1>2, <1>9, <1>10, <1>11, <1>12, <1>13, <1>14 DEF Tolerant

LEMMA EndBuildTolerant ==
  ASSUME Good, EndBuild
  PROVE  Tolerant'
<1>1. /\ stage = "build" /\ todo = {} /\ slot' = slot + 1 /\ stage' = "publish"
      /\ todo' = up /\ up' = up /\ latest' = latest /\ mem' = mem /\ docs' = docs
      /\ losses' = losses
  BY DEF EndBuild
<1>2. up = Authorities /\ slot \in Nat /\ losses \in Nat
  BY GoodFacts
<1>3. Together /\ LearnedInTime /\ CommitsAgree /\ Agreement /\ Values
  BY DEF Good, Tolerant
<1>4. \A a \in Authorities :
        /\ mem[a].valid_after \in Nat /\ mem[a].valid_after <= slot + 1
        /\ latest[a].valid_after \in Nat /\ latest[a].valid_after <= slot
  BY GoodFacts
<1>5. ASSUME NEW a \in Authorities, NEW b \in Authorities
      PROVE  /\ mem[a].valid_after = mem[b].valid_after /\ latest[a] = latest[b]
             /\ mem[a].valid_after >= slot /\ (mem[a].valid_after = slot => losses >= 1)
  BY <1>1, <1>3 DEF Together
<1>6. Together'
  <2>1. ASSUME NEW a \in Authorities
        PROVE  /\ mem[a].valid_after \in {slot' - 1, slot'}
               /\ mem[a].valid_after = slot' - 1 => losses' >= 1
    BY <1>1, <1>2, <1>4, <1>5
  <2> QED
    BY <1>1, <1>2, <1>5, <2>1 DEF Together
<1>7. LearnedInTime'
  <2>1. Elapsed' = Elapsed
    BY <1>1, <1>2 DEF Elapsed
  <2> QED
    BY <1>1, <1>3, <2>1 DEF LearnedInTime
<1>8. CommitsAgree'
  BY <1>1, <1>3 DEF CommitsAgree
<1>9. Cast'
  BY <1>1, <1>2 DEF Cast
<1>10. Agreement'
  <2>1. ASSUME losses = 0, NEW a \in Authorities, NEW b \in Authorities
        PROVE  docs[a] = docs[b] /\ docs[a] # NoDoc
    <3>1. /\ \A c, d \in Authorities : pending[c][d] = post[d]
          /\ \A c \in Authorities : docs[c] = Built(mem[c], pending[c])
      BY <1>1, <1>3, <2>1 DEF Agreement
    <3>2. \A c \in Authorities : mem[c].valid_after = slot + 1
      BY <1>2, <1>4, <1>5, <2>1
    <3>3. \A c \in Authorities : mem[c].is_srv_fresh <=> ((slot + 1) % TotalRounds = 0)
      BY <1>1, <1>3, <2>1, <3>2 DEF Values, Ready
    <3>4. mem[a].is_srv_fresh = mem[b].is_srv_fresh
      <4>1. mem[a].is_srv_fresh \in BOOLEAN /\ mem[b].is_srv_fresh \in BOOLEAN
        BY GoodFacts DEF IsState
      <4>2. mem[a].is_srv_fresh <=> mem[b].is_srv_fresh
        BY <3>3
      <4> QED
        BY <4>1, <4>2
    <3>5. \A c \in Authorities : pending[a][c] = pending[b][c]
      BY <3>1
    <3>6. docs[a] = docs[b]
      <4>1. Built(mem[a], pending[a]) = Built(mem[b], pending[b])
        BY ONLY <3>4, <3>5, BuiltSame
      <4> QED
        BY <3>1, <4>1
    <3>7. docs[a].valid_after = slot + 1
      <4>1. \A m, p : Built(m, p).valid_after = slot + 1
        BY DEF Built
      <4> QED
        BY <3>1, <4>1
    <3>8. NoDoc.valid_after = 0
      BY DEF NoDoc
    <3> QED
      BY <1>2, <3>6, <3>7, <3>8
  <2>2. \A a \in Authorities : latest[a].valid_after >= 1 /\ latest[a].valid_after # slot + 1
    BY <1>2, <1>3, <1>4 DEF Agreement
  <2> QED
    BY <1>1, <1>2, <1>5, <2>1, <2>2 DEF Agreement
<1>11. Values'
  <2>1. \A a \in Authorities : ~Ready(a)' /\ Ready(a)
    BY <1>1, <1>2 DEF Ready
  <2>2. Authorities \ todo' = {}
    BY <1>1, <1>2
  <2> QED
    BY <1>1, <1>3, <2>1, <2>2 DEF Values
<1> QED
  BY <1>1, <1>2, <1>6, <1>7, <1>8, <1>9, <1>10, <1>11 DEF Tolerant

(* Authorities that have the consensus of the same interval have the same. *)
LEMMA SameConsensus ==
  ASSUME Good, stage = "publish", NEW a \in Authorities, NEW b \in Authorities,
         latest[a].valid_after = latest[b].valid_after
  PROVE  latest[a] = latest[b]
<1>1. Agreement
  BY DEF Good, Tolerant
<1>2. latest[a].valid_after \in Nat /\ latest[a].valid_after <= slot /\ slot \in Nat
  BY GoodFacts
<1>3. CASE latest[a].valid_after < slot
  BY <1>1, <1>3 DEF Agreement
<1>4. CASE latest[a].valid_after = slot
  <2>1. /\ Cardinality(Signers(latest[a])) >= Majority
        /\ Cardinality(Signers(latest[b])) >= Majority
    BY <1>1, <1>4 DEF Agreement
  <2>2. Signers(latest[a]) \subseteq Authorities /\ Signers(latest[b]) \subseteq Authorities
    BY DEF Signers
  <2>3. PICK c \in Signers(latest[a]) : c \in Signers(latest[b])
    BY <2>1, <2>2, MajoritiesMeet
  <2> QED
    BY <2>3 DEF Signers
<1> QED
  BY <1>2, <1>3, <1>4

LEMMA EndPublishTolerant ==
  ASSUME Good, EndPublish, Calm'
  PROVE  Tolerant'
<1> DEFINE behind == {a \in up : \E b \in Authorities :
                        latest[b].valid_after > latest[a].valid_after}
<1>1. /\ stage = "publish" /\ todo = {} /\ slot' = slot /\ stage' = "vote"
      /\ misses' = misses + Cardinality(behind) /\ todo' = up /\ up' = up
      /\ latest' = latest /\ mem' = mem /\ losses' = losses
      /\ post' = NoVotes /\ pending' = pending
  BY DEF EndPublish
<1>2. up = Authorities /\ slot \in Nat /\ losses \in Nat
  BY GoodFacts
<1>3. Together /\ LearnedInTime /\ CommitsAgree /\ Cast /\ Agreement /\ Values
  BY DEF Good, Tolerant
<1>4. \A a \in Authorities :
        /\ mem[a].valid_after \in Nat /\ mem[a].valid_after <= slot + 1
        /\ latest[a].valid_after \in Nat /\ latest[a].valid_after <= slot
  BY GoodFacts
<1>5. \A a, b \in Authorities : latest[a] = latest[b]
  <2>1. behind \subseteq Authorities
    BY <1>2
  <2>2. ASSUME behind = {}, NEW a \in Authorities, NEW b \in Authorities
        PROVE  latest[a].valid_after = latest[b].valid_after
    <3>1. /\ ~(latest[b].valid_after > latest[a].valid_after)
          /\ ~(latest[a].valid_after > latest[b].valid_after)
      BY <1>2, <2>2
    <3> QED
      BY <1>4, <3>1
  <2> HIDE DEF behind
  <2>3. behind = {}
    <3>1. misses = 0 /\ misses' = 0
      BY DEF Good, Calm
    <3>2. Cardinality(behind) \in Nat /\ (Cardinality(behind) = 0 <=> behind = {})
      BY <2>1, LaggardsAreFinite
    <3> QED
      BY <1>1, <3>1, <3>2
  <2> QED
    BY <1>1, <2>2, <2>3, SameConsensus
<1>6. \A a \in Authorities :
        /\ mem[a].valid_after >= slot
        /\ mem[a].valid_after = slot + 1 => latest[a].valid_after = slot
        /\ latest[a].valid_after = slot => mem[a].valid_after = slot + 1
  <2>1. \A a \in Authorities :
          mem[a].valid_after = slot + 1 \/ latest[a].valid_after < slot
    BY <1>1, <1>2 DEF Good, Inv, Newest
  <2> QED
    BY <1>1, <1>2, <1>3, <1>4, <2>1 DEF Together
<1>7. Together'
  <2>1. ASSUME NEW a \in Authorities, NEW b \in Authorities
        PROVE  mem[a].valid_after = mem[b].valid_after
    <3>1. latest[a].valid_after = latest[b].valid_after
      BY <1>5
    <3> QED
      BY <1>2, <1>4, <1>6, <3>1
  <2>2. ASSUME NEW a \in Authorities, mem[a].valid_after = slot
        PROVE  losses >= 1
    <3> SUFFICES ASSUME losses = 0 PROVE FALSE
      BY <1>2
    <3>1. Authorities # {}
      OBVIOUS
    <3>2. PICK b \in Authorities : latest[b].valid_after = slot
      BY <1>1, <1>3, <3>1 DEF Agreement
    <3>3. latest[a].valid_after = slot
      BY <1>5, <3>2
    <3> QED
      BY <1>2, <1>6, <2>2, <3>3
  <2> QED
    BY <1>1, <1>5, <1>6, <2>1, <2>2 DEF Together
<1>8. LearnedInTime'
  <2>1. Elapsed' = Elapsed
    BY <1>1 DEF Elapsed
  <2> QED
    BY <1>1, <1>3, <2>1 DEF LearnedInTime
<1>9. CommitsAgree'
  BY <1>1, <1>3 DEF CommitsAgree
<1>10. Cast'
  <2>1. \A a, b \in Authorities : pending[a][b] = NoVote
    BY <1>1, <1>3 DEF Cast
  <2>2. \A b \in Authorities : NoVotes[b] = NoVote
    BY DEF NoVotes
  <2> QED
    BY <1>1, <1>2, <2>1, <2>2 DEF Cast
<1>11. Agreement'
  BY <1>1, <1>3 DEF Agreement
<1>12. Values'
  <2>1. \A a \in Authorities : Ready(a)' /\ Ready(a)
    BY <1>1 DEF Ready
  <2> QED
    BY <1>1, <1>3, <2>1 DEF Values
<1> QED
  BY <1>1, <1>2, <1>7, <1>8, <1>9, <1>10, <1>11, <1>12 DEF Tolerant

-----------------------------------------------------------------------------
(* Between two rounds.                                                     *)

(* Authority a, on the consensus it has got, prepares for the round at t.  *)
Turns(a, t) ==
  /\ stage = "publish" /\ stage' = stage /\ slot' = slot /\ losses' = losses
  /\ docs' = docs /\ up' = Authorities /\ todo' = todo \ {a}
  /\ t \in {slot, slot + 1}
  /\ a \notin todo => mem[a].valid_after = slot /\ t = slot + 1
  /\ \A b \in Authorities \ {a} :
       latest'[b] = latest[b] /\ mem'[b] = mem[b] /\ pending'[b] = pending[b]
  /\ t = slot + 1 => /\ latest'[a].valid_after = slot
                     /\ Cardinality(Signers(latest'[a])) >= Majority
  /\ t = slot => /\ latest'[a] = latest[a] /\ latest[a].valid_after < slot
                 /\ losses = 0 => \E b \in Authorities : latest[b].valid_after = slot
  /\ Ended(a, mem[a], latest'[a], t, mem'[a])
  /\ \A b \in Authorities : pending'[a][b] = NoVote

LEMMA TurnTimes ==
  ASSUME Good, NEW a \in Authorities, NEW t, Turns(a, t)
  PROVE  LET v == mem[a].valid_after
             w == mem'[a].valid_after
         IN  /\ t \in Nat /\ slot \in Nat /\ losses \in Nat
             /\ v \in Nat /\ v \in {slot - 1, slot} /\ (v = slot - 1 => losses >= 1)
             /\ w \in {slot, slot + 1} /\ w >= v /\ (w = slot + 1 <=> t = slot + 1)
             /\ NewRun(mem[a], t) =>
                  /\ w = t /\ v < t /\ Run(w) = Run(v) + 1
                  /\ Start(w) = Start(v) + TotalRounds
                  /\ Start(w) >= slot /\ Start(w) <= slot + 1
                  /\ Start(w) = slot => losses >= 1
                  /\ Start(v) + SHARED_RANDOM_N_ROUNDS <= v
             /\ ~NewRun(mem[a], t) => Run(w) = Run(v) /\ Start(w) = Start(v)
<1> DEFINE v == mem[a].valid_after
           w == mem'[a].valid_after
<1>1. /\ slot \in Nat /\ slot >= 1 /\ losses \in Nat /\ losses < SHARED_RANDOM_N_ROUNDS
      /\ SHARED_RANDOM_N_ROUNDS \in Nat /\ v \in Nat /\ mem[a].phase = Phase(v)
  BY GoodFacts
<1>2. /\ stage = "publish" /\ t \in {slot, slot + 1} /\ (a \notin todo => v = slot)
      /\ w = (IF t <= v THEN v ELSE t)
  BY DEF Turns, Ended
<1>3. a \in todo => v \in {slot - 1, slot} /\ (v = slot - 1 => losses >= 1)
  BY <1>2 DEF Good, Tolerant, Together
<1>4. NewRun(mem[a], t) <=> (v < t /\ Phase(t) = COMMIT /\ Phase(v) = REVEAL)
  BY <1>1 DEF NewRun
<1> HIDE DEF v, w
<1>5. v \in {slot - 1, slot} /\ (v = slot - 1 => losses >= 1) /\ t \in Nat
  BY <1>1, <1>2, <1>3
<1>6. w \in {slot, slot + 1} /\ w >= v /\ (w = slot + 1 <=> t = slot + 1) /\ w \in Nat
  BY <1>1, <1>2, <1>5
<1>7. ASSUME v < t
      PROVE  /\ Phase(t) = COMMIT /\ Phase(v) = REVEAL
                   => Run(t) = Run(v) + 1 /\ Start(t) = Start(v) + TotalRounds /\ Start(t) > v
             /\ ~(Phase(t) = COMMIT /\ Phase(v) = REVEAL)
                   => Run(t) = Run(v) /\ Start(t) = Start(v)
  <2>1. t <= v + 2 /\ (t = v + 2 => SHARED_RANDOM_N_ROUNDS >= 2)
    BY <1>1, <1>2, <1>5
  <2> QED
    BY <1>1, <1>5, <1>7, <2>1, NewRunTimes
<1>8. ASSUME NewRun(mem[a], t)
      PROVE  /\ w = t /\ v < t /\ Run(w) = Run(v) + 1
             /\ Start(w) = Start(v) + TotalRounds
             /\ Start(w) >= slot /\ Start(w) <= slot + 1
             /\ Start(w) = slot => losses >= 1
             /\ Start(v) + SHARED_RANDOM_N_ROUNDS <= v
  <2>1. v < t /\ Phase(v) = REVEAL /\ w = t
    BY <1>1, <1>2, <1>4, <1>5, <1>8
  <2>2. Run(t) = Run(v) + 1 /\ Start(t) = Start(v) + TotalRounds /\ Start(t) > v
    BY <1>4, <1>7, <1>8
  <2>3. /\ Start(t) \in Nat /\ Start(t) <= t /\ Start(v) \in Nat
        /\ v >= Start(v) + SHARED_RANDOM_N_ROUNDS
    BY <1>1, <1>5, <2>1, RunTimes
  <2>4. Start(t) >= slot /\ Start(t) <= slot + 1 /\ (Start(t) = slot => losses >= 1)
    BY <1>1, <1>2, <1>5, <2>2, <2>3
  <2> QED
    BY <1>1, <2>1, <2>2, <2>3, <2>4
<1>9. ASSUME ~NewRun(mem[a], t)
      PROVE  Run(w) = Run(v) /\ Start(w) = Start(v)
  <2>1. CASE v < t
    BY <1>1, <1>2, <1>4, <1>5, <1>7, <1>9, <2>1
  <2>2. CASE ~(v < t)
    BY <1>1, <1>2, <1>5, <2>2
  <2> QED
    BY <2>1, <2>2
<1> QED
  BY <1>1, <1>5, <1>6, <1>8, <1>9 DEF v, w

(* All are in the run that ends or in the one that begins.                 *)
LEMMA TurnWindow ==
  ASSUME Good, NEW a \in Authorities, NEW t, Turns(a, t), NewRun(mem[a], t),
         NEW b \in Authorities
  PROVE  LET v == mem[a].valid_after
             w == mem'[a].valid_after
             u == mem[b].valid_after
         IN  /\ Run(u) \in {Run(v), Run(w)} /\ Run(v) # Run(w) /\ Run(v) < Run(w)
             /\ Start(u) >= slot => Run(u) = Run(w)
<1> DEFINE v == mem[a].valid_after
           w == mem'[a].valid_after
           u == mem[b].valid_after
<1>1. /\ slot \in Nat /\ v \in Nat /\ v <= slot /\ w \in Nat /\ w <= slot + 1
      /\ Run(w) = Run(v) + 1 /\ Start(w) = Start(v) + TotalRounds /\ v < w
      /\ Start(w) >= slot /\ Start(w) <= slot + 1 /\ Start(v) + SHARED_RANDOM_N_ROUNDS <= v
  BY TurnTimes
<1>2. u \in Nat /\ u <= slot + 1
  BY GoodFacts
<1>3. u >= slot - 1
  <2>1. stage = "publish"
    BY DEF Turns
  <2>2. b \in todo => u \in {slot - 1, slot}
    BY <2>1 DEF Good, Tolerant, Together
  <2>3. b \notin todo => u >= slot
    BY <2>1 DEF Good, Tolerant, Together
  <2> HIDE DEF u
  <2> QED
    BY <1>1, <1>2, <2>2, <2>3
<1>4. /\ SHARED_RANDOM_N_ROUNDS \in Nat /\ SHARED_RANDOM_N_ROUNDS >= 1
      /\ TotalRounds \in Nat /\ TotalRounds = SHARED_RANDOM_N_ROUNDS + SHARED_RANDOM_N_ROUNDS
  BY Rounds
<1> HIDE DEF v, w, u
<1>5. /\ Start(v) \in Nat /\ Run(v) \in Nat /\ Run(w) \in Nat /\ Start(w) \in Nat
      /\ Start(w) <= w
      /\ Start(u) \in Nat /\ Start(u) <= u /\ u < Start(u) + TotalRounds
  BY <1>1, <1>2, RunTimes
<1>6. Run(v) # Run(w) /\ Run(v) < Run(w)
  BY <1>1, <1>5
<1>7. CASE u >= Start(w)
  <2>1. CASE u >= w
    <3>1. u < Start(w) + TotalRounds
      BY <1>1, <1>2, <1>4, <1>5
    <3>2. Run(w) = Run(u)
      BY <1>1, <1>2, <2>1, <3>1, LaterRun
    <3> QED
      BY <1>6, <3>2 DEF v, w, u
  <2>2. CASE u <= w
    <3>1. w < Start(u) + TotalRounds
      <4>1. Run(u) <= Run(w) /\ Start(u) <= Start(w)
            /\ (Run(u) # Run(w) => Start(w) >= Start(u) + TotalRounds)
        BY <1>1, <1>2, <2>2, LaterRun
      <4>2. ~(Start(w) >= Start(u) + TotalRounds)
        BY <1>1, <1>2, <1>4, <1>5, <1>7
      <4>3. Run(u) = Run(w)
        BY <4>1, <4>2
      <4>4. Start(u) = Start(w)
        BY <4>3 DEF Start
      <4>5. w < Start(w) + TotalRounds
        BY <1>1, RunTimes
      <4> QED
        BY <4>4, <4>5
    <3>2. Run(u) = Run(w)
      BY <1>1, <1>2, <2>2, <3>1, LaterRun
    <3> QED
      BY <1>6, <3>2 DEF v, w, u
  <2> QED
    BY <1>1, <1>2, <2>1, <2>2
<1>8. CASE u < Start(w)
  <2>1. Run(u) = Run(v)
    <3>1. CASE u >= v
      <4>1. u < Start(v) + TotalRounds
        BY <1>1, <1>8
      <4> QED
        BY <1>1, <1>2, <3>1, <4>1, LaterRun
    <3>2. CASE u < v
      <4>1. u >= Start(v)
        BY <1>1, <1>2, <1>3, <1>4, <1>5
      <4>2. Run(u) # Run(v) => Start(v) >= Start(u) + TotalRounds
        BY <1>1, <1>2, <3>2, LaterRun
      <4> QED
        BY <1>2, <1>5, <4>1, <4>2, <1>4
    <3> QED
      BY <1>1, <1>2, <3>1, <3>2
  <2>2. Start(u) = Start(v)
    BY <2>1 DEF Start
  <2>3. ~(Start(u) >= slot)
    BY <1>1, <1>4, <1>5, <2>2
  <2> QED
    BY <1>6, <2>1, <2>3 DEF v, w, u
<1> QED
  BY <1>2, <1>5, <1>7, <1>8

(* At the end of a run all reveal values are known in it.                  *)
LEMMA TurnKnowsAll ==
  ASSUME Good, NEW a \in Authorities, NEW t, Turns(a, t), NewRun(mem[a], t),
         NEW b \in Authorities, Run(mem[b].valid_after) = Run(mem[a].valid_after),
         NEW c \in Authorities
  PROVE  Reveals(c, mem[b])
<1> DEFINE v == mem[a].valid_after
           w == mem'[a].valid_after
           u == mem[b].valid_after
<1>1. /\ slot \in Nat /\ v \in Nat /\ losses \in Nat
      /\ Start(w) = Start(v) + TotalRounds /\ Start(w) <= slot + 1
      /\ Start(v) + SHARED_RANDOM_N_ROUNDS <= v
  BY TurnTimes
<1>2. /\ SHARED_RANDOM_N_ROUNDS \in Nat /\ losses < SHARED_RANDOM_N_ROUNDS
      /\ TotalRounds = SHARED_RANDOM_N_ROUNDS + SHARED_RANDOM_N_ROUNDS
  BY Rounds, GoodFacts
<1>3. stage = "publish"
  BY DEF Turns
<1>4. ~Reveals(c, mem[b]) => losses >= (Elapsed - Start(u)) - SHARED_RANDOM_N_ROUNDS
  BY DEF Good, Tolerant, LearnedInTime
<1>5. Elapsed = slot + 1
  BY <1>3 DEF Elapsed
<1>6. Start(u) = Start(v)
  BY DEF Start
<1> HIDE DEF v, w, u
<1>7. Start(v) \in Nat
  BY <1>1, RunTimes
<1> QED
  BY <1>1, <1>2, <1>4, <1>5, <1>6, <1>7

LEMMA AllRevealed ==
  ASSUME NEW m, IsState(m), \A b \in Authorities : Reveals(b, m)
  PROVE  /\ Revealed(m) = Commitments(m)
         /\ {c.auth : c \in Revealed(m)} = Authorities
<1>1. m.commits \subseteq Commits /\ \A c, d \in m.commits : c.auth = d.auth => c = d
  BY DEF IsState, CommitsOK
<1>2. \A c \in m.commits : c.auth \in Authorities
  BY <1>1 DEF Commits
<1>3. \A c \in m.commits : c.reveal
  BY <1>1, <1>2 DEF Reveals
<1>4. Revealed(m) = Commitments(m)
  BY <1>3 DEF Revealed, Commitments
<1>5. \A c : Commitment(c).auth = c.auth
  BY DEF Commitment
<1>6. \A e \in Revealed(m) : e.auth \in Authorities
  BY <1>2, <1>5 DEF Revealed
<1>7. ASSUME NEW b \in Authorities
      PROVE  \E e \in Revealed(m) : e.auth = b
  <2>1. PICK c \in m.commits : c.auth = b /\ c.reveal
    BY DEF Reveals
  <2>2. Commitment(c) \in Revealed(m)
    BY <2>1 DEF Revealed
  <2> QED
    BY <1>5, <2>1, <2>2
<1> QED
  BY <1>4, <1>6, <1>7

LEMMA SameCommitments ==
  ASSUME NEW m, NEW x, IsState(m), IsState(x), Agreed(m, x),
         \A b \in Authorities : Reveals(b, m) /\ Reveals(b, x)
  PROVE  Commitments(m) = Commitments(x)
<1>1. ASSUME NEW c \in m.commits
      PROVE  Commitment(c) \in Commitments(x)
  <2>1. c.auth \in Authorities
    BY DEF IsState, CommitsOK, Commits
  <2>2. PICK d \in x.commits : d.auth = c.auth
    BY <2>1 DEF Reveals
  <2> QED
    BY <2>2 DEF Agreed, Commitments
<1>2. ASSUME NEW d \in x.commits
      PROVE  Commitment(d) \in Commitments(m)
  <2>1. d.auth \in Authorities
    BY DEF IsState, CommitsOK, Commits
  <2>2. PICK c \in m.commits : c.auth = d.auth
    BY <2>1 DEF Reveals
  <2> QED
    BY <2>2 DEF Agreed, Commitments
<1> QED
  BY <1>1, <1>2 DEF Commitments

LEMMA TurnTogether ==
  ASSUME Good, NEW a \in Authorities, NEW t, Turns(a, t)
  PROVE  Together'
<1>1. /\ stage = "publish" /\ stage' = stage /\ slot' = slot /\ losses' = losses
      /\ todo' = todo \ {a}
      /\ \A b \in Authorities \ {a} : latest'[b] = latest[b] /\ mem'[b] = mem[b]
      /\ t = slot + 1 => latest'[a].valid_after = slot
  BY DEF Turns
<1>2. Together /\ todo \subseteq Authorities
  BY GoodFacts DEF Good, Tolerant
<1>3. /\ slot \in Nat /\ mem'[a].valid_after \in {slot, slot + 1}
      /\ mem'[a].valid_after = slot + 1 => t = slot + 1
  BY TurnTimes
<1>4. /\ \A b, c \in todo' : mem'[b].valid_after = mem'[c].valid_after
      /\ \A b \in todo' : /\ mem'[b].valid_after \in {slot - 1, slot}
                          /\ mem'[b].valid_after = slot - 1 => losses >= 1
  BY <1>1, <1>2 DEF Together
<1>5. ASSUME NEW b \in Authorities \ todo'
      PROVE  /\ mem'[b].valid_after >= slot
             /\ mem'[b].valid_after = slot + 1 => latest'[b].valid_after = slot
  <2>1. CASE b = a
    BY <1>1, <1>3, <2>1
  <2>2. CASE b # a
    <3>1. b \in Authorities \ todo
      BY <1>1, <2>2
    <3> QED
      BY <1>1, <1>2, <2>2, <3>1 DEF Together
  <2> QED
    BY <2>1, <2>2
<1> QED
  BY <1>1, <1>4, <1>5 DEF Together

LEMMA TurnLearned ==
  ASSUME Good, NEW a \in Authorities, NEW t, Turns(a, t)
  PROVE  LearnedInTime'
<1>1. /\ stage = "publish" /\ stage' = stage /\ slot' = slot /\ losses' = losses
      /\ \A b \in Authorities \ {a} : mem'[b] = mem[b]
      /\ Ended(a, mem[a], latest'[a], t, mem'[a])
  BY DEF Turns
<1>2. LearnedInTime
  BY DEF Good, Tolerant
<1>3. Elapsed' = Elapsed /\ Elapsed = slot + 1
  BY <1>1 DEF Elapsed
<1> DEFINE Timely(m, b) ==
             /\ ~Has(m, b) => losses >= Elapsed - Start(m.valid_after)
             /\ ~Reveals(b, m) =>
                  losses >= (Elapsed - Start(m.valid_after)) - SHARED_RANDOM_N_ROUNDS
<1>4. \A c, b \in Authorities : Timely(mem[c], b)
  BY <1>2 DEF LearnedInTime
<1>5. ASSUME NEW b \in Authorities
      PROVE  Timely(mem'[a], b)
  <2> DEFINE v == mem[a].valid_after
             w == mem'[a].valid_after
  <2>1. CASE NewRun(mem[a], t)
    <3>1. /\ slot \in Nat /\ losses \in Nat /\ w \in Nat
          /\ Start(w) >= slot /\ Start(w) <= slot + 1 /\ (Start(w) = slot => losses >= 1)
      BY <2>1, TurnTimes
    <3>2. SHARED_RANDOM_N_ROUNDS \in Nat /\ SHARED_RANDOM_N_ROUNDS >= 1
      BY Rounds
    <3> HIDE DEF w
    <3>3. Start(w) \in Nat
      BY <3>1, RunTimes
    <3>4. /\ losses >= (slot + 1) - Start(w)
          /\ losses >= ((slot + 1) - Start(w)) - SHARED_RANDOM_N_ROUNDS
      BY <3>1, <3>2, <3>3
    <3> QED
      BY <1>3, <3>4 DEF w
  <2>2. CASE ~NewRun(mem[a], t)
    <3>1. mem'[a].commits = mem[a].commits
      BY <1>1, <2>2 DEF Ended
    <3>2. Start(w) = Start(v)
      BY <2>2, TurnTimes
    <3>3. (Has(mem'[a], b) <=> Has(mem[a], b)) /\ (Reveals(b, mem'[a]) <=> Reveals(b, mem[a]))
      BY <3>1 DEF Has, Reveals
    <3>4. Timely(mem[a], b)
      BY <1>4
    <3> QED
      BY <3>2, <3>3, <3>4
  <2> QED
    BY <2>1, <2>2
<1>6. \A c, b \in Authorities : Timely(mem'[c], b)
  <2> HIDE DEF Timely
  <2> QED
    BY <1>1, <1>4, <1>5
<1>7. \A c, b \in Authorities :
        LET late == Elapsed' - Start(mem'[c].valid_after)
        IN  /\ ~Has(mem'[c], b) => losses' >= late
            /\ ~Reveals(b, mem'[c]) => losses' >= late - SHARED_RANDOM_N_ROUNDS
  BY <1>1, <1>3, <1>6
<1> QED
  BY <1>7 DEF LearnedInTime

LEMMA TurnCommits ==
  ASSUME Good, NEW a \in Authorities, NEW t, Turns(a, t), Inv'
  PROVE  CommitsAgree'
<1>1. /\ \A b \in Authorities \ {a} : mem'[b] = mem[b]
      /\ Ended(a, mem[a], latest'[a], t, mem'[a]) /\ up' = Authorities
  BY DEF Turns
<1>2. CommitsAgree
  BY DEF Good, Tolerant
<1> DEFINE R(b) == Run(mem[b].valid_after)
           Q(b) == Run(mem'[b].valid_after)
<1>3. \A b \in Authorities : R(b) \in Nat
  BY GoodFacts, RunTimes
<1>4. \A b \in Authorities \ {a} : Q(b) = R(b)
  BY <1>1
<1>5. NewRun(mem[a], t) => Q(a) = R(a) + 1 /\ Alone(a, mem'[a])
  <2>1. NewRun(mem[a], t) => Alone(a, mem'[a])
    BY <1>1 DEF Ended, Alone
  <2> QED
    BY <2>1, TurnTimes
<1>6. ~NewRun(mem[a], t) => Q(a) = R(a) /\ mem'[a].commits = mem[a].commits
  <2>1. ~NewRun(mem[a], t) => mem'[a].commits = mem[a].commits
    BY <1>1 DEF Ended
  <2> QED
    BY <2>1, TurnTimes
<1>7. \A b, c \in Authorities : /\ R(b) = R(c) => Agreed(mem[b], mem[c])
                                /\ R(b) < R(c) => Alone(c, mem[c])
  BY <1>2 DEF CommitsAgree
<1>8. IsState(mem'[a])
  BY <1>1 DEF Inv, Authority, Memory
<1>9. Agreed(mem'[a], mem'[a])
  BY <1>8 DEF IsState, CommitsOK, Agreed
<1> HIDE DEF R, Q
<1>10. ASSUME NEW b \in Authorities \ {a}
       PROVE  /\ Q(a) = Q(b) => Agreed(mem'[a], mem[b]) /\ Agreed(mem[b], mem'[a])
              /\ Q(a) < Q(b) => Alone(b, mem[b])
              /\ Q(b) < Q(a) => Alone(a, mem'[a])
  <2>1. CASE NewRun(mem[a], t)
    <3>1. Q(a) = Q(b) => Alone(b, mem[b])
      BY <1>3, <1>4, <1>5, <1>7, <2>1
    <3>2. Alone(b, mem[b]) => Agreed(mem'[a], mem[b]) /\ Agreed(mem[b], mem'[a])
      BY <1>5, <2>1 DEF Alone, Agreed
    <3>3. Q(a) < Q(b) => Alone(b, mem[b])
      BY <1>3, <1>4, <1>5, <1>7, <2>1
    <3> QED
      BY <1>5, <2>1, <3>1, <3>2, <3>3
  <2>2. CASE ~NewRun(mem[a], t)
    <3>1. Q(a) = Q(b) => Agreed(mem[a], mem[b]) /\ Agreed(mem[b], mem[a])
      BY <1>4, <1>6, <1>7, <2>2
    <3>2. Agreed(mem[a], mem[b]) /\ Agreed(mem[b], mem[a])
            => Agreed(mem'[a], mem[b]) /\ Agreed(mem[b], mem'[a])
      BY <1>6, <2>2 DEF Agreed
    <3>3. Q(a) < Q(b) => Alone(b, mem[b])
      BY <1>4, <1>6, <1>7, <2>2
    <3>4. Q(b) < Q(a) => Alone(a, mem[a])
      BY <1>4, <1>6, <1>7, <2>2
    <3>5. Alone(a, mem[a]) => Alone(a, mem'[a])
      BY <1>6, <2>2 DEF Alone
    <3> QED
      BY <3>1, <3>2, <3>3, <3>4, <3>5
  <2> QED
    BY <2>1, <2>2
<1>11. Q(a) \in Nat
  BY <1>3, <1>5, <1>6
<1>12. ASSUME NEW b \in Authorities, NEW c \in Authorities
       PROVE  /\ Q(b) = Q(c) => Agreed(mem'[b], mem'[c])
              /\ Q(b) < Q(c) => Alone(c, mem'[c])
  <2>1. CASE b = a /\ c = a
    BY <1>9, <1>11, <2>1
  <2>2. CASE b = a /\ c # a
    BY <1>1, <1>10, <2>2
  <2>3. CASE b # a /\ c = a
    BY <1>1, <1>10, <2>3
  <2>4. CASE b # a /\ c # a
    BY <1>1, <1>4, <1>7, <2>4
  <2> QED
    BY <2>1, <2>2, <2>3, <2>4
<1> QED
  BY <1>12 DEF CommitsAgree, Q

LEMMA TurnCast ==
  ASSUME Good, NEW a \in Authorities, NEW t, Turns(a, t)
  PROVE  Cast'
<1>1. /\ stage = "publish" /\ stage' = stage /\ todo' = todo \ {a}
      /\ \A b \in Authorities \ {a} : pending'[b] = pending[b]
      /\ \A b \in Authorities : pending'[a][b] = NoVote
  BY DEF Turns
<1>2. \A c \in Authorities \ todo, b \in Authorities : pending[c][b] = NoVote
  BY <1>1 DEF Good, Tolerant, Cast
<1> QED
  BY <1>1, <1>2 DEF Cast

LEMMA TurnAgreement ==
  ASSUME Good, NEW a \in Authorities, NEW t, Turns(a, t)
  PROVE  Agreement'
<1>1. /\ stage = "publish" /\ stage' = stage /\ slot' = slot /\ losses' = losses
      /\ docs' = docs /\ todo' = todo \ {a} /\ t \in {slot, slot + 1}
      /\ \A b \in Authorities \ {a} : latest'[b] = latest[b]
      /\ t = slot + 1 => /\ latest'[a].valid_after = slot
                         /\ Cardinality(Signers(latest'[a])) >= Majority
      /\ t = slot => /\ latest'[a] = latest[a] /\ latest[a].valid_after < slot
                     /\ losses = 0 => \E b \in Authorities : latest[b].valid_after = slot
  BY DEF Turns
<1>2. slot \in Nat /\ slot >= 1
  BY GoodFacts
<1>3. /\ \A b \in Authorities : latest[b].valid_after >= 1
      /\ losses = 0 => \A b, c \in Authorities : docs[b] = docs[c] /\ docs[b] # NoDoc
      /\ losses = 0 /\ todo # Authorities => \E b \in Authorities : latest[b].valid_after = slot
      /\ \A b \in Authorities : latest[b].valid_after = slot =>
           Cardinality(Signers(latest[b])) >= Majority
      /\ \A b, c \in Authorities :
           latest[b].valid_after < slot /\ latest[c].valid_after < slot => latest[b] = latest[c]
  BY <1>1 DEF Good, Tolerant, Agreement
<1>5. CASE t = slot + 1
  <2>1. latest'[a].valid_after = slot /\ Cardinality(Signers(latest'[a])) >= Majority
    BY <1>1, <1>5
  <2>2. \A b \in Authorities : latest'[b].valid_after >= 1
    BY <1>1, <1>2, <1>3, <2>1
  <2>3. \A b \in Authorities : latest'[b].valid_after = slot =>
          Cardinality(Signers(latest'[b])) >= Majority
    BY <1>1, <1>3, <2>1
  <2>4. \A b, c \in Authorities :
          latest'[b].valid_after < slot /\ latest'[c].valid_after < slot => latest'[b] = latest'[c]
    BY <1>1, <1>2, <1>3, <2>1
  <2>5. \A b \in Authorities : Signers(latest[b])' = Signers(latest'[b])
    BY <1>1 DEF Signers
  <2> QED
    BY <1>1, <1>3, <2>1, <2>2, <2>3, <2>4, <2>5 DEF Agreement
<1>6. CASE t = slot
  <2>1. \A b \in Authorities : latest'[b] = latest[b]
    BY <1>1, <1>2, <1>6
  <2>2. losses = 0 => \E b \in Authorities : latest[b].valid_after = slot
    BY <1>1, <1>2, <1>6
  <2>5. \A b \in Authorities : Signers(latest[b])' = Signers(latest[b])
    BY <1>1, <2>1 DEF Signers
  <2> QED
    BY <1>1, <1>3, <2>1, <2>2, <2>5 DEF Agreement
<1> QED
  BY <1>1, <1>5, <1>6

(* The value that an authority computes is the value of the run that ends. *)
LEMMA TurnValue ==
  ASSUME Good, NEW a \in Authorities, NEW t, Turns(a, t), NewRun(mem[a], t)
  PROVE  LET v == mem'[a].current_srv
         IN  /\ v = [reveals |-> v.reveals, prev |-> <<latest'[a].current_srv>>]
             /\ {c.auth : c \in v.reveals} = Authorities
             /\ v.reveals = Commitments(mem[a])
             /\ \A b \in Authorities :
                  Run(mem[b].valid_after) = Run(mem[a].valid_after) =>
                    Commitments(mem[b]) = v.reveals
<1> DEFINE v == mem'[a].current_srv
<1>1. v = [reveals |-> Revealed(mem[a]), prev |-> <<latest'[a].current_srv>>]
  BY DEF Turns, Ended
<1>2. v.reveals = Revealed(mem[a])
      /\ v = [reveals |-> v.reveals, prev |-> <<latest'[a].current_srv>>]
  BY <1>1
<1> HIDE DEF v
<1>3. \A b \in Authorities : IsState(mem[b])
  BY GoodFacts
<1>4. ASSUME NEW b \in Authorities, Run(mem[b].valid_after) = Run(mem[a].valid_after)
      PROVE  \A c \in Authorities : Reveals(c, mem[b])
  BY <1>4, TurnKnowsAll
<1>5. \A c \in Authorities : Reveals(c, mem[a])
  BY <1>4
<1>6. Revealed(mem[a]) = Commitments(mem[a]) /\ {c.auth : c \in Revealed(mem[a])} = Authorities
  BY <1>3, <1>5, AllRevealed
<1>7. ASSUME NEW b \in Authorities, Run(mem[b].valid_after) = Run(mem[a].valid_after)
      PROVE  Commitments(mem[b]) = Commitments(mem[a])
  <2>1. Agreed(mem[b], mem[a])
    BY <1>7 DEF Good, Tolerant, CommitsAgree
  <2>2. \A c \in Authorities : Reveals(c, mem[b]) /\ Reveals(c, mem[a])
    BY <1>4, <1>5, <1>7
  <2> QED
    BY <1>3, <2>1, <2>2, SameCommitments
<1> QED
  BY <1>2, <1>6, <1>7 DEF v

LEMMA TurnValues ==
  ASSUME Good, NEW a \in Authorities, NEW t, Turns(a, t)
  PROVE  Values'
<1>1. /\ stage = "publish" /\ stage' = stage /\ slot' = slot /\ losses' = losses
      /\ todo' = todo \ {a} /\ t \in {slot, slot + 1}
      /\ a \notin todo => mem[a].valid_after = slot /\ t = slot + 1
      /\ \A b \in Authorities \ {a} : latest'[b] = latest[b] /\ mem'[b] = mem[b]
      /\ Ended(a, mem[a], latest'[a], t, mem'[a])
  BY DEF Turns
<1>2. Values /\ Together /\ todo \subseteq Authorities
  BY GoodFacts DEF Good, Tolerant
<1>3. mem'[a].is_srv_fresh => NewRun(mem[a], t)
  BY <1>1 DEF Ended
<1>4. NewRun(mem[a], t) => mem'[a].is_srv_fresh
  BY <1>1 DEF Ended
<1> DEFINE new == NewRun(mem[a], t)
<1>5. \A b \in Authorities \ {a} : (Ready(b)' <=> Ready(b))
  BY <1>1 DEF Ready
<1>6. Ready(a)' /\ \A b \in Authorities : (Ready(b) <=> b \notin todo)
  BY <1>1 DEF Ready
<1>7. \A b \in Authorities \ todo : mem[b].is_srv_fresh =>
        /\ Start(mem[b].valid_after) >= slot
        /\ \A c \in todo : mem[b].valid_after > mem[c].valid_after
        /\ \A c \in Authorities : Run(mem[c].valid_after) # Run(mem[b].valid_after) =>
             Commitments(mem[c]) = mem[b].current_srv.reveals
  BY <1>1, <1>2 DEF Values
<1> HIDE DEF new
<1>8. ASSUME NEW b \in Authorities, mem'[b].is_srv_fresh
      PROVE  LET v == mem'[b].current_srv
             IN  /\ v = [reveals |-> v.reveals, prev |-> <<latest'[b].current_srv>>]
                 /\ {c.auth : c \in v.reveals} = Authorities
  <2>1. CASE b = a
    BY <1>3, <1>8, <2>1, TurnValue
  <2>2. CASE b # a
    <3>1. mem'[b] = mem[b] /\ latest'[b] = latest[b]
      BY <1>1, <2>2
    <3> QED
      BY <1>2, <1>8, <3>1 DEF Values
  <2> QED
    BY <2>1, <2>2
(* What others have computed before.                                       *)
<1>9. ASSUME new, NEW b \in Authorities \ {a}, b \notin todo, mem[b].is_srv_fresh
      PROVE  /\ Run(mem[b].valid_after) = Run(mem'[a].valid_after)
             /\ mem'[a].current_srv.reveals = mem[b].current_srv.reveals
  <2>1. Run(mem[b].valid_after) = Run(mem'[a].valid_after)
        /\ Run(mem[a].valid_after) # Run(mem'[a].valid_after)
    BY <1>7, <1>9, TurnWindow DEF new
  <2>2. Commitments(mem[a]) = mem[b].current_srv.reveals
    BY <1>7, <1>9, <2>1
  <2>3. mem'[a].current_srv.reveals = Commitments(mem[a])
    BY <1>9, TurnValue DEF new
  <2> QED
    BY <2>1, <2>2, <2>3
<1>10. ASSUME NEW b \in Authorities, NEW c \in Authorities,
              mem'[b].is_srv_fresh, mem'[c].is_srv_fresh, Ready(b)' <=> Ready(c)'
       PROVE  mem'[b].current_srv.reveals = mem'[c].current_srv.reveals
  <2>1. CASE b = c
    BY <2>1
  <2>2. CASE b = a /\ c # a
    <3>1. c \notin todo /\ mem[c].is_srv_fresh /\ mem'[c] = mem[c]
      BY <1>1, <1>5, <1>6, <1>10, <2>2
    <3> QED
      BY <1>3, <1>9, <1>10, <2>2, <3>1 DEF new
  <2>3. CASE c = a /\ b # a
    <3>1. b \notin todo /\ mem[b].is_srv_fresh /\ mem'[b] = mem[b]
      BY <1>1, <1>5, <1>6, <1>10, <2>3
    <3> QED
      BY <1>3, <1>9, <1>10, <2>3, <3>1 DEF new
  <2>4. CASE b # a /\ c # a
    <3>1. mem'[b] = mem[b] /\ mem'[c] = mem[c] /\ (Ready(b) <=> Ready(c))
      BY <1>1, <1>5, <1>10, <2>4
    <3> QED
      BY <1>2, <1>10, <3>1 DEF Values
  <2> QED
    BY <2>1, <2>2, <2>3, <2>4
<1>11. ASSUME NEW b \in Authorities \ todo', mem'[b].is_srv_fresh
       PROVE  /\ Start(mem'[b].valid_after) >= slot
              /\ \A c \in todo' : mem'[b].valid_after > mem'[c].valid_after
              /\ \A c \in Authorities : Run(mem'[c].valid_after) # Run(mem'[b].valid_after) =>
                   Commitments(mem'[c]) = mem'[b].current_srv.reveals
  <2>1. CASE b = a
    <3>1. new
      BY <1>3, <1>11, <2>1 DEF new
    <3>2. /\ Start(mem'[a].valid_after) >= slot /\ mem'[a].valid_after = t
          /\ mem[a].valid_after < t /\ slot \in Nat
      BY <3>1, TurnTimes DEF new
    <3>3. ASSUME NEW c \in todo'
          PROVE  mem'[a].valid_after > mem'[c].valid_after
      <4>1. c \in todo /\ c # a /\ mem'[c] = mem[c]
        BY <1>1, <1>2
      <4>2. mem[c].valid_after \in {slot - 1, slot}
            /\ (a \in todo => mem[c].valid_after = mem[a].valid_after)
        BY <1>1, <1>2, <4>1 DEF Together
      <4>3. mem[a].valid_after \in Nat /\ mem[c].valid_after \in Nat
        BY <1>2, <4>1, GoodFacts
      <4>4. CASE a \in todo
        BY <3>2, <4>1, <4>2, <4>3, <4>4
      <4>5. CASE a \notin todo
        BY <1>1, <3>2, <4>1, <4>2, <4>3, <4>5
      <4> QED
        BY <4>4, <4>5
    <3>4. ASSUME NEW c \in Authorities, Run(mem'[c].valid_after) # Run(mem'[a].valid_after)
          PROVE  Commitments(mem'[c]) = mem'[a].current_srv.reveals
      <4>1. c # a /\ mem'[c] = mem[c]
        BY <1>1, <3>4
      <4>2. Run(mem[c].valid_after) = Run(mem[a].valid_after)
        BY <3>1, <3>4, <4>1, TurnWindow DEF new
      <4> QED
        BY <3>1, <4>1, <4>2, TurnValue DEF new
    <3> QED
      BY <2>1, <3>2, <3>3, <3>4
  <2>2. CASE b # a
    <3>1. b \in Authorities \ todo /\ mem'[b] = mem[b] /\ mem[b].is_srv_fresh
      BY <1>1, <1>11, <2>2
    <3>2. Start(mem'[b].valid_after) >= slot
      BY <1>7, <3>1
    <3>3. \A c \in todo' : mem'[b].valid_after > mem'[c].valid_after
      BY <1>1, <1>2, <1>7, <3>1
    <3>4. ASSUME NEW c \in Authorities, Run(mem'[c].valid_after) # Run(mem'[b].valid_after)
          PROVE  Commitments(mem'[c]) = mem'[b].current_srv.reveals
      <4>1. CASE c # a
        BY <1>1, <1>7, <3>1, <3>4, <4>1
      <4>2. CASE c = a
        <5>1. ~new
          BY <1>9, <2>2, <3>1, <3>4, <4>2
        <5>2. /\ mem'[a].commits = mem[a].commits
              /\ Run(mem'[a].valid_after) = Run(mem[a].valid_after)
          <6>1. mem'[a].commits = mem[a].commits
            BY <1>1, <5>1 DEF Ended, new
          <6> QED
            BY <5>1, <6>1, TurnTimes DEF new
        <5>3. Commitments(mem'[a]) = Commitments(mem[a])
          BY <5>2 DEF Commitments
        <5> QED
          BY <1>7, <3>1, <3>4, <4>2, <5>2, <5>3
      <4> QED
        BY <4>1, <4>2
    <3> QED
      BY <3>2, <3>3, <3>4
  <2> QED
    BY <2>1, <2>2
<1>12. ASSUME losses = 0, NEW b \in Authorities, Ready(b)', mem'[b].valid_after = slot + 1
       PROVE  mem'[b].is_srv_fresh <=> (slot + 1) % TotalRounds = 0
  <2>1. CASE b = a
    <3>1. /\ slot \in Nat /\ t = slot + 1 /\ mem[a].valid_after = slot
      BY <1>12, <2>1, TurnTimes
    <3>2. mem[a].phase = Phase(slot)
      BY <3>1, GoodFacts
    <3>3. new <=> Phase(slot + 1) = COMMIT /\ Phase(slot) = REVEAL
      BY <3>1, <3>2 DEF new, NewRun
    <3>4. Phase(slot + 1) = COMMIT /\ Phase(slot) = REVEAL <=> (slot + 1) % TotalRounds = 0
      BY <3>1, FirstRound
    <3> QED
      BY <1>3, <1>4, <2>1, <3>3, <3>4 DEF new
  <2>2. CASE b # a
    <3>1. mem'[b] = mem[b] /\ Ready(b)
      BY <1>1, <1>5, <1>12, <2>2
    <3> QED
      BY <1>2, <1>12, <3>1 DEF Values
  <2> QED
    BY <2>1, <2>2
<1>13. \A b \in Authorities : mem'[b].is_srv_fresh =>
         LET v == mem'[b].current_srv
         IN  /\ v = [reveals |-> v.reveals, prev |-> <<latest'[b].current_srv>>]
             /\ {c.auth : c \in v.reveals} = Authorities
  BY <1>8
<1>14. \A b, c \in Authorities :
         mem'[b].is_srv_fresh /\ mem'[c].is_srv_fresh /\ (Ready(b)' <=> Ready(c)') =>
           mem'[b].current_srv.reveals = mem'[c].current_srv.reveals
  BY <1>10
<1>15. \A b \in Authorities \ todo' : mem'[b].is_srv_fresh =>
         /\ Start(mem'[b].valid_after) >= slot'
         /\ \A c \in todo' : mem'[b].valid_after > mem'[c].valid_after
         /\ \A c \in Authorities : Run(mem'[c].valid_after) # Run(mem'[b].valid_after) =>
              Commitments(mem'[c]) = mem'[b].current_srv.reveals
  BY <1>1, <1>11
<1>16. losses' = 0 =>
         \A b \in Authorities : Ready(b)' /\ mem'[b].valid_after = slot' + 1 =>
           (mem'[b].is_srv_fresh <=> (slot' + 1) % TotalRounds = 0)
  BY <1>1, <1>12
<1> QED
  BY <1>13, <1>14, <1>15, <1>16 DEF Values

LEMMA TurnTolerant ==
  ASSUME Good, NEW a \in Authorities, NEW t, Turns(a, t), Inv'
  PROVE  Tolerant'
<1>1. up' = Authorities
  BY DEF Turns
<1> QED
  BY <1>1, TurnTogether, TurnLearned, TurnCommits, TurnCast, TurnAgreement, TurnValues
     DEF Tolerant

LEMMA PublishTurns ==
  ASSUME Good, NEW a \in Authorities, PublishConsensus(a), Calm'
  PROVE  \E t : Turns(a, t)
<1> DEFINE enough == docs[a] # NoDoc /\ Cardinality(Signers(docs[a])) >= Majority
<1>1. /\ stage = "publish" /\ a \in todo /\ todo' = todo \ {a}
      /\ pending' = [pending EXCEPT ![a] = NoVotes]
      /\ slot' = slot /\ stage' = stage /\ docs' = docs /\ losses' = losses
  BY DEF PublishConsensus
<1>2. PICK published \in IF enough THEN BOOLEAN ELSE {FALSE} :
        /\ enough => published \/ \E b \in Authorities : latest[b] = docs[a]
        /\ latest' = [latest EXCEPT ![a] = IF published THEN docs[a] ELSE @]
        /\ Runs(a, sr_act_post_consensus(mem[a], a, latest'[a],
                     IF published THEN slot + 1 ELSE slot))
  BY DEF PublishConsensus, Signers
<1>3. /\ slot \in Nat /\ slot >= 1 /\ up = Authorities /\ IsState(mem[a])
      /\ mem[a].commits # {} /\ crashes[a] \in Nat
      /\ DOMAIN latest = Authorities /\ DOMAIN pending = Authorities
  BY GoodFacts
<1>4. /\ Agreement /\ latest[a].valid_after < slot
      /\ docs[a] = NoDoc \/ docs[a].valid_after = slot
  BY <1>1, <1>3 DEF Good, Tolerant, Inv, Newest
<1> DEFINE t == IF published THEN slot + 1 ELSE slot
<1>5. published => enough
  BY <1>2
<1>6. t \in {slot, slot + 1} /\ (published <=> t = slot + 1)
  BY <1>2, <1>3
<1>7. latest'[a] = (IF published THEN docs[a] ELSE latest[a])
      /\ \A b \in Authorities \ {a} : latest'[b] = latest[b]
  BY <1>2, <1>3
<1>8. Runs(a, sr_act_post_consensus(mem[a], a, latest'[a], t))
  BY <1>2
<1>9. losses = 0 => enough
  <2>1. ASSUME losses = 0
        PROVE  \A b, c \in Authorities : docs[b] = docs[c] /\ docs[b] # NoDoc
    BY <1>1, <1>4, <2>1 DEF Agreement
  <2>2. losses = 0 => Signers(docs[a]) = Authorities
    BY <2>1 DEF Signers
  <2> QED
    BY <2>1, <2>2, AllAreMajority
<1> HIDE DEF t
<1>10. latest'[a] # NoDoc
  <2>1. NoDoc.valid_after = 0
    BY DEF NoDoc
  <2>2. latest[a].valid_after >= 1
    BY <1>4 DEF Agreement
  <2> QED
    BY <1>5, <1>7, <2>1, <2>2
<1>11. Ended(a, mem[a], latest'[a], t, Last(sr_act_post_consensus(mem[a], a, latest'[a], t)))
  BY <1>3, <1>6, <1>10, ConsensusValue
<1>12. /\ mem'[a] = Last(sr_act_post_consensus(mem[a], a, latest'[a], t))
       /\ \A b \in Authorities \ {a} : mem'[b] = mem[b]
       /\ up' = Authorities
  BY <1>8, CalmRuns
<1>13. Ended(a, mem[a], latest'[a], t, mem'[a])
  BY <1>11, <1>12
<1>14. t = slot + 1 => /\ latest'[a].valid_after = slot
                       /\ Cardinality(Signers(latest'[a])) >= Majority
  BY <1>4, <1>5, <1>6, <1>7
<1>15. t = slot => /\ latest'[a] = latest[a] /\ latest[a].valid_after < slot
                   /\ losses = 0 => \E b \in Authorities : latest[b].valid_after = slot
  <2> SUFFICES ASSUME t = slot
               PROVE  /\ latest'[a] = latest[a] /\ latest[a].valid_after < slot
                      /\ losses = 0 => \E b \in Authorities : latest[b].valid_after = slot
    OBVIOUS
  <2>1. ~published
    BY <1>3, <1>6
  <2>2. enough => \E b \in Authorities : latest[b].valid_after = slot
    BY <1>2, <1>4, <2>1
  <2> QED
    BY <1>4, <1>7, <1>9, <2>1, <2>2
<1>16. \A b \in Authorities : pending'[a][b] = NoVote
  BY <1>1, <1>3 DEF NoVotes
<1>17. \A b \in Authorities \ {a} : pending'[b] = pending[b]
  BY <1>1, <1>3
<1>18. Turns(a, t)
  BY <1>1, <1>6, <1>7, <1>12, <1>13, <1>14, <1>15, <1>16, <1>17 DEF Turns
<1> QED
  BY <1>18

LEMMA FetchTurns ==
  ASSUME Good, NEW a \in Authorities, FetchConsensus(a), Calm'
  PROVE  \E t : Turns(a, t)
<1>1. PICK b \in Authorities :
        /\ latest[b].valid_after > latest[a].valid_after
        /\ latest' = [latest EXCEPT ![a] = latest[b]]
        /\ Runs(a, sr_act_post_consensus(mem[a], a, latest[b], slot + 1))
  BY DEF FetchConsensus
<1>2. /\ slot \in Nat /\ slot >= 1 /\ up = Authorities /\ IsState(mem[a])
      /\ mem[a].commits # {} /\ crashes[a] \in Nat
      /\ mem[a].valid_after \in Nat /\ mem[a].valid_after <= slot + 1
      /\ DOMAIN latest = Authorities /\ DOMAIN pending = Authorities
      /\ latest[a].valid_after \in Nat /\ latest[b].valid_after \in Nat
      /\ latest[b].valid_after <= slot /\ todo \subseteq Authorities
  BY GoodFacts
<1>3. stage = "publish"
  <2>1. SUFFICES ASSUME stage # "publish" PROVE FALSE
    OBVIOUS
  <2>2. latest[a] = latest[b]
    BY <2>1 DEF Good, Tolerant, Together
  <2> QED
    BY <1>1, <1>2, <2>2
<1>4. a \notin todo /\ slot' = slot /\ stage' = stage /\ docs' = docs /\ losses' = losses
      /\ todo' = (todo \cup Due(a)) \cap up'
      /\ pending' = [pending EXCEPT ![a] = IF a \in up' THEN @ ELSE NoVotes]
  BY <1>3 DEF FetchConsensus
<1>5. /\ mem'[a] = Last(sr_act_post_consensus(mem[a], a, latest[b], slot + 1))
      /\ \A c \in Authorities \ {a} : mem'[c] = mem[c]
      /\ up' = Authorities
  BY <1>1, CalmRuns
<1>6. todo' = todo \ {a}
  BY <1>2, <1>3, <1>4, <1>5 DEF Due
<1>7. /\ latest'[a] = latest[b] /\ \A c \in Authorities \ {a} : latest'[c] = latest[c]
      /\ \A c \in Authorities : pending'[c] = pending[c]
  BY <1>1, <1>2, <1>4, <1>5
<1>8. Agreement /\ Together /\ Cast
  BY DEF Good, Tolerant
<1>9. latest[b].valid_after = slot
  <2>1. SUFFICES ASSUME latest[b].valid_after # slot PROVE FALSE
    OBVIOUS
  <2>2. latest[b].valid_after < slot /\ latest[a].valid_after < slot
    BY <1>1, <1>2, <2>1
  <2>3. latest[a] = latest[b]
    BY <1>3, <1>8, <2>2 DEF Agreement
  <2> QED
    BY <1>1, <1>2, <2>3
<1>10. mem[a].valid_after = slot
  <2>1. /\ mem[a].valid_after >= slot
        /\ mem[a].valid_after = slot + 1 => latest[a].valid_after = slot
    BY <1>3, <1>4, <1>8 DEF Together
  <2> QED
    BY <1>1, <1>2, <1>9, <2>1
<1>11. latest[b] # NoDoc
  <2>1. NoDoc.valid_after = 0
    BY DEF NoDoc
  <2> QED
    BY <1>2, <1>9, <2>1
<1>12. Cardinality(Signers(latest[b])) >= Majority
  BY <1>3, <1>8, <1>9 DEF Agreement
<1> DEFINE t == slot + 1
<1>13. t \in {slot, slot + 1} /\ t = slot + 1 /\ t # slot
  BY <1>2
<1>14. Ended(a, mem[a], latest[b], t, mem'[a])
  <2>1. Ended(a, mem[a], latest[b], t, Last(sr_act_post_consensus(mem[a], a, latest[b], t)))
    BY <1>2, <1>11, <1>13, ConsensusValue
  <2> QED
    BY <1>5, <2>1
<1>15. \A c \in Authorities : pending'[a][c] = NoVote
  BY <1>3, <1>4, <1>7, <1>8 DEF Cast
<1> HIDE DEF t
<1>16. Turns(a, t)
  BY <1>3, <1>4, <1>5, <1>6, <1>7, <1>9, <1>10, <1>12, <1>13, <1>14, <1>15 DEF Turns
<1> QED
  BY <1>16

LEMMA StepTolerant ==
  ASSUME Good, [Next]_vars, Inv', Calm'
  PROVE  Tolerant'
<1>1. up = Authorities /\ Tolerant
  BY DEF Good, Tolerant
<1>2. CASE \E a \in Authorities :
             \/ Crash(a) \/ sr_init(a)
             \/ dirvote_perform_vote(a) \/ dirvote_compute_consensuses(a)
             \/ PublishConsensus(a) \/ FetchConsensus(a)
             \/ \E b \in Authorities : dirvote_add_vote(a, b)
  <2>1. PICK a \in Authorities :
             \/ Crash(a) \/ sr_init(a)
             \/ dirvote_perform_vote(a) \/ dirvote_compute_consensuses(a)
             \/ PublishConsensus(a) \/ FetchConsensus(a)
             \/ \E b \in Authorities : dirvote_add_vote(a, b)
    BY <1>2
  <2>2. ~Crash(a)
    <3>1. crashes[a] = 0 /\ crashes'[a] = 0
      BY DEF Good, Calm
    <3>2. crashes \in [Authorities -> Nat]
      BY DEF Good, Inv, Shape, Processes
    <3> QED
      BY <3>1, <3>2 DEF Crash
  <2>3. ~sr_init(a)
    BY <1>1 DEF sr_init
  <2>4. CASE PublishConsensus(a) \/ FetchConsensus(a)
    BY <2>4, PublishTurns, FetchTurns, TurnTolerant
  <2> QED
    BY <2>1, <2>2, <2>3, <2>4, VoteTolerant, ComputeTolerant, AddVoteTolerant
<1>3. CASE EndVoting \/ EndBuild \/ EndPublish
  BY <1>3, EndVotingTolerant, EndBuildTolerant, EndPublishTolerant
<1>4. CASE Horizon \/ UNCHANGED vars
  <2>1. UNCHANGED vars
    BY <1>4 DEF Horizon
  <2>2. Together' /\ LearnedInTime' /\ CommitsAgree'
    BY <1>1, <2>1 DEF Tolerant, vars, Together, LearnedInTime, Elapsed, CommitsAgree
  <2>3. Cast'
    BY <1>1, <2>1 DEF Tolerant, vars, Cast, Posted, Got
  <2>4. Agreement'
    BY <1>1, <2>1 DEF Tolerant, vars, Agreement, Built, Signers
  <2>5. Values'
    BY <1>1, <2>1 DEF Tolerant, vars, Values, Ready
  <2> QED
    BY <1>1, <2>1, <2>2, <2>3, <2>4, <2>5 DEF Tolerant, vars
<1> QED
  BY <1>2, <1>3, <1>4 DEF Next

LEMMA InitTolerant ==
  ASSUME Init
  PROVE  Tolerant /\ Counted
<1> DEFINE T == TotalRounds
<1>1. T \in Nat /\ T >= 2 /\ SHARED_RANDOM_N_ROUNDS \in Nat
  BY Rounds
<1>2. /\ slot = T - 1 /\ stage = "vote" /\ todo = Authorities /\ up = Authorities
      /\ losses = 0 /\ misses = 0 /\ post = NoVotes
      /\ pending = [a \in Authorities |-> NoVotes]
  BY DEF Init
<1>3. ASSUME NEW a \in Authorities
      PROVE  /\ mem[a].valid_after = T
             /\ mem[a].commits = {[auth |-> a, ts |-> T, n |-> 0, reveal |-> TRUE]}
             /\ mem[a].current_srv = FirstSrv
             /\ mem[a].is_srv_fresh = TRUE
             /\ latest[a].valid_after = slot /\ latest[a].current_srv = OldSrv
  BY DEF Init, NoDoc
<1>4. Run(T) = 1 /\ Start(T) = T /\ T % TotalRounds = 0
  <2>1. (T * 1 + 0) \div T = 1 /\ ((T * 1 + 0) % T) = 0
    <3>1. T > 0 /\ 1 \in Nat /\ 0 \in 0 .. T - 1
      BY <1>1
    <3> HIDE DEF T
    <3> QED
      BY <1>1, <3>1, DivisionIs
  <2>2. T * 1 + 0 = T /\ T * 1 = T
    BY <1>1
  <2> QED
    BY <2>1, <2>2 DEF Run, Start
<1> HIDE DEF T
<1>5. Elapsed = T /\ T - 1 >= 1 /\ slot + 1 = T /\ T # slot
  BY <1>1, <1>2 DEF Elapsed
<1>6. Together
  <2>1. ASSUME NEW a \in Authorities, NEW b \in Authorities
        PROVE  latest[a] = latest[b]
    BY DEF Init
  <2>2. ASSUME NEW a \in Authorities, NEW b \in Authorities
        PROVE  mem[a].valid_after = mem[b].valid_after
    <3>1. mem[a].valid_after = T /\ mem[b].valid_after = T
      BY <1>3
    <3> QED
      BY <3>1
  <2>3. ASSUME NEW a \in Authorities
        PROVE  mem[a].valid_after >= slot /\ mem[a].valid_after # slot
    <3>1. mem[a].valid_after = T
      BY <1>3
    <3> QED
      BY <1>1, <1>2, <1>5, <3>1
  <2> QED
    BY <1>2, <2>1, <2>2, <2>3 DEF Together
<1>7. LearnedInTime
  <2>1. ASSUME NEW a \in Authorities
        PROVE  /\ losses >= Elapsed - Start(mem[a].valid_after)
               /\ losses >= (Elapsed - Start(mem[a].valid_after)) - SHARED_RANDOM_N_ROUNDS
    <3>1. mem[a].valid_after = T
      BY <1>3
    <3>2. Start(mem[a].valid_after) = T
      BY <1>4, <3>1
    <3> QED
      BY <1>1, <1>2, <1>5, <3>2
  <2> QED
    BY <2>1 DEF LearnedInTime
<1>8. CommitsAgree
  <2>1. ASSUME NEW a \in Authorities, NEW b \in Authorities
        PROVE  Agreed(mem[a], mem[b]) /\ Alone(b, mem[b])
    <3>1. /\ mem[a].commits = {[auth |-> a, ts |-> T, n |-> 0, reveal |-> TRUE]}
          /\ mem[b].commits = {[auth |-> b, ts |-> T, n |-> 0, reveal |-> TRUE]}
      BY <1>3
    <3>2. Alone(b, mem[b])
      BY <3>1 DEF Alone
    <3>3. ASSUME NEW c \in mem[a].commits, NEW d \in mem[b].commits, c.auth = d.auth
          PROVE  Commitment(c) = Commitment(d)
      <4>1. c.auth = a /\ d.auth = b /\ c.ts = T /\ d.ts = T /\ c.n = 0 /\ d.n = 0
        BY <3>1
      <4> QED
        BY <3>3, <4>1 DEF Commitment
    <3> QED
      BY <3>2, <3>3 DEF Agreed
  <2> QED
    BY <2>1 DEF CommitsAgree
<1>9. Cast
  <2>1. \A a \in Authorities : NoVotes[a] = NoVote
    BY DEF NoVotes
  <2> QED
    BY <1>2, <2>1 DEF Cast
<1>10. Agreement
  BY <1>1, <1>2, <1>3, <1>5 DEF Agreement
<1>11. Values
  <2>1. /\ FirstSrv = [reveals |-> FirstSrv.reveals, prev |-> <<OldSrv>>]
        /\ {c.auth : c \in FirstSrv.reveals} = Authorities
    <3>1. FirstSrv.reveals = {[auth |-> a, ts |-> 0, n |-> 0] : a \in Authorities}
          /\ FirstSrv.prev = <<OldSrv>>
          /\ FirstSrv = [reveals |-> FirstSrv.reveals, prev |-> <<OldSrv>>]
      BY DEF FirstSrv
    <3>2. ASSUME NEW a \in Authorities
          PROVE  \E c \in FirstSrv.reveals : c.auth = a
      <4>1. [auth |-> a, ts |-> 0, n |-> 0] \in FirstSrv.reveals
        BY <3>1
      <4> QED
        BY <4>1
    <3>3. \A c \in FirstSrv.reveals : c.auth \in Authorities
      BY <3>1
    <3> QED
      BY <3>1, <3>2, <3>3
  <2>2. ASSUME NEW a \in Authorities
        PROVE  LET v == mem[a].current_srv
               IN  /\ v = [reveals |-> v.reveals, prev |-> <<latest[a].current_srv>>]
                   /\ {c.auth : c \in v.reveals} = Authorities
    <3>1. mem[a].current_srv = FirstSrv /\ latest[a].current_srv = OldSrv
      BY <1>3
    <3> QED
      BY <2>1, <3>1
  <2>3. ASSUME NEW a \in Authorities, NEW b \in Authorities
        PROVE  mem[a].current_srv.reveals = mem[b].current_srv.reveals
    BY <1>3
  <2>4. (slot + 1) % TotalRounds = 0
    BY <1>4, <1>5
  <2>5. stage # "publish" /\ \A a \in Authorities : mem[a].is_srv_fresh
    BY <1>2, <1>3
  <2> QED
    BY <2>2, <2>3, <2>4, <2>5 DEF Values
<1> QED
  BY <1>2, <1>6, <1>7, <1>8, <1>9, <1>10, <1>11 DEF Tolerant, Counted

(* Authorities that have computed a value for the same round have computed *)
(* the same value.                                                         *)
LEMMA ToleratedLoss ==
  ASSUME Inv, Backed, Counted, Calm => Tolerant
  PROVE  LossIsTolerated
<1> SUFFICES ASSUME Calm
             PROVE  \A a, b \in {c \in up : mem[c].is_srv_fresh} :
                      /\ {c.auth : c \in mem[a].current_srv.reveals} = Authorities
                      /\ mem[a].valid_after = mem[b].valid_after =>
                           mem[a].current_srv = mem[b].current_srv
  BY DEF LossIsTolerated, Calm
<1>1. Good
  BY DEF Good
<1>2. Values /\ Together /\ Agreement
  BY DEF Tolerant
<1>3. up = Authorities /\ todo \subseteq Authorities /\ slot \in Nat
      /\ \A c \in Authorities : latest[c].valid_after \in Nat /\ latest[c].valid_after <= slot
  BY <1>1, GoodFacts
<1>4. ASSUME NEW a \in Authorities, mem[a].is_srv_fresh
      PROVE  {c.auth : c \in mem[a].current_srv.reveals} = Authorities
  BY <1>2, <1>4 DEF Values
<1>5. ASSUME NEW a \in Authorities, NEW b \in Authorities,
             mem[a].is_srv_fresh, mem[b].is_srv_fresh, mem[a].valid_after = mem[b].valid_after
      PROVE  mem[a].current_srv = mem[b].current_srv
  <2>1. Ready(a) <=> Ready(b)
    <3>1. ASSUME NEW c \in Authorities, NEW d \in Authorities, Ready(c), ~Ready(d),
                 mem[c].is_srv_fresh
          PROVE  mem[c].valid_after # mem[d].valid_after
      <4>1. stage = "publish" /\ c \notin todo /\ d \in todo
        BY <3>1 DEF Ready
      <4>2. mem[c].valid_after > mem[d].valid_after
        BY <1>2, <3>1, <4>1 DEF Values
      <4>3. mem[c].valid_after \in Nat
        BY <1>1, GoodFacts
      <4> QED
        BY <4>2, <4>3
    <3> QED
      BY <1>5, <3>1
  <2>2. mem[a].current_srv.reveals = mem[b].current_srv.reveals
    BY <1>2, <1>5, <2>1 DEF Values
  <2>3. latest[a] = latest[b]
    <3>1. CASE stage # "publish"
      BY <1>2, <3>1 DEF Together
    <3>2. CASE stage = "publish" /\ a \in todo
      <4>1. b \in todo
        BY <2>1, <3>2 DEF Ready
      <4>2. latest[a].valid_after < slot /\ latest[b].valid_after < slot
        BY <1>3, <3>2, <4>1 DEF Inv, Newest
      <4> QED
        BY <1>2, <3>2, <4>2 DEF Agreement
    <3>3. CASE stage = "publish" /\ a \notin todo
      <4>1. b \notin todo
        BY <2>1, <3>3 DEF Ready
      <4>2. ASSUME NEW c \in {a, b}
            PROVE  latest[c].valid_after = slot <=> mem[c].valid_after = slot + 1
        <5>1. c \in Authorities /\ c \notin todo
          BY <3>3, <4>1
        <5>2. mem[c].valid_after = slot + 1 \/ latest[c].valid_after < slot
          BY <1>3, <5>1 DEF Inv, Newest
        <5>3. mem[c].valid_after = slot + 1 => latest[c].valid_after = slot
          BY <1>2, <3>3, <5>1 DEF Together
        <5> QED
          BY <1>3, <5>1, <5>2, <5>3
      <4>3. latest[a].valid_after = slot <=> latest[b].valid_after = slot
        BY <1>5, <4>2
      <4>4. CASE latest[a].valid_after = slot
        BY <1>1, <3>3, <4>3, <4>4, SameConsensus
      <4>5. CASE latest[a].valid_after # slot
        <5>1. latest[a].valid_after < slot /\ latest[b].valid_after < slot
          BY <1>3, <4>3, <4>5
        <5> QED
          BY <1>2, <3>3, <5>1 DEF Agreement
      <4> QED
        BY <4>4, <4>5
    <3> QED
      BY <3>1, <3>2, <3>3
  <2>4. /\ mem[a].current_srv = [reveals |-> mem[a].current_srv.reveals,
                                 prev |-> <<latest[a].current_srv>>]
        /\ mem[b].current_srv = [reveals |-> mem[b].current_srv.reveals,
                                 prev |-> <<latest[b].current_srv>>]
    BY <1>2, <1>5 DEF Values
  <2> DEFINE Value(r, d) == [reveals |-> r, prev |-> <<d.current_srv>>]
  <2>5. /\ mem[a].current_srv = Value(mem[a].current_srv.reveals, latest[a])
        /\ mem[b].current_srv = Value(mem[b].current_srv.reveals, latest[b])
    BY <2>4
  <2> HIDE DEF Value
  <2> QED
    BY <2>2, <2>3, <2>5
<1> QED
  BY <1>3, <1>4, <1>5

(* The rounds of a phase make up for lost votes, for any number of         *)
(* authorities and rounds: with fewer votes lost than a phase has rounds,  *)
(* no crash, and every consensus downloaded before the next round, all     *)
(* authorities compute the same new value from the reveals of all of them  *)
(* (sr_handle_received_commits).  What an authority has not learned has    *)
(* cost a lost vote in every round of the phase; a state that is a round   *)
(* behind has cost one too, as without a loss all build one consensus.     *)
THEOREM LossesAreTolerated == Spec => []LossIsTolerated
<1>1. Init => Inv /\ Backed /\ Counted /\ (Calm => Tolerant)
  BY InitInv, InitBacked, InitTolerant
<1>2. Inv /\ Backed /\ Counted /\ (Calm => Tolerant) /\ [Next]_vars
        => Inv' /\ Backed' /\ Counted' /\ (Calm => Tolerant)'
  <2> SUFFICES ASSUME Inv, Backed, Counted, Calm => Tolerant, [Next]_vars
               PROVE  Inv' /\ Backed' /\ Counted' /\ (Calm' => Tolerant')
    OBVIOUS
  <2>1. Inv' /\ Backed' /\ Counted' /\ (Calm' => Calm)
    BY StepInv, StepBacked, CountsGrow
  <2>2. ASSUME Calm'
        PROVE  Tolerant'
    <3>1. Good
      BY <2>1, <2>2 DEF Good
    <3> QED
      BY <2>1, <2>2, <3>1, StepTolerant
  <2> QED
    BY <2>1, <2>2
<1>3. Inv /\ Backed /\ Counted /\ (Calm => Tolerant) => LossIsTolerated
  BY ToleratedLoss
<1> QED
  BY <1>1, <1>2, <1>3, PTL DEF Spec

=============================================================================
