---------------------------- MODULE SharedRandom ----------------------------
(***************************************************************************)
(* The shared randomness protocol of the directory authorities             *)
(* (feature/dirauth/shared_random.c and shared_random_state.c), driven by  *)
(* the voting rounds of dirvote.c.                                         *)
(*                                                                         *)
(* A protocol run is SHARED_RANDOM_N_ROUNDS voting rounds of commits       *)
(* followed by as many of reveals.  Each authority keeps its view of the   *)
(* run in memory and writes it to disk after every single change           *)
(* (state_query), so a crash inside a handler can leave any of the images  *)
(* the handler writes.  Votes may be lost, consensuses may fail or reach   *)
(* an authority late, and an authority that comes back resumes from disk.  *)
(*                                                                         *)
(* Time is counted in voting intervals: during interval `slot' the         *)
(* authorities vote for the consensus of round slot + 1, which starts to   *)
(* hold when that interval begins.  Clocks agree.                          *)
(***************************************************************************)
EXTENDS Integers, FiniteSets, Sequences, SequencesExt

CONSTANTS
  Authorities,             \* the v3 directory authorities
  SHARED_RANDOM_N_ROUNDS,  \* rounds of each phase; 12 in the code
  NumSRVAgreements,        \* AuthDirNumSRVAgreements, a consensus parameter
  MaxLosses,               \* bound: votes that never arrive
  MaxMisses,               \* bound: consensuses an authority goes without
  MaxCrashes,              \* bound: crashes, of all the authorities together
  LastSlot                 \* bound: the interval at which a behaviour ends

TotalRounds == 2 * SHARED_RANDOM_N_ROUNDS

ASSUME SharedRandomAssumption ==
  /\ IsFiniteSet(Authorities) /\ Authorities # {}
  /\ SHARED_RANDOM_N_ROUNDS \in Nat \ {0}
  /\ NumSRVAgreements \in Nat
  /\ MaxLosses \in Nat /\ MaxMisses \in Nat /\ MaxCrashes \in Nat
  /\ LastSlot \in Nat /\ LastSlot >= TotalRounds

VARIABLES
  slot,      \* the current voting interval
  stage,     \* what the clock has come to in it: "publish", "vote" or "build"
  todo,      \* authorities whose dirvote_act has yet to run for this stage
  up,        \* authorities whose process is running
  crashes,   \* how often each authority has crashed
  mem,       \* sr_state: what each authority holds in memory
  disk,      \* the state file of each authority
  post,      \* the vote each authority has posted for this round
  pending,   \* pending_vote_list: pending[a][b] is the vote of b that a holds
  docs,      \* the consensus each authority has built and signed
  latest,    \* the newest consensus each authority has (cached on its disk)
  losses,    \* votes lost so far
  misses,    \* consensuses missed so far
  torn,      \* history: authorities that died between two writes of a handler
  voted,     \* history: commitments authorities have put in their own votes
  revealed   \* history: commitments whose reveal value has been in a vote

vars == <<slot, stage, todo, up, crashes, mem, disk, post, pending, docs, latest,
          losses, misses, torn, voted, revealed>>

COMMIT == "commit"
REVEAL == "reveal"

NoSrv == [reveals |-> {}, prev |-> <<>>]   \* a missing shared random value
NoVote == [commits |-> {}, previous_srv |-> NoSrv, current_srv |-> NoSrv,
           pub |-> -1]
NoDoc == [valid_after |-> 0, votes |-> {}, previous_srv |-> NoSrv,
          current_srv |-> NoSrv]

\* A commit is known by its author, its timestamp and the random number drawn
\* for it; two draws of an authority for one timestamp are apart by a restart.
Commitment(c) == [auth |-> c.auth, ts |-> c.ts, n |-> c.n]
RunOf(c) == c.ts \div TotalRounds

commitments_are_the_same(c, d) == Commitment(c) = Commitment(d)

Majority == (Cardinality(Authorities) \div 2) + 1

-----------------------------------------------------------------------------
(* Phases and times of the protocol.                                       *)

get_sr_protocol_phase(valid_after) ==
  IF valid_after % TotalRounds < SHARED_RANDOM_N_ROUNDS THEN COMMIT ELSE REVEAL

\* The start of the current round plus the rounds left as seen from `now'.
get_state_valid_until_time(now) == slot + (TotalRounds - (now % TotalRounds))

-----------------------------------------------------------------------------
(* The state in memory and the state on disk.                              *)

\* What disk_state_update copies: neither the phase nor the fresh flag.
disk_state_update(m) ==
  [valid_after |-> m.valid_after, valid_until |-> m.valid_until,
   commits |-> m.commits, previous_srv |-> m.previous_srv,
   current_srv |-> m.current_srv]

state_new ==
  [valid_after |-> 0, valid_until |-> get_state_valid_until_time(slot),
   phase |-> get_sr_protocol_phase(slot), commits |-> {},
   previous_srv |-> NoSrv, current_srv |-> NoSrv, is_srv_fresh |-> FALSE]

\* The time of a step is inside its interval, past the instant it began.
disk_state_validate(d) ==
  /\ d.valid_until > slot
  /\ d.valid_after < d.valid_until

\* The mutant forgets the commits of the file.
disk_state_parse_without_commits(d) ==
  [valid_after |-> d.valid_after, valid_until |-> d.valid_until,
   phase |-> get_sr_protocol_phase(d.valid_after), commits |-> {},
   previous_srv |-> d.previous_srv, current_srv |-> d.current_srv,
   is_srv_fresh |-> FALSE]

disk_state_parse(d) ==
  [valid_after |-> d.valid_after, valid_until |-> d.valid_until,
   phase |-> get_sr_protocol_phase(d.valid_after), commits |-> d.commits,
   previous_srv |-> d.previous_srv, current_srv |-> d.current_srv,
   is_srv_fresh |-> FALSE]

\* Our own commit has its reveal value from the start.
sr_generate_our_commit(a, timestamp) ==
  [auth |-> a, ts |-> timestamp, n |-> crashes[a], reveal |-> TRUE]

sr_state_add_commit(m, c) == [m EXCEPT !.commits = @ \cup {c}]

-----------------------------------------------------------------------------
(* The handlers, as the sequence of memory states they write to disk.      *)

\* Three writes: no previous value, the current as previous, no current value.
state_rotate_srv(m) ==
  << [m EXCEPT !.previous_srv = NoSrv],
     [m EXCEPT !.previous_srv = m.current_srv],
     [m EXCEPT !.previous_srv = m.current_srv, !.current_srv = NoSrv] >>

\* The digest of the reveals known, in the order of the authorities, chained
\* to the previous value.
sr_compute_srv(m) ==
  [m EXCEPT !.current_srv =
              [reveals |-> {Commitment(c) : c \in {d \in m.commits : d.reveal}},
               prev |-> <<m.previous_srv>>],
            !.is_srv_fresh = TRUE]

reset_state_for_new_protocol_run(m, valid_after) ==
  [m EXCEPT !.valid_until = get_state_valid_until_time(valid_after),
            !.valid_after = valid_after,
            !.commits = {}]

\* The mutant clears the commits before the value is computed from them.
new_protocol_run_reset_first(m, a, valid_after) ==
  LET clean == reset_state_for_new_protocol_run(m, valid_after)
      srvs == IF m.phase = REVEAL
              THEN LET r == state_rotate_srv(clean)
                   IN  Append(r, sr_compute_srv(r[3]))
              ELSE << >>
      last == IF srvs = << >> THEN clean ELSE Last(srvs)
  IN  <<clean>> \o srvs \o
      <<sr_state_add_commit(last, sr_generate_our_commit(a, valid_after))>>

new_protocol_run(m, a, valid_after) ==
  LET srvs == IF m.phase = REVEAL
              THEN LET r == state_rotate_srv(m)
                   IN  Append(r, sr_compute_srv(r[3]))
              ELSE << >>
      clean == reset_state_for_new_protocol_run(
                 IF srvs = << >> THEN m ELSE Last(srvs), valid_after)
  IN  srvs \o <<clean,
        sr_state_add_commit(clean, sr_generate_our_commit(a, valid_after))>>

sr_state_update(m, a, valid_after) ==
  LET next_phase == get_sr_protocol_phase(valid_after)
      prepared ==
        IF next_phase # m.phase
        THEN IF next_phase = COMMIT THEN new_protocol_run(m, a, valid_after)
                                    ELSE <<m>>
        ELSE IF m.phase = COMMIT /\ m.commits = {}
        THEN <<sr_state_add_commit(m, sr_generate_our_commit(a, valid_after))>>
        ELSE <<m>>
  IN  IF valid_after <= m.valid_after
      THEN <<m>>
      ELSE Append(prepared, [Last(prepared) EXCEPT !.phase = next_phase,
                                                   !.valid_after = valid_after])

\* The mutant prepares the next round only when there is no consensus.
sr_act_without_update(m, a, consensus, valid_after) ==
  IF consensus = NoDoc
  THEN sr_state_update(m, a, valid_after)
  ELSE <<[m EXCEPT !.is_srv_fresh = FALSE,
                   !.previous_srv = consensus.previous_srv,
                   !.current_srv = consensus.current_srv]>>

\* The two values are deleted, then those of the consensus are set, one write
\* each; then the state is prepared for the round at valid_after.
sr_act_post_consensus(m, a, consensus, valid_after) ==
  LET noprev == [m EXCEPT !.previous_srv = NoSrv]
      clean == [noprev EXCEPT !.current_srv = NoSrv]
      prev == [clean EXCEPT !.is_srv_fresh = FALSE,
                            !.previous_srv = consensus.previous_srv]
      cur == [prev EXCEPT !.current_srv = consensus.current_srv]
  IN  IF consensus = NoDoc
      THEN sr_state_update(m, a, valid_after)
      ELSE <<noprev, clean, prev, cur>> \o sr_state_update(cur, a, valid_after)

\* A state file that cannot be used is replaced by a new state; either way the
\* state is then prepared for the next round.
sr_state_init(a) ==
  LET m == IF disk_state_validate(disk[a]) THEN disk_state_parse(disk[a])
                                           ELSE state_new
  IN  <<m>> \o sr_state_update(m, a, slot + 1)

-----------------------------------------------------------------------------
(* Commits in votes.                                                       *)

\* The reveal values of honest authorities match (verify_commit_and_reveal).
should_keep_commit(m, c, voter) ==
  LET saved == {s \in m.commits : s.auth = c.auth}
  IN  /\ c.auth = voter
      /\ IF m.phase = COMMIT
         THEN saved = {} /\ ~c.reveal
         ELSE /\ c.reveal
              /\ \E s \in saved : commitments_are_the_same(c, s) /\ ~s.reveal

\* The mutant adds the revealed commit beside the saved one.
save_commit_twice(m, c) == sr_state_add_commit(m, c)

\* In the reveal phase the reveal value is copied into the saved commit.
save_commit_to_state(m, c) ==
  IF m.phase = COMMIT
  THEN sr_state_add_commit(m, c)
  ELSE [m EXCEPT !.commits =
          {IF s.auth = c.auth THEN [s EXCEPT !.reveal = TRUE] ELSE s : s \in @}]

\* The mutant takes a commit that is first seen in the reveal phase.
sr_handle_late_commits(m, commits, voter) ==
  LET first == {c \in commits : c.auth = voter /\ \A s \in m.commits : s.auth # voter}
      kept == {c \in commits : should_keep_commit(m, c, voter)}
  IN  IF first # {} THEN sr_state_add_commit(m, CHOOSE c \in first : TRUE)
      ELSE IF kept = {} THEN m
      ELSE save_commit_to_state(m, CHOOSE c \in kept : TRUE)

\* A voter has one commit of its own in its vote at most.
sr_handle_received_commits(m, commits, voter) ==
  LET kept == {c \in commits : should_keep_commit(m, c, voter)}
  IN  IF kept = {} THEN m
      ELSE save_commit_to_state(m, CHOOSE c \in kept : TRUE)

\* The mutant never sends a reveal value.
sr_get_string_for_vote_hidden(a) ==
  [commits |-> {[c EXCEPT !.reveal = FALSE] : c \in mem[a].commits},
   previous_srv |-> mem[a].previous_srv,
   current_srv |-> mem[a].current_srv,
   pub |-> post[a].pub + 1]

\* Reveal values are left out of votes until the reveal phase.
sr_get_string_for_vote(a) ==
  [commits |-> {IF mem[a].phase = COMMIT THEN [c EXCEPT !.reveal = FALSE] ELSE c
                : c \in mem[a].commits},
   previous_srv |-> mem[a].previous_srv,
   current_srv |-> mem[a].current_srv,
   pub |-> post[a].pub + 1]

-----------------------------------------------------------------------------
(* Shared random values in the consensus.                                  *)

should_keep_srv(m, n_agreements) ==
  /\ n_agreements >= Majority
  /\ m.is_srv_fresh => n_agreements >= NumSRVAgreements

\* Any value with a majority is the most frequent one.
get_majority_srv_from_votes(m, srvs) ==
  LET Agreeing(v) == Cardinality({b \in DOMAIN srvs : srvs[b] = v})
      kept == {v \in {srvs[b] : b \in DOMAIN srvs} \ {NoSrv} :
                 should_keep_srv(m, Agreeing(v))}
  IN  IF kept = {} THEN NoSrv ELSE CHOOSE v \in kept : TRUE

\* The documents of two authorities differ as soon as the votes do.
networkstatus_compute_consensus(a) ==
  LET voters == {b \in Authorities : pending[a][b] # NoVote}
      Srvs(f) == [b \in voters |-> pending[a][b][f]]
  IN  [valid_after |-> slot + 1,
       votes |-> {<<b, pending[a][b].pub>> : b \in voters},
       previous_srv |-> get_majority_srv_from_votes(mem[a], Srvs("previous_srv")),
       current_srv |-> get_majority_srv_from_votes(mem[a], Srvs("current_srv"))]

-----------------------------------------------------------------------------
(* Processes.                                                              *)

NoState == [phase |-> "down"]
NoVotes == [b \in Authorities |-> NoVote]
CrashCount == MapThenSumSet(LAMBDA a : crashes[a], Authorities)

\* The values of the two runs before the first one of a behaviour.
OldSrv == [reveals |-> {}, prev |-> <<NoSrv>>]
FirstSrv == [reveals |-> {[auth |-> a, ts |-> 0, n |-> 0] : a \in Authorities},
             prev |-> <<OldSrv>>]

\* Every authority has just published the last consensus of a run and prepared
\* its state for the first round of the next.
Init ==
  /\ slot = TotalRounds - 1
  /\ stage = "vote"
  /\ todo = Authorities
  /\ up = Authorities
  /\ crashes = [a \in Authorities |-> 0]
  /\ mem = [a \in Authorities |->
              [valid_after |-> TotalRounds, valid_until |-> slot + TotalRounds,
               phase |-> COMMIT,
               commits |-> {[auth |-> a, ts |-> TotalRounds, n |-> 0,
                             reveal |-> TRUE]},
               previous_srv |-> OldSrv, current_srv |-> FirstSrv,
               is_srv_fresh |-> TRUE]]
  /\ disk = [a \in Authorities |-> disk_state_update(mem[a])]
  /\ post = NoVotes
  /\ pending = [a \in Authorities |-> NoVotes]
  /\ docs = [a \in Authorities |-> NoDoc]
  /\ latest = [a \in Authorities |->
                 [NoDoc EXCEPT !.valid_after = slot, !.current_srv = OldSrv]]
  /\ losses = 0
  /\ misses = 0
  /\ torn = {}
  /\ voted = {}
  /\ revealed = {}

\* Authority a runs a handler that writes the given states one after the other;
\* it finishes, or the process dies between two of the writes.
Runs(a, writes) ==
  \/ /\ mem' = [mem EXCEPT ![a] = Last(writes)]
     /\ disk' = [disk EXCEPT ![a] = disk_state_update(Last(writes))]
     /\ up' = up \cup {a}
     /\ UNCHANGED <<crashes, torn>>
  \/ /\ CrashCount < MaxCrashes
     /\ \E i \in 1 .. Len(writes) - 1 :
          disk' = [disk EXCEPT ![a] = disk_state_update(writes[i])]
     /\ mem' = [mem EXCEPT ![a] = NoState]
     /\ up' = up \ {a}
     /\ crashes' = [crashes EXCEPT ![a] = @ + 1]
     /\ torn' = torn \cup {a}

\* A process dies between two handlers.  A clean shutdown is no different: what
\* sr_save_and_cleanup saves is on disk already.
Crash(a) ==
  /\ a \in up
  /\ CrashCount < MaxCrashes
  /\ crashes' = [crashes EXCEPT ![a] = @ + 1]
  /\ up' = up \ {a}
  /\ todo' = todo \ {a}
  /\ mem' = [mem EXCEPT ![a] = NoState]
  /\ pending' = [pending EXCEPT ![a] = NoVotes]
  /\ UNCHANGED <<slot, stage, disk, post, docs, latest, losses, misses, torn, voted,
                 revealed>>

\* An authority that comes back before voting ends votes (again) at once.
Due(a) == IF stage = "vote" THEN {a} ELSE {}

sr_init(a) ==
  /\ a \notin up
  /\ Runs(a, sr_state_init(a))
  /\ todo' = (todo \cup Due(a)) \cap up'
  /\ UNCHANGED <<slot, stage, post, pending, docs, latest, losses, misses, voted,
                 revealed>>

-----------------------------------------------------------------------------
(* A voting round.                                                         *)

\* A vote of an authority whose vote we hold already replaces it, and then its
\* commits are not looked at.
AddedTo(m, held, vote, voter) ==
  IF held = NoVote THEN sr_handle_received_commits(m, vote.commits, voter) ELSE m

dirvote_perform_vote(a) ==
  /\ stage = "vote" /\ a \in todo
  /\ LET vote == sr_get_string_for_vote(a)
         m == AddedTo(mem[a], pending[a][a], vote, a)
     IN  /\ post' = [post EXCEPT ![a] = vote]
         /\ pending' = [pending EXCEPT ![a][a] = vote]
         /\ mem' = [mem EXCEPT ![a] = m]
         /\ disk' = [disk EXCEPT ![a] = disk_state_update(m)]
         /\ voted' = voted \cup
              {Commitment(c) : c \in {d \in vote.commits : d.auth = a}}
         /\ revealed' = revealed \cup
              {Commitment(c) : c \in {d \in vote.commits : d.reveal}}
  /\ todo' = todo \ {a}
  /\ UNCHANGED <<slot, stage, up, crashes, docs, latest, losses, misses, torn>>

dirvote_add_vote(a, b) ==
  /\ stage = "vote" /\ a \in up /\ a # b
  /\ post[b] # NoVote /\ pending[a][b] # post[b]
  /\ LET m == AddedTo(mem[a], pending[a][b], post[b], b)
     IN  /\ mem' = [mem EXCEPT ![a] = m]
         /\ disk' = [disk EXCEPT ![a] = disk_state_update(m)]
  /\ pending' = [pending EXCEPT ![a][b] = post[b]]
  /\ UNCHANGED <<slot, stage, todo, up, crashes, post, docs, latest, losses,
                 misses, torn, voted, revealed>>

\* Voting ends; votes that have not arrived by now are lost.
EndVoting ==
  LET lost == {p \in up \X Authorities :
                 post[p[2]] # NoVote /\ pending[p[1]][p[2]] # post[p[2]]}
  IN  /\ stage = "vote" /\ todo = {}
      /\ losses + Cardinality(lost) <= MaxLosses
      /\ losses' = losses + Cardinality(lost)
      /\ stage' = "build"
      /\ todo' = up
      /\ UNCHANGED <<slot, up, crashes, mem, disk, post, pending, docs, latest,
                     misses, torn, voted, revealed>>

dirvote_compute_consensuses(a) ==
  /\ stage = "build" /\ a \in todo
  /\ todo' = todo \ {a}
  /\ docs' = [docs EXCEPT ![a] =
       IF Cardinality({b \in Authorities : pending[a][b] # NoVote}) >= Majority
       THEN networkstatus_compute_consensus(a) ELSE NoDoc]
  /\ UNCHANGED <<slot, stage, up, crashes, mem, disk, post, pending, latest,
                 losses, misses, torn, voted, revealed>>

\* The next interval starts.
EndBuild ==
  /\ stage = "build" /\ todo = {}
  /\ slot' = slot + 1
  /\ stage' = "publish"
  /\ todo' = up
  /\ UNCHANGED <<up, crashes, mem, disk, post, pending, docs, latest, losses,
                 misses, torn, voted, revealed>>

\* The signatures of a majority may not have reached this authority in time, but
\* have reached another one.  Only a new consensus makes the voting schedule move
\* on before the shared random state asks it for the next round.
PublishConsensus(a) ==
  LET signers == {b \in Authorities : docs[b] = docs[a]}
      enough == docs[a] # NoDoc /\ Cardinality(signers) >= Majority
  IN  /\ stage = "publish" /\ a \in todo
      /\ \E published \in IF enough THEN BOOLEAN ELSE {FALSE} :
           /\ enough => published \/ \E b \in Authorities : latest[b] = docs[a]
           /\ latest' = [latest EXCEPT ![a] = IF published THEN docs[a] ELSE @]
           /\ Runs(a, sr_act_post_consensus(mem[a], a, latest'[a],
                        IF published THEN slot + 1 ELSE slot))
      /\ todo' = todo \ {a}
      /\ pending' = [pending EXCEPT ![a] = NoVotes]
      /\ UNCHANGED <<slot, stage, post, docs, losses, misses, voted, revealed>>

\* A consensus newer than ours is downloaded.  The schedule it recalculates has
\* not voted yet: a vote already cast is cast again.
FetchConsensus(a) ==
  /\ stage \in {"publish", "vote"}
  /\ a \in up
  /\ stage = "publish" => a \notin todo
  /\ \E b \in Authorities :
       /\ latest[b].valid_after > latest[a].valid_after
       /\ latest' = [latest EXCEPT ![a] = latest[b]]
       /\ Runs(a, sr_act_post_consensus(mem[a], a, latest[b], slot + 1))
  /\ todo' = (todo \cup Due(a)) \cap up'
  /\ pending' = [pending EXCEPT ![a] = IF a \in up' THEN @ ELSE NoVotes]
  /\ UNCHANGED <<slot, stage, post, docs, losses, misses, voted, revealed>>

\* Voting starts late in the interval; by then a running authority has the
\* newest consensus that some authority has, or goes without it for now.
EndPublish ==
  LET behind == {a \in up : \E b \in Authorities :
                   latest[b].valid_after > latest[a].valid_after}
  IN
  /\ stage = "publish" /\ todo = {}
  /\ slot < LastSlot
  /\ misses + Cardinality(behind) <= MaxMisses
  /\ misses' = misses + Cardinality(behind)
  /\ stage' = "vote"
  /\ todo' = up
  /\ post' = NoVotes
  /\ docs' = [a \in Authorities |-> NoDoc]
  /\ UNCHANGED <<slot, up, crashes, mem, disk, pending, latest, losses, torn, voted,
                 revealed>>

\* The end of the time a behaviour covers.
Horizon ==
  /\ stage = "publish" /\ todo = {} /\ slot = LastSlot
  /\ UNCHANGED vars

Next ==
  \/ \E a \in Authorities :
       \/ Crash(a) \/ sr_init(a)
       \/ dirvote_perform_vote(a) \/ dirvote_compute_consensuses(a)
       \/ PublishConsensus(a) \/ FetchConsensus(a)
       \/ \E b \in Authorities : dirvote_add_vote(a, b)
  \/ EndVoting \/ EndBuild \/ EndPublish \/ Horizon

Spec == Init /\ [][Next]_vars

-----------------------------------------------------------------------------
(* Properties.                                                             *)

\* The type invariant: running authorities have a state with at most one commit
\* of each authority (sr_state->commits is a map from authorities), and the file
\* of each authority is what its memory was after some change.
SrTypeOK ==
  /\ slot \in TotalRounds - 1 .. LastSlot
  /\ stage \in {"vote", "build", "publish"}
  /\ todo \subseteq up /\ up \subseteq Authorities
  /\ \A a \in up :
       /\ mem[a].phase \in {COMMIT, REVEAL}
       /\ mem[a].is_srv_fresh \in BOOLEAN
       /\ \A c, d \in mem[a].commits : c.auth = d.auth => c = d
       /\ disk[a] = disk_state_update(mem[a])

\* An authority that has died between two writes of a handler has a file with
\* a state it never was in; it may die in this way once.
ResumesFromItsFile(a) == a \in torn => crashes[a] <= 1

\* No double voting: an authority never puts two different commitments in its
\* votes of one protocol run, however often it restarts, unless it has died
\* between two writes of one handler and then a second time ("to avoid double
\* voting, each dirauth saves the current state of the protocol on disk",
\* shared_random.c; sr_state_update, new_protocol_run and state_new).
OneCommitmentPerRun ==
  \A c, d \in voted :
    c.auth = d.auth /\ RunOf(c) = RunOf(d) /\ ResumesFromItsFile(c.auth) => c = d

\* Commitments are binding: an authority whose state is that of the round being
\* voted on learns of no commitment (should_keep_commit) once any reveal value
\* of the current run has been in a vote (sr_get_string_for_vote).
NoCommitAfterReveal ==
  [][\A a \in up \cap up' :
       mem[a].valid_after = slot + 1 =>
         \A c \in mem'[a].commits :
           \/ \E d \in mem[a].commits : commitments_are_the_same(c, d)
           \/ \A r \in revealed' : RunOf(r) # (slot + 1) \div TotalRounds]_vars

\* While fewer authorities than a majority have ever crashed, a current shared
\* random value that gets into a consensus has in it the reveal of an authority
\* that has not (new_protocol_run, sr_compute_srv, should_keep_srv).
PublishedSrvIsRandom ==
  LET crashed == {a \in Authorities : crashes[a] > 0}
  IN  Cardinality(crashed) < Majority =>
        \A a \in Authorities :
          LET srv == latest[a].current_srv
          IN  srv \notin {NoSrv, OldSrv} =>
                \E c \in srv.reveals : c.auth \notin crashed

\* The rounds of a phase make up for lost votes: with fewer votes lost than a
\* phase has rounds, no crash, and every consensus received before the next vote,
\* all authorities that compute a new value compute the same, from the reveals of
\* all of them (sr_handle_received_commits in every round).
LossIsTolerated ==
  LET fresh == {a \in up : mem[a].is_srv_fresh}
      steady == \A a \in Authorities : crashes[a] = 0
  IN  losses < SHARED_RANDOM_N_ROUNDS /\ misses = 0 /\ steady =>
        \A a, b \in fresh :
          /\ {c.auth : c \in mem[a].current_srv.reveals} = Authorities
          /\ mem[a].valid_after = mem[b].valid_after =>
               mem[a].current_srv = mem[b].current_srv

\* "Prepare our state so that it's ready for the next voting period"
\* (sr_act_post_consensus): an authority votes with the state of another round
\* only while it has not got the consensus that started this interval.
LagsOnlyWithoutConsensus ==
  stage = "vote" =>
    \A a \in up : mem[a].valid_after # slot + 1 => latest[a].valid_after < slot

=============================================================================
