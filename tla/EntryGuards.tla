----------------------------- MODULE EntryGuards -----------------------------
(***************************************************************************)
(* How a client picks entry guards for its circuits, and when a circuit    *)
(* through a less preferred guard may be used                              *)
(* (feature/client/entrynodes.c and its callers in core/or).               *)
(*                                                                         *)
(* A guard is named by its sampled_idx, so the sampled order is the order  *)
(* of the numbers, and a list the code keeps in that order is a set here.  *)
(* Which relay a new sample is plays no part.  The clock is nondeterminism:*)
(* a handler is given the guards whose retry delay has passed (`due') and  *)
(* what else has timed out.  Every guard has a descriptor; bridges and the *)
(* guard states of directory connections are left out.                     *)
(***************************************************************************)
EXTENDS Integers, FiniteSets

CONSTANTS
  Circuits,              \* the origin circuits the client has room for
  N_PRIMARY_GUARDS,      \* get_n_primary_guards(); 3 in the code
  N_PRIMARY_TO_USE,      \* get_n_primary_guards_to_use(); 1 in the code
  MIN_FILTERED_SAMPLE,   \* get_min_filtered_sample_size(); 20 in the code
  MAX_SAMPLE,            \* get_max_sample_size()
  FirstSample,           \* how many guards are sampled at first
  FirstAlive,            \* guards that answer at first
  LastGuard,             \* bound: guards that are ever sampled
  Exits,                 \* guards that are also the exit of some circuit
  MaxEvents              \* bound: retry delays that pass, guards that come and go

Guards == 1..LastGuard
None == 0                \* no restriction on the guard of a circuit

ASSUME EntryGuardsAssumption ==
  /\ Circuits # {} /\ IsFiniteSet(Circuits)
  /\ N_PRIMARY_GUARDS \in Nat \ {0} /\ N_PRIMARY_TO_USE \in Nat \ {0}
  /\ MIN_FILTERED_SAMPLE \in Nat \ {0} /\ MAX_SAMPLE \in Nat /\ LastGuard \in Nat
  /\ FirstSample \in 0..LastGuard /\ FirstSample <= MAX_SAMPLE
  /\ FirstAlive \subseteq Guards /\ Exits \subseteq Guards /\ MaxEvents \in Nat

VARIABLES
  gs,        \* guard_selection_t, with the flags of its guards
  circ,      \* the circuits and their circuit_guard_state_t
  measuring, \* circuits of purpose C_MEASURE_TIMEOUT: too late to be used
  passes,    \* guards that pass the filter: listed and allowed by the options
  alive,     \* guards that answer
  events     \* events of the world so far, see MaxEvents

vars == <<gs, circ, measuring, passes, alive, events>>

YES == "yes"
NO == "no"
MAYBE == "maybe"

USABLE_ON_COMPLETION == "usable_on_completion"
USABLE_IF_NO_BETTER_GUARD == "usable_if_no_better_guard"
WAITING_FOR_BETTER_GUARD == "waiting_for_better_guard"
COMPLETE == "complete"
DEAD == "dead"
FREE == "free"           \* no circuit

\* Circuits whose handshakes are not done.
Building == {USABLE_ON_COMPLETION, USABLE_IF_NO_BETTER_GUARD, DEAD}

NoCircuit == [state |-> FREE, guard |-> 0, rst |-> None]

-----------------------------------------------------------------------------
(* Helpers on a guard selection s.  The ones that add guards to the sample *)
(* or look at the filter take `ok', the guards that pass it.               *)

\* The first n members of S in sampled order.
FirstN(S, n) == {g \in S : Cardinality({h \in S : h < g}) < n}

Confirmed(s) == {g \in Guards : s.confirmed_idx[g] >= 0}

Down(s) == {g \in s.sampled : s.reach[g] = NO}

\* Guards of S that were unreachable are worth another try.
ReachableMaybe(s, S) ==
  LET again == S \intersect Down(s)
  IN [s EXCEPT !.reach = [g \in Guards |-> IF g \in again THEN MAYBE ELSE s.reach[g]],
               !.usable = @ \union (again \intersect s.filtered)]

entry_guard_consider_retry(s, due) == ReachableMaybe(s, due)

\* The mutant does not retry anything when no guard is left.
mark_no_guard_maybe_reachable(s) == s

mark_all_guards_maybe_reachable(s) == ReachableMaybe(s, s.sampled)

entry_guard_obeys_restriction(g, rst) == g # rst

\* entry_guard_set_filtered_flags() on each guard of S.
entry_guard_set_filtered_flags(s, S, ok, due) ==
  LET new == S \intersect ok
      flagged ==
        [s EXCEPT !.filtered = (@ \ S) \union new,
                  !.usable = (@ \ S) \union {g \in new : s.reach[g] # NO},
                  !.up_to_date = @ /\ s.filtered \intersect S = new]
  IN entry_guard_consider_retry(flagged, due \intersect new)

\* Sample more guards until MIN_FILTERED_SAMPLE are usable or there is no room.
entry_guards_expand_sample(s, ok) ==
  LET wanted(g) == Cardinality(s.usable) + Cardinality((s.next..(g - 1)) \intersect ok)
                     < MIN_FILTERED_SAMPLE
      room(g) == Cardinality(s.sampled) + (g - s.next) < MAX_SAMPLE
      new == {g \in s.next..LastGuard : wanted(g) /\ room(g)}
  IN entry_guard_set_filtered_flags(
       [s EXCEPT !.sampled = @ \union new, !.next = @ + Cardinality(new)], new, ok, {})

\* The part of first_reachable_filtered_entry_guard() that precedes the choice.
sample_enough(s, rst, ok, due) ==
  LET tried == entry_guard_consider_retry(s, due)
      n == Cardinality({g \in tried.usable : entry_guard_obeys_restriction(g, rst)})
  IN IF n < MIN_FILTERED_SAMPLE THEN entry_guards_expand_sample(tried, ok) ELSE tried

\* Confirmed guards first, then old primary guards, then usable guards.
entry_guards_update_primary(s, ok, due) ==
  LET N == N_PRIMARY_GUARDS
      best == FirstN(Confirmed(s) \intersect s.filtered, N)
      kept == FirstN((s.primary \ best) \intersect s.filtered, N - Cardinality(best))
      old == [s EXCEPT !.primary = best \union kept]
      filled == IF Cardinality(old.primary) < N THEN sample_enough(old, None, ok, due)
                                                ELSE old
      fill == FirstN(filled.usable \ (Confirmed(s) \union old.primary),
                     N - Cardinality(old.primary))
  IN [filled EXCEPT !.primary = @ \union fill, !.up_to_date = TRUE]

PrimaryUpToDate(s, ok, due) ==
  IF s.up_to_date THEN s ELSE entry_guards_update_primary(s, ok, due)

mark_primary_guards_maybe_reachable(s, ok) ==
  LET now == PrimaryUpToDate(s, ok, {}) IN ReachableMaybe(now, now.primary)

entry_guards_note_guard_failure(s, g) ==
  [s EXCEPT !.reach[g] = NO, !.usable = @ \ {g}, !.pending = @ \ {g}]

\* The mutant does not mark the primary guards as out of date.
make_guard_confirmed_quietly(s, g) ==
  [s EXCEPT !.confirmed_idx[g] = s.next_confirmed_idx, !.next_confirmed_idx = @ + 1]

\* This guard is now confirmed, which may make it primary.
make_guard_confirmed(s, g) ==
  [s EXCEPT !.confirmed_idx[g] = s.next_confirmed_idx, !.next_confirmed_idx = @ + 1,
            !.up_to_date = FALSE]

\* Number the confirmed guards without gaps, in the same order.
entry_guards_update_confirmed(s) ==
  LET rank(g) == Cardinality({h \in Confirmed(s) : s.confirmed_idx[h] < s.confirmed_idx[g]})
  IN [s EXCEPT !.confirmed_idx = [g \in Guards |-> IF g \in Confirmed(s) THEN rank(g) ELSE -1],
               !.next_confirmed_idx = Cardinality(Confirmed(s))]

-----------------------------------------------------------------------------
(* The handlers.                                                           *)

\* Circuit c gets guard g.
Assign(c, rst, g, state) ==
  circ' = [circ EXCEPT ![c] = [state |-> state, guard |-> g, rst |-> rst]]

select_primary_guard_for_circuit(s, rst) ==
  FirstN({g \in s.primary : /\ entry_guard_obeys_restriction(g, rst)
                            /\ s.reach[g] # NO}, N_PRIMARY_TO_USE)

select_confirmed_guard_for_circuit(s, rst) ==
  FirstN({g \in Confirmed(s) \ s.primary : /\ entry_guard_obeys_restriction(g, rst)
                                           /\ g \in s.usable \ s.pending}, 1)

select_filtered_guard_for_circuit(s, rst) ==
  FirstN({g \in s.usable \ (Confirmed(s) \union s.primary \union s.pending) :
            entry_guard_obeys_restriction(g, rst)}, 1)

\* What each of the three has to offer a circuit whose guard must not be rst, in
\* the selection the code has arrived at when it asks.
Offers(rst, due) ==
  LET now == PrimaryUpToDate(gs, passes, due)
      s0 == entry_guard_consider_retry(now, due \intersect now.primary)
      s1 == entry_guard_consider_retry(s0, due)
      s2 == PrimaryUpToDate(sample_enough(s1, rst, passes, due), passes, due)
  IN <<[in |-> s0, guards |-> select_primary_guard_for_circuit(s0, rst)],
       [in |-> s1, guards |-> select_confirmed_guard_for_circuit(s1, rst)],
       [in |-> s2, guards |-> select_filtered_guard_for_circuit(s2, rst)]>>

\* guards_choose_guard(): the first offer is taken.  If there is none, every
\* guard is worth another try and the circuit is not launched.
entry_guard_pick_for_circuit(c, rst, due) ==
  LET offers == Offers(rst, due)
  IN /\ circ[c].state = FREE
     /\ \/ \E g \in offers[1].guards :
             /\ gs' = offers[1].in
             /\ Assign(c, rst, g, USABLE_ON_COMPLETION)
        \/ \E i \in 2..3 : \E g \in offers[i].guards :
             /\ \A j \in 1..(i - 1) : offers[j].guards = {}
             /\ gs' = [offers[i].in EXCEPT !.pending = @ \union {g}]
             /\ Assign(c, rst, g, USABLE_IF_NO_BETTER_GUARD)
        \/ /\ \A j \in 1..3 : offers[j].guards = {}
           /\ gs' = mark_all_guards_maybe_reachable(offers[3].in)
           /\ UNCHANGED circ

\* The last hop of circuit c has answered.  If the guard is no longer sampled,
\* the circuit is closed.  `offline': nothing had answered for a long time.
entry_guard_succeeded(c, offline, due) ==
  LET g == circ[c].guard
      s1 == [gs EXCEPT !.reach[g] = YES, !.pending = @ \ {g},
                       !.usable = @ \union ({g} \intersect gs.filtered)]
      s2 == IF g \in Confirmed(gs) THEN s1
            ELSE PrimaryUpToDate(make_guard_confirmed(s1, g), passes, due)
      usable_now == \/ circ[c].state \in {COMPLETE, USABLE_ON_COMPLETION}
                    \/ g \in s2.primary
  IN /\ circ[c].state \in {USABLE_ON_COMPLETION, USABLE_IF_NO_BETTER_GUARD, COMPLETE}
     /\ g \in alive
     /\ \/ /\ g \notin gs.sampled
           /\ circ' = [circ EXCEPT ![c] = NoCircuit]
           /\ UNCHANGED gs
        \/ /\ g \in gs.sampled
           /\ circ' = [circ EXCEPT ![c].state = IF usable_now THEN COMPLETE
                                                ELSE WAITING_FOR_BETTER_GUARD]
           /\ gs' = IF g \notin s2.primary /\ offline
                    THEN mark_primary_guards_maybe_reachable(s2, passes) ELSE s2

\* circuit_free_() on a circuit that did not fail for its guard.
entry_guard_cancel(s, g) == [s EXCEPT !.pending = @ \ {g}]

\* A circuit times out, fails or is done: it is marked for close, and freed when
\* the callbacks of this turn of the main loop are through.  If its first hop
\* never answered, circuit_build_failed() blames the guard.
circuit_mark_for_close(c) ==
  LET g == circ[c].guard
      blamed == /\ circ[c].state \in Building
                /\ circ[c].state = DEAD \/ g \notin alive
  IN /\ circ[c].state # FREE
     /\ circ' = [circ EXCEPT ![c] = NoCircuit]
     /\ measuring' = measuring \ {c}
     /\ gs' = IF g \notin gs.sampled THEN gs
              ELSE IF blamed THEN entry_guards_note_guard_failure(gs, g)
              ELSE entry_guard_cancel(gs, g)

\* The circuit is kept, for a while, but nobody may use it any more.
circuit_build_times_mark_circ_as_measurement_only(c) ==
  /\ circ[c].state = WAITING_FOR_BETTER_GUARD /\ c \notin measuring
  /\ measuring' = measuring \union {c}
  /\ UNCHANGED <<gs, circ>>

\* The build timeout, which spares only open circuits: one that waits for a
\* better guard is closed too, or kept to be measured.  One to be measured that is
\* not built yet is closed when it is: that is a Succeed followed by a Close.
circuit_expire_building(c) ==
  /\ circ[c].state # COMPLETE
  /\ \/ circuit_mark_for_close(c)
     \/ circuit_build_times_mark_circ_as_measurement_only(c)

\* A circuit that has waited for NONPRIMARY_GUARD_IDLE_TIMEOUT is given up.
circuit_expire_waiting_for_better_guard(c) ==
  /\ circ[c].state = WAITING_FOR_BETTER_GUARD
  /\ circuit_mark_for_close(c)

\* The channel to guard g failed before the circuits of C could use it.
entry_guard_chan_failed(g, C) ==
  /\ g \notin alive /\ C # {}
  /\ circ' = [c \in Circuits |-> IF c \in C THEN [circ[c] EXCEPT !.state = DEAD]
                                ELSE circ[c]]
  /\ gs' = IF g \in gs.sampled THEN entry_guards_note_guard_failure(gs, g) ELSE gs

OnChannel(g) == {c \in Circuits : /\ circ[c].guard = g
                                  /\ circ[c].state \in Building \ {DEAD}}

\* a comes before b.  Only asked for a guard b that is confirmed: b is always
\* the guard of a waiting circuit (see WaitingIsConfirmed).
entry_guard_has_higher_priority(s, a, b) ==
  a \in Confirmed(s) /\ s.confirmed_idx[a] < s.confirmed_idx[b]

circ_state_has_higher_priority(s, c, rst, d) ==
  /\ entry_guard_obeys_restriction(circ[c].guard, rst)
  /\ entry_guard_has_higher_priority(s, circ[c].guard, circ[d].guard)

\* Circuits the upgrade looks at, in state st.
Known(s, st) == {c \in Circuits : circ[c].state = st /\ circ[c].guard \in s.sampled}

\* Circuits of the `late' set have been trying for longer than
\* NONPRIMARY_GUARD_CONNECT_TIMEOUT.
Blocks(s, c, best, late) ==
  /\ c \in Known(s, COMPLETE) \union (Known(s, USABLE_IF_NO_BETTER_GUARD) \ late)
  /\ circ_state_has_higher_priority(s, c, circ[best].rst, best)

\* The waiting circuits that become usable when `best' is the best of them.
Upgradable(s, best) ==
  IF circ[best].rst # None THEN {best}
  ELSE {c \in Known(s, WAITING_FOR_BETTER_GUARD) :
          ~circ_state_has_higher_priority(s, best, None, c)}

entry_guards_all_primary_guards_are_down(s) == s.primary \subseteq Down(s)

\* The best of the waiting circuits.
BestWaiting(s) ==
  LET waiting == Known(s, WAITING_FOR_BETTER_GUARD)
  IN {c \in waiting : \A d \in waiting : ~circ_state_has_higher_priority(s, d, None, c)}

\* Those of them that nothing blocks.
Unblocked(s, late) ==
  {b \in BestWaiting(s) : /\ entry_guards_all_primary_guards_are_down(s)
                          /\ \A c \in Circuits : ~Blocks(s, c, b, late)}

\* circuit_upgrade_circuits_from_guard_wait(), once a second.
entry_guards_upgrade_waiting_circuits(late, due) ==
  LET now == PrimaryUpToDate(gs, passes, due)
      s == entry_guard_consider_retry(now, due \intersect now.primary)
  IN /\ \E c \in Circuits : circ[c].state = WAITING_FOR_BETTER_GUARD
     /\ gs' = s
     /\ \/ \E b \in Unblocked(s, late) :
             circ' = [c \in Circuits |-> IF c \in Upgradable(s, b)
                                        THEN [circ[c] EXCEPT !.state = COMPLETE]
                                        ELSE circ[c]]
        \/ /\ BestWaiting(s) \ Unblocked(s, late) # {} \/ BestWaiting(s) = {}
           /\ UNCHANGED circ

\* The mutant leaves a removed guard in the confirmed list.
sampled_guards_prune_but_confirmed(s, gone) ==
  [s EXCEPT !.sampled = @ \ gone, !.primary = @ \ gone, !.filtered = @ \ gone,
            !.usable = @ \ gone, !.pending = @ \ gone,
            !.up_to_date = @ /\ gone = {}]

\* remove_guard_from_confirmed_and_primary_lists() on each guard of `gone'.
sampled_guards_prune(s, gone) ==
  [s EXCEPT !.sampled = @ \ gone, !.primary = @ \ gone, !.filtered = @ \ gone,
            !.usable = @ \ gone, !.pending = @ \ gone,
            !.confirmed_idx = [g \in Guards |-> IF g \in gone THEN -1 ELSE s.confirmed_idx[g]],
            !.up_to_date = @ /\ gone = {}]

\* A consensus or a configuration has arrived: the guards of ok now pass the
\* filter, those of `gone' have been unlisted, or sampled, for too long.
entry_guards_update_all(ok, gone, due) ==
  LET s == entry_guard_set_filtered_flags(sampled_guards_prune(gs, gone),
                                          gs.sampled \ gone, ok, due)
  IN /\ gs' = entry_guards_update_primary(entry_guards_update_confirmed(s), ok, due)
     /\ passes' = ok
     /\ UNCHANGED circ

-----------------------------------------------------------------------------
(* The specification.                                                      *)

\* A new client: the first guards are sampled and none has been tried.
Init ==
  /\ passes = Guards
  /\ gs = entry_guards_update_primary(
            [sampled |-> 1..FirstSample, next |-> FirstSample + 1,
             reach |-> [g \in Guards |-> MAYBE],
             filtered |-> 1..FirstSample, usable |-> 1..FirstSample,
             confirmed_idx |-> [g \in Guards |-> -1],
             next_confirmed_idx |-> 0, primary |-> {}, pending |-> {},
             up_to_date |-> FALSE], passes, {})
  /\ circ = [c \in Circuits |-> NoCircuit]
  /\ measuring = {}
  /\ alive = FirstAlive
  /\ events = 0

\* Retry delays that may have passed when a handler looks.
Due == {S \in SUBSET Down(gs) : events + Cardinality(S) <= MaxEvents}

TimePasses(due) == events' = events + Cardinality(due)

World == <<passes, alive>>

\* Circuits to an exit that is also a guard are an event.
Pick(c) ==
  \E rst \in Exits \union {None}, due \in Due :
    /\ entry_guard_pick_for_circuit(c, rst, due)
    /\ UNCHANGED measuring
    /\ events' = events + Cardinality(due) + (IF rst = None THEN 0 ELSE 1)
    /\ events' <= MaxEvents
    /\ UNCHANGED World

Succeed(c) ==
  \E offline \in BOOLEAN, due \in Due :
    /\ entry_guard_succeeded(c, offline, due)
    /\ UNCHANGED measuring
    /\ events' = events + Cardinality(due) + (IF offline THEN 1 ELSE 0)
    /\ events' <= MaxEvents
    /\ UNCHANGED World

\* A circuit is destroyed, loses its channel or is done with, at any time.
Close(c) == circuit_mark_for_close(c) /\ UNCHANGED events /\ UNCHANGED World

\* The two timeouts.  Neither waits for the other circuits: one that waits for its
\* channel, for instance, outlives one that was built later.
Expire(c) ==
  /\ \/ circuit_expire_building(c)
     \/ circuit_expire_waiting_for_better_guard(c)
  /\ UNCHANGED events /\ UNCHANGED World

ChannelFails ==
  \E g \in Guards : \E C \in SUBSET OnChannel(g) :
    entry_guard_chan_failed(g, C) /\ UNCHANGED <<measuring, events>> /\ UNCHANGED World

Upgrade ==
  \E late \in SUBSET Circuits, due \in Due :
    /\ entry_guards_upgrade_waiting_circuits(late, due)
    /\ TimePasses(due) /\ UNCHANGED measuring /\ UNCHANGED World

\* One guard changes, or the consensus brings nothing new.
UpdateAll ==
  \E ok \in SUBSET Guards, gone \in SUBSET gs.sampled, due \in Due :
    LET changes == Cardinality(gone) + Cardinality((ok \ passes) \union (passes \ ok))
    IN /\ changes = 1 /\ events + Cardinality(due) + changes <= MaxEvents
       /\ entry_guards_update_all(ok, gone, due)
       /\ events' = events + Cardinality(due) + changes
       /\ UNCHANGED <<measuring, alive>>

\* The network: a guard stops to answer, or answers again.
Flap(g) ==
  /\ events < MaxEvents
  /\ events' = events + 1
  /\ alive' = IF g \in alive THEN alive \ {g} ELSE alive \union {g}
  /\ UNCHANGED <<gs, circ, measuring, passes>>

Next ==
  \/ \E c \in Circuits : Pick(c) \/ Succeed(c) \/ Close(c) \/ Expire(c)
  \/ ChannelFails
  \/ Upgrade
  \/ UpdateAll
  \/ \E g \in Guards : Flap(g)

Spec == Init /\ [][Next]_vars

\* No circuit is under way, and there is room for no more.
NoneUnderWay ==
  \A c \in Circuits : circ[c].state \in {WAITING_FOR_BETTER_GUARD, COMPLETE}

\* A client that wants circuits goes on asking for them, also for ones that no
\* exit restricts; a circuit through a guard that answers gets built in time
\* sooner or later, one through a guard that does not is given up, and so are one
\* that is only measured and one that still waits when there is no other under
\* way; the upgrade runs every second.
\*
\* The implications state strong fairness with the enabling condition written
\* out: TLC takes very long to find out whether these actions are enabled.
AskingHelps ==
  LET offers == Offers(None, {})
  IN \/ \E i \in 1..3 : offers[i].guards # {}
     \/ mark_all_guards_maybe_reachable(offers[3].in) # gs

Fairness ==
  /\ \A c \in Circuits :
       /\ []<>(circ[c].state = FREE /\ AskingHelps)
            => []<><<entry_guard_pick_for_circuit(c, None, {}) /\ events' = events>>_vars
       /\ []<>(/\ circ[c].state \in {USABLE_ON_COMPLETION, USABLE_IF_NO_BETTER_GUARD}
               /\ circ[c].guard \in alive)
            => []<><<circ[c].state # COMPLETE /\ Succeed(c)>>_vars
       /\ WF_vars(circ[c].state # COMPLETE /\ circ[c].guard \notin alive /\ Close(c))
       /\ WF_vars(circ[c].state = DEAD /\ Close(c))
       /\ WF_vars(/\ circ[c].state = WAITING_FOR_BETTER_GUARD /\ NoneUnderWay
                  /\ Close(c))
       /\ WF_vars(c \in measuring /\ Close(c))
  /\ []<>(Unblocked(gs, Circuits) # {}) => []<><<Upgrade /\ circ' # circ>>_vars

FairSpec == Spec /\ Fairness

-----------------------------------------------------------------------------
(* Properties.                                                             *)

\* Every variable has its type.
EntryGuardsTypeOK ==
  /\ gs.sampled \subseteq Guards /\ gs.next \in 1..(LastGuard + 1)
  /\ gs.reach \in [Guards -> {YES, NO, MAYBE}]
  /\ gs.filtered \subseteq gs.sampled /\ gs.primary \subseteq gs.sampled
  /\ gs.pending \subseteq gs.sampled /\ gs.usable \subseteq gs.sampled
  /\ gs.confirmed_idx \in [Guards -> Int] /\ Confirmed(gs) \subseteq gs.sampled
  /\ gs.next_confirmed_idx = Cardinality(Confirmed(gs))
  /\ \A g, h \in Confirmed(gs) : /\ gs.confirmed_idx[g] < gs.next_confirmed_idx
                                 /\ gs.confirmed_idx[g] = gs.confirmed_idx[h] => g = h
  /\ gs.up_to_date \in BOOLEAN
  /\ \A c \in Circuits : circ[c] = NoCircuit \/ circ[c].guard \in Guards
  /\ passes \subseteq Guards /\ alive \subseteq Guards /\ measuring \subseteq Circuits

\* A guard is usable exactly if it passes the filter and is not unreachable
\* ("whenever a guard becomes unreachable, clear its usable_filtered flag").
UsableIsUpToDate == gs.usable = {g \in gs.filtered : gs.reach[g] # NO}

\* A guard that is skipped because it is pending has a circuit that will settle
\* it: otherwise it would never be picked again.
PendingHasCircuit ==
  \A g \in gs.pending : \E c \in Circuits :
    circ[c].guard = g /\ circ[c].state = USABLE_IF_NO_BETTER_GUARD

\* A circuit waits only through a confirmed guard, so that the order of the
\* confirmed guards decides between any two.
WaitingIsConfirmed ==
  \A c \in Circuits :
    circ[c].state = WAITING_FOR_BETTER_GUARD /\ circ[c].guard \in gs.sampled
      => circ[c].guard \in Confirmed(gs)

\* A confirmed guard that passes the filter is left out of the primary guards
\* only for confirmed guards that were sampled before it.
ConfirmedFirst ==
  \A g \in (Confirmed(gs) \intersect gs.filtered) \ gs.primary :
    /\ Cardinality(gs.primary) = N_PRIMARY_GUARDS
    /\ \A p \in gs.primary : p \in Confirmed(gs) /\ p < g

\* Primary guards pass the filter, and no handler leaves them out of date.
PrimaryIsFiltered == gs.primary \subseteq gs.filtered /\ gs.up_to_date

\* The flags and lists of the guard selection agree with each other and with
\* the circuits after any order of picks, successes, failures, cancellations
\* and updates (the information invariants at the top of entrynodes.c).
GuardListsAgree ==
  /\ UsableIsUpToDate
  /\ PendingHasCircuit
  /\ WaitingIsConfirmed
  /\ ConfirmedFirst
  /\ PrimaryIsFiltered

\* A guard that answers and that the client may use.
Working == alive \intersect gs.filtered

\* A waiting circuit is given up while others are under way, or could be, or
\* within the second before the upgrade that some circuit could have.
GivenUpEarly(c) ==
  /\ circ[c].state = WAITING_FOR_BETTER_GUARD
  /\ circ'[c].state = FREE \/ c \in measuring' \ measuring
  /\ ~NoneUnderWay \/ Unblocked(gs, Circuits) # {}

\* As long as some guard answers, the client gets a circuit it may use:
\* whatever it believes of its guards, pending flags, failed primary guards
\* and waiting circuits never leave it waiting for each other.  The exception is
\* a client whose waiting circuits time out early, again and again: a primary
\* guard that is retried holds them back, and circuit_expire_building() may close
\* them before that guard is found to be down.
WorkingGuardIsUsed ==
  \/ []<><<\E c \in Circuits : GivenUpEarly(c)>>_vars
  \/ Working # {} ~>
       (Working = {} \/ \E c \in Circuits \ measuring : circ[c].state = COMPLETE)
=============================================================================
