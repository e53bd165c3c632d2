----------------------------- MODULE GuessGuard -----------------------------
(***************************************************************************)
(* The slowing down of password guesses (naco/core/ratelimit.py).  One     *)
(* GuessGuard is shared by all requests of the process; it is read and     *)
(* updated between awaits, so that each operation is one step.             *)
(*                                                                         *)
(* An OrderedDict is a sequence of items with distinct keys, oldest first. *)
(* Time is in whole seconds.                                               *)
(***************************************************************************)
EXTENDS Naturals, Sequences, FiniteSets

CONSTANTS
    None,
    Names,          \* identities
    Sources,        \* stations
    Free,           \* free_attempts
    Cap,            \* cap, in seconds
    Spread,         \* spread
    Window,         \* window and forget_after, in seconds
    MaxKeys,        \* max_keys
    FloatExponent,  \* a float holds no power of two from this one on (1024)
    MaxClock        \* bound on the clock

ASSUME NamesAreFinite == IsFiniteSet(Names) /\ IsFiniteSet(Sources)
ASSUME GuardAssumption ==
    /\ {Free, Cap, Spread, Window, MaxClock} \subseteq Nat
    /\ {MaxKeys, FloatExponent} \subseteq Nat \ {0}

VARIABLES
    clock,     \* time.monotonic()
    pair,      \* _pair._state
    identity,  \* _identity._state
    sources    \* _sources

guardVars == <<clock, pair, identity, sources>>

Pairs == Names \X Sources

---------------------------------------------------------------------------
(* OrderedDict.                                                            *)

Keys(od) == {od[i].key : i \in DOMAIN od}
IsOrderedDict(od, max) == Len(od) <= max /\ \A i, j \in DOMAIN od : od[i].key = od[j].key => i = j
Place(od, k) == CHOOSE i \in DOMAIN od : od[i].key = k
Item(od, k) == od[Place(od, k)]
\* od.pop(key, None)
Without(od, k) ==
    IF k \notin Keys(od) THEN od
    ELSE [j \in 1..(Len(od) - 1) |-> IF j < Place(od, k) THEN od[j] ELSE od[j + 1]]
\* od[key] = ...; move_to_end(key)
Last(od, item) == Append(Without(od, item.key), item)
\* The oldest item makes room for a new key: popitem(last=False).
Room(od, k) == IF k \notin Keys(od) /\ Len(od) >= MaxKeys THEN Tail(od) ELSE od

---------------------------------------------------------------------------
(* ProgressiveDelay                                                        *)

\* _get(): an item without a failure for forget_after seconds is deleted.
get(od, k) == IF k \in Keys(od) /\ clock - Item(od, k).last > Window THEN Without(od, k) ELSE od

\* The failures of a key, the one being recorded included.
Failures(od, k) == IF k \in Keys(get(od, k)) THEN Item(od, k).failures + 1 ELSE 1

\* base * 2 ** (failures - free - 1), with base 1.0, is not a float.
Overflows(od, k, free) == Failures(od, k) > free /\ Failures(od, k) - free - 1 >= FloatExponent

wait(failures, free) ==
    IF failures <= free THEN 0
    ELSE LET doubled == 2 ^ (failures - free - 1) IN IF doubled < Cap THEN doubled ELSE Cap

\* failure(); it raises OverflowError before anything is stored.
delay_failure(od, k, free) ==
    IF Overflows(od, k, free) THEN get(od, k)
    ELSE LET n == Failures(od, k)
         IN  Last(Room(get(od, k), k), [key |-> k, failures |-> n, next |-> clock + wait(n, free), last |-> clock])

\* delay_for()
Delay(od, k) ==
    IF k \in Keys(get(od, k)) /\ Item(od, k).next > clock THEN Item(od, k).next - clock ELSE 0

---------------------------------------------------------------------------
(* GuessGuard                                                              *)

GuardInit == clock = 0 /\ pair = <<>> /\ identity = <<>> /\ sources = <<>>

\* Mutant of failing_sources: a source is never forgotten.
failing_sources_for_good(name) == IF name \in Keys(sources) THEN Item(sources, name).at ELSE <<>>

\* _failing_sources(): the time of the last failure of each source, for those
\* within the window.
failing_sources(name) ==
    LET at == IF name \in Keys(sources) THEN Item(sources, name).at ELSE <<>>
    IN  [s \in {s \in DOMAIN at : clock - at[s] <= Window} |-> at[s]]

Spreads(name) == Cardinality(DOMAIN failing_sources(name)) >= Spread

\* The dictionary of failing sources is pruned where it is stored.
Pruned == [i \in DOMAIN sources |-> [sources[i] EXCEPT !.at = failing_sources(sources[i].key)]]
PrunedFor(name) == [i \in DOMAIN sources |-> IF sources[i].key = name THEN Pruned[i] ELSE sources[i]]

\* delay_for(): how long the guard asks name to wait at s.
GuessDelay(name, s) ==
    LET own == Delay(pair, <<name, s>>)
        all == IF Spreads(name) THEN Delay(identity, name) ELSE 0
    IN  IF own > all THEN own ELSE all

\* What delay_for() leaves behind.
guess_check(name, s) ==
    /\ pair' = get(pair, <<name, s>>)
    /\ identity' = IF Spreads(name) THEN get(identity, name) ELSE identity
    /\ sources' = PrunedFor(name)
    /\ UNCHANGED clock

\* A source more than spread * 4 displaces the one that failed longest ago.
Bounded(at) ==
    IF Cardinality(DOMAIN at) <= Spread * 4 THEN at
    ELSE LET oldest == CHOOSE s \in DOMAIN at : \A t \in DOMAIN at : at[s] <= at[t]
         IN  [s \in DOMAIN at \ {oldest} |-> at[s]]

\* failure().  An OverflowError of the pair leaves the rest undone.
guess_failure(name, s) ==
    LET failing == failing_sources(name)
        at == Bounded([t \in DOMAIN failing \cup {s} |-> IF t = s THEN clock ELSE failing[t]])
    IN  /\ pair' = delay_failure(pair, <<name, s>>, Free)
        /\ IF Overflows(pair, <<name, s>>, Free) THEN UNCHANGED <<identity, sources>>
           ELSE /\ sources' = Last(Room(PrunedFor(name), name), [key |-> name, at |-> at])
                /\ identity' = IF Cardinality(DOMAIN at) >= Spread THEN delay_failure(identity, name, 0)
                               ELSE identity
        /\ UNCHANGED clock

\* success()
guess_success(name, s) == pair' = Without(pair, <<name, s>>) /\ UNCHANGED <<clock, identity, sources>>

tick == clock < MaxClock /\ clock' = clock + 1 /\ UNCHANGED <<pair, identity, sources>>
============================================================================
