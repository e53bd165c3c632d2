---------------------------- MODULE Maintenance ----------------------------
(***************************************************************************)
(* Guests expire, and the maintenance task tells the re-evaluation task    *)
(* (naco/maintenance.py with Reevaluator; main.py starts both).            *)
(*                                                                         *)
(* The end of a guest registration is a change of the world.  Revoked by   *)
(* an administrator, it is scheduled by the route; reached by the clock,   *)
(* it is committed by no one, and the next pass has to find it between     *)
(* `since` and its own `now`.                                              *)
(***************************************************************************)
EXTENDS Reevaluator

CONSTANTS
    NoRow,
    Guests,       \* the guest registrations; their ends are changes of the world
    Begins,       \* the change that each registration is as it begins
    Hours,        \* durations of a registration
    Chunk,        \* _CHUNK
    MaxOld,       \* bound on the log rows that are due for deletion
    MaxFailures,  \* bound on the passes that fail
    MaxNow        \* bound on the clock

ASSUME GuestsAreChanges == Guests \subseteq WorldChange /\ Begins \in [Guests -> WorldChange \ Guests]
ASSUME DurationAssumption == Hours \subseteq Nat \ {0} /\ MaxNow \in Nat /\ NoRow \notin Nat
ASSUME PassAssumption == Chunk \in Nat \ {0} /\ MaxOld \in Nat /\ MaxFailures \in Nat

VARIABLES
    now,       \* utcnow()
    expires,   \* guest_registrations.expires_at
    revoked,   \* those with revoked_at
    revoking,  \* the route has committed the revocation, schedule() is next
    since,     \* run_maintenance(): the end of the last good pass
    pass,      \* where run_maintenance() is: its `now`, what it counted
    old,       \* log rows the pass has to delete
    failures   \* passes that failed

guestVars == <<now, expires, revoked, revoking>>
passVars == <<since, pass, old, failures>>
maintenanceVars == <<loopVars, guestVars, passVars>>

Asleep == [st |-> "sleep", at |-> 0, found |-> {}]

MaintenanceTypeOK ==
    /\ now \in 0..MaxNow /\ since \in 0..now
    /\ expires \in [Guests -> Nat \cup {NoRow}]
    /\ revoking \subseteq revoked /\ revoked \subseteq Guests
    /\ pass.st \in {"sleep", "prune", "count", "notify"} /\ pass.at \in 0..now
    /\ pass.found \subseteq Guests
    /\ old \in 0..MaxOld /\ failures \in 0..MaxFailures

MaintenanceInit ==
    /\ LoopInit
    /\ now = 0 /\ expires = [g \in Guests |-> NoRow] /\ revoked = {} /\ revoking = {}
    /\ since = 0 /\ pass = Asleep /\ old = 0 /\ failures = 0

---------------------------------------------------------------------------
(* Guests.                                                                 *)

\* POST /guests and POST /portal/register commit; route_schedules follows.
register(g, hours) ==
    /\ expires[g] = NoRow
    /\ expires' = [expires EXCEPT ![g] = now + hours]
    /\ Commit({Begins[g]})
    /\ UNCHANGED <<now, revoked, revoking, passVars>>

\* The clock reaches the end of some registrations.
tick ==
    LET over == {g \in Guests \ committed : expires[g] = now + 1}
    IN  /\ now < MaxNow
        /\ now' = now + 1
        /\ IF over = {} THEN UNCHANGED loopVars ELSE Commit(over)
        /\ UNCHANGED <<expires, revoked, revoking, passVars>>

\* revoke_guest() commits; the registration may have expired already ...
revoke_guest(g) ==
    /\ expires[g] # NoRow /\ g \notin revoked
    /\ revoked' = revoked \cup {g} /\ revoking' = revoking \cup {g}
    /\ IF g \in committed THEN UNCHANGED loopVars ELSE Commit({g})
    /\ UNCHANGED <<now, expires, passVars>>

\* ... and schedules.
revoke_schedules(g) ==
    /\ g \in revoking
    /\ revoking' = revoking \ {g}
    /\ Schedule({g})
    /\ UNCHANGED <<now, expires, revoked, passVars>>

\* The other routes, and how those that register go on.
route_commits(c) == c \notin Guests \cup {Begins[g] : g \in Guests} /\ Commit({c}) /\ UNCHANGED <<guestVars, passVars>>
route_schedules(c) == c \in handlers \ Guests /\ Schedule({c}) /\ UNCHANGED <<guestVars, passVars>>

---------------------------------------------------------------------------
(* run_maintenance() and maintenance_pass()                                *)

\* Mutant of pass_begins: the pass answers for the time up to the next one.
pass_begins_ahead ==
    /\ pass.st = "sleep"
    /\ pass' = [pass EXCEPT !.st = "prune", !.at = now + 1]
    /\ old' \in 0..MaxOld
    /\ UNCHANGED <<loopVars, guestVars, since, failures>>

\* The sleep ends; any number of rows may have become due meanwhile.
pass_begins ==
    /\ pass.st = "sleep"
    /\ pass' = [pass EXCEPT !.st = "prune", !.at = now]
    /\ old' \in 0..MaxOld
    /\ UNCHANGED <<loopVars, guestVars, since, failures>>

\* Mutant of prune: the pass goes on after a full chunk.
prune_once ==
    /\ pass.st = "prune"
    /\ old' = IF old < Chunk THEN 0 ELSE old - Chunk
    /\ pass' = [pass EXCEPT !.st = "count"]
    /\ UNCHANGED <<loopVars, guestVars, since, failures>>

\* _prune(), one table for the three: a transaction deletes one chunk; a chunk
\* that was not full is the last.
prune ==
    /\ pass.st = "prune"
    /\ old' = IF old < Chunk THEN 0 ELSE old - Chunk
    /\ pass' = [pass EXCEPT !.st = IF old < Chunk THEN "count" ELSE "prune"]
    /\ UNCHANGED <<loopVars, guestVars, since, failures>>

\* The last transaction counts the guests that expired since the last pass.
count ==
    /\ pass.st = "count"
    /\ pass' = [pass EXCEPT !.st = "notify",
                            !.found = {g \in Guests \ revoked :
                                          expires[g] # NoRow /\ expires[g] > since /\ expires[g] <= pass.at}]
    /\ UNCHANGED <<loopVars, guestVars, since, old, failures>>

\* Mutant of notify: the next pass begins with the time this one ended.
notify_since_now ==
    /\ pass.st = "notify"
    /\ IF pass.found = {} THEN UNCHANGED loopVars ELSE Schedule(pass.found)
    /\ since' = now
    /\ pass' = Asleep
    /\ UNCHANGED <<guestVars, old, failures>>

\* It schedules once for all of them, and the next pass goes on from its `now`.
notify ==
    /\ pass.st = "notify"
    /\ IF pass.found = {} THEN UNCHANGED loopVars ELSE Schedule(pass.found)
    /\ since' = pass.at
    /\ pass' = Asleep
    /\ UNCHANGED <<guestVars, old, failures>>

\* A transaction fails: the exception is logged, and `since` stays.
pass_fails ==
    /\ pass.st \in {"prune", "count"} /\ failures < MaxFailures
    /\ pass' = Asleep /\ old' = 0
    /\ failures' = failures + 1
    /\ UNCHANGED <<loopVars, guestVars, since>>

\* The process ends, at any moment, and starts again: serve() creates both tasks.
restart ==
    /\ Restart
    /\ since' = now /\ pass' = Asleep /\ old' = 0 /\ revoking' = {}
    /\ UNCHANGED <<now, expires, revoked, failures>>

run_step == RunStep /\ UNCHANGED <<guestVars, passVars>>
PassStep == pass_begins \/ prune \/ count \/ notify

MaintenanceNext ==
    \/ \E g \in Guests : revoke_guest(g) \/ revoke_schedules(g) \/ \E h \in Hours : register(g, h)
    \/ \E c \in Change : route_commits(c) \/ route_schedules(c)
    \/ tick
    \/ PassStep \/ pass_fails
    \/ run_step
    \/ restart

\* As for the loop; the sleeps of the maintenance task end, and so do its
\* transactions.  The clock may stand still.
MaintenanceFairness ==
    /\ WF_maintenanceVars(run_step)
    /\ WF_maintenanceVars(PassStep)
    /\ \A g \in Guests : WF_maintenanceVars(revoke_schedules(g))
    /\ \A c \in Change : WF_maintenanceVars(route_schedules(c))

MaintenanceSpec == MaintenanceInit /\ [][MaintenanceNext]_maintenanceVars /\ MaintenanceFairness

---------------------------------------------------------------------------
(* Properties.                                                             *)

\* No registration falls between two passes: one that has expired, of which the
\* re-evaluation task has not been told and which no restart has dropped, lies in
\* the interval that the present pass has counted or the next one will count,
\* although passes fail and time goes on during a pass.
NoGapBetweenPasses ==
    \A g \in (Guests \cap handlers) \ revoked :
        /\ since < expires[g] /\ expires[g] <= now
        /\ pass.st = "notify" /\ expires[g] <= pass.at => g \in pass.found

\* Retention: a pass that reaches its last transaction has deleted every row that
\* was due, in however many chunks.
PassPrunesAll == pass.st \in {"count", "notify"} => old = 0
============================================================================
