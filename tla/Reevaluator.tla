---------------------------- MODULE Reevaluator ----------------------------
(***************************************************************************)
(* The background task that re-evaluates live sessions after a change      *)
(* (naco/radius/reevaluate.py, class Reevaluator and the transaction       *)
(* structure of reevaluate()).                                             *)
(*                                                                         *)
(* A route commits its change and only then calls reevaluator.schedule():  *)
(* other tasks run between the commit and the call.  The task waits on an  *)
(* asyncio.Event, sleeps, clears the event, swaps the list of reasons and  *)
(* runs reevaluate(), which reads the policies (and the sessions) in one   *)
(* transaction and users, devices and guests (the "world") in a second.    *)
(* Data is reduced to the identity of the changes each read can see.       *)
(***************************************************************************)
EXTENDS Naturals, FiniteSets

CONSTANTS
    PolicyChange,  \* changes of the policy table
    WorldChange    \* changes of users, groups, devices and guest registrations

ASSUME ChangesAreDisjoint == PolicyChange \cap WorldChange = {}

Change == PolicyChange \cup WorldChange

VARIABLES
    committed,  \* changes committed to the database
    handlers,   \* committed, and the route has not called schedule() yet
    wake,       \* Reevaluator._wake
    reasons,    \* Reevaluator._reasons
    loop,       \* where run_forever() is suspended
    batch,      \* the reasons passed to the reevaluate() in progress
    seen,       \* changes visible in what the run has read so far
    settled,    \* changes a completed run has applied to the sessions
    lost        \* uncovered changes whose notice was dropped

loopVars == <<committed, handlers, wake, reasons, loop, batch, seen, settled, lost>>

LoopState == {"wait", "sleep", "tx1", "tx2", "send"}

LoopTypeOK ==
    /\ committed \subseteq Change
    /\ handlers \subseteq Change
    /\ wake \in BOOLEAN
    /\ reasons \subseteq Change
    /\ loop \in LoopState
    /\ batch \subseteq Change
    /\ seen \subseteq Change
    /\ settled \subseteq Change
    /\ lost \subseteq Change

\* Reevaluator.__init__ in a process that has just started on a database no
\* session of which awaits a decision.
LoopInit ==
    /\ committed = {} /\ handlers = {} /\ settled = {} /\ lost = {}
    /\ wake = FALSE /\ reasons = {}
    /\ loop = "wait" /\ batch = {} /\ seen = {}

---------------------------------------------------------------------------
(* The routes.                                                             *)

\* A transaction commits the changes cs.
Commit(cs) ==
    /\ cs # {} /\ cs \subseteq Change \ committed
    /\ committed' = committed \cup cs
    /\ handlers' = handlers \cup cs
    /\ UNCHANGED <<wake, reasons, loop, batch, seen, settled, lost>>

\* Mutant of Schedule: the event is not set.
ScheduleWithoutWake(cs) ==
    /\ cs # {} /\ cs \subseteq committed
    /\ handlers' = handlers \ cs
    /\ reasons' = reasons \cup cs
    /\ UNCHANGED <<committed, wake, loop, batch, seen, settled, lost>>

\* schedule() is called after the commit, once for all of cs, and perhaps again.
Schedule(cs) ==
    /\ cs # {} /\ cs \subseteq committed
    /\ handlers' = handlers \ cs
    /\ reasons' = reasons \cup cs
    /\ wake' = TRUE
    /\ UNCHANGED <<committed, loop, batch, seen, settled, lost>>

---------------------------------------------------------------------------
(* run_forever() and reevaluate().                                         *)

\* await self._wake.wait() returns; the task starts to sleep.
Woken ==
    /\ loop = "wait"
    /\ wake
    /\ loop' = "sleep"
    /\ UNCHANGED <<committed, handlers, wake, reasons, batch, seen, settled, lost>>

\* Mutant of Take: the list of reasons is copied and not swapped.
TakeKeepingReasons ==
    /\ loop = "sleep"
    /\ wake' = FALSE
    /\ batch' = reasons
    /\ UNCHANGED reasons
    /\ loop' = "tx1"
    /\ UNCHANGED <<committed, handlers, seen, settled, lost>>

\* The sleep ends: clear the event and swap the reasons, with no await between.
Take ==
    /\ loop = "sleep"
    /\ wake' = FALSE
    /\ batch' = reasons
    /\ reasons' = {}
    /\ loop' = "tx1"
    /\ UNCHANGED <<committed, handlers, seen, settled, lost>>

\* Mutant of Return: the event is cleared when the run is over.
ReturnClearingWake(done, given) ==
    /\ loop' = "wait"
    /\ batch' = {} /\ seen' = {}
    /\ settled' = settled \cup done
    /\ lost' = (lost \cup given) \ (settled \cup done)
    /\ wake' = FALSE
    /\ UNCHANGED <<committed, handlers, reasons>>

\* reevaluate() returns to run_forever() having covered the changes in done
\* and left those in given uncovered.
Return(done, given) ==
    /\ loop' = "wait"
    /\ batch' = {} /\ seen' = {}
    /\ settled' = settled \cup done
    /\ lost' = (lost \cup given) \ (settled \cup done)
    /\ UNCHANGED <<committed, handlers, wake, reasons>>

\* First transaction: sessions and policies are read.
ReadPolicies ==
    /\ loop = "tx1"
    /\ seen' = seen \cup (committed \cap PolicyChange)
    /\ loop' = "tx2"
    /\ UNCHANGED <<committed, handlers, wake, reasons, batch, settled, lost>>

\* First transaction: the policies do not load (PolicyLoadError): all is skipped.
SkipRun == loop = "tx1" /\ Return({}, batch)

\* First transaction: no session has a decision, so there is nothing to apply.
NoSessions == loop = "tx1" /\ Return(committed, {})

\* Mutant of ReadWorld: reasons that arrived since the swap join the batch.
ReadWorldTakingLate ==
    /\ loop = "tx2"
    /\ seen' = seen \cup (committed \cap WorldChange)
    /\ batch' = batch \cup reasons
    /\ reasons' = {} /\ wake' = FALSE
    /\ loop' = "send"
    /\ UNCHANGED <<committed, handlers, settled, lost>>

\* Second transaction (_load_world), then the decisions, in one stretch.
ReadWorld ==
    /\ loop = "tx2"
    /\ seen' = seen \cup (committed \cap WorldChange)
    /\ loop' = "send"
    /\ UNCHANGED <<committed, handlers, wake, reasons, batch, settled, lost>>

\* gather() over the disconnects is complete.
FinishRun == loop = "send" /\ Return(seen, {})

\* An exception (a database that stays locked, an unreadable row) ends the
\* run; run_forever() logs it and waits again.
RunFails == loop \in {"tx1", "tx2", "send"} /\ Return({}, batch)

---------------------------------------------------------------------------
\* The process stops and starts again: its memory is gone, the database is not.
Restart ==
    /\ handlers' = {} /\ reasons' = {} /\ wake' = FALSE
    /\ loop' = "wait" /\ batch' = {} /\ seen' = {}
    /\ lost' = lost \cup (((handlers \cup reasons) \cup batch) \ settled)
    /\ UNCHANGED <<committed, settled>>

RunStep == Woken \/ Take \/ ReadPolicies \/ SkipRun \/ NoSessions \/ ReadWorld \/ FinishRun \/ RunFails

LoopNext ==
    \/ \E cs \in SUBSET Change : Commit(cs) \/ Schedule(cs)
    \/ RunStep
    \/ Restart

\* A task of the event loop that is ready to run is run: a route reaches its
\* schedule() call, and run_forever() goes on from every await (each read, each
\* CoA exchange and the sleep end, by an answer, a timeout or an exception).
LoopFairness ==
    /\ WF_loopVars(RunStep)
    /\ \A c \in Change : WF_loopVars(\E cs \in SUBSET Change : c \in handlers \cap cs /\ Schedule(cs))

LoopSpec == LoopInit /\ [][LoopNext]_loopVars /\ LoopFairness

---------------------------------------------------------------------------
(* Properties.                                                             *)

\* schedule() and run_forever() keep the event and the list in step: the event
\* is set exactly when reasons are waiting, whatever the loop is doing.
WakeIffReasons == wake <=> reasons # {}

\* When run_forever() computes the disconnects, both of its reads, made in two
\* transactions, are recent enough for every change it was woken for.
ReadsCoverBatch == loop = "send" => batch \subseteq seen

\* No wake-up is lost between clear() and the swap, nor while a run is in
\* progress: when the task waits, the event is clear and no route is about to
\* call schedule(), every committed change has been applied by a completed run,
\* unless its notice was dropped by a failed or skipped run or by a restart.
NoChangeForgotten ==
    loop = "wait" /\ ~wake /\ handlers = {} => committed \subseteq settled \cup lost

\* Where a change can be between its commit and its effect, and what each phase
\* of a run has read: the inductive invariant of the loop.
LoopInv ==
    /\ LoopTypeOK
    /\ committed = ((handlers \cup reasons) \cup batch) \cup (settled \cup lost)
    /\ WakeIffReasons
    /\ loop \in {"wait", "sleep"} => batch = {}
    /\ loop \in {"wait", "sleep", "tx1"} => seen = {}
    /\ seen \subseteq committed
    /\ loop \in {"tx2", "send"} => batch \cap PolicyChange \subseteq seen
    /\ ReadsCoverBatch

\* Every change that commits is applied to the live sessions by a completed run,
\* or its notice is dropped by a failure or a restart: none waits for ever.
EveryChangeResolved == \A c \in Change : c \in committed ~> c \in settled \cup lost
============================================================================
