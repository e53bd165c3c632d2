-------------------------- MODULE OperationsProofs --------------------------
(***************************************************************************)
(* Proofs about what keeps NACo in operation: the maintenance task         *)
(* (Maintenance) and the commands on the database file (Storage).          *)
(***************************************************************************)
EXTENDS Maintenance, Storage, ReevaluatorProofs, FiniteSetTheorems

---------------------------------------------------------------------------
(* Maintenance: the maintenance task and the routes use the re-evaluation  *)
(* task only as its specification allows, and no expired registration      *)
(* falls between two passes.                                               *)

PassStates == {"sleep", "prune", "count", "notify"}

\* The inductive invariant.  The end of a registration that has been committed
\* was set; what a pass found or will find is measured against `since` and `at`,
\* neither of which is ahead of the clock.
MaintenanceInv ==
    /\ now \in 0..MaxNow /\ since \in 0..now
    /\ expires \in [Guests -> Nat \cup {NoRow}]
    /\ revoking \subseteq revoked /\ revoked \subseteq Guests
    /\ pass \in [st : PassStates, at : 0..now, found : SUBSET Guests]
    /\ old \in 0..MaxOld /\ failures \in 0..MaxFailures
    /\ handlers \subseteq committed
    /\ \A g \in Guests \cap committed : expires[g] # NoRow
    /\ NoGapBetweenPasses
    /\ PassPrunesAll

---------------------------------------------------------------------------
(* The composition: every step is one of the loop, or leaves it alone.     *)

\* Routes that register and revoke, the clock and the maintenance task commit and
\* schedule as the re-evaluation task allows.
LEMMA MaintenanceStepIsLoopStep ==
    LoopInv /\ [MaintenanceNext]_maintenanceVars => [LoopNext]_loopVars
<1> SUFFICES ASSUME LoopInv, [MaintenanceNext]_maintenanceVars PROVE [LoopNext]_loopVars
  BY Zenon
<1>0. ASSUME NEW cs, Commit(cs) PROVE LoopNext
  BY <1>0, Zenon DEF LoopNext, Commit
<1>1. ASSUME NEW g \in Guests, NEW h \in Hours, register(g, h) PROVE LoopNext
  BY <1>0, <1>1, Zenon DEF register
<1>2. ASSUME NEW cs \in SUBSET Change, Schedule(cs) PROVE LoopNext
  BY <1>2, Zenon DEF LoopNext
<1>3. ASSUME NEW g \in Guests, revoke_guest(g) \/ revoke_schedules(g) PROVE [LoopNext]_loopVars
  <2>1. {g} \in SUBSET Change
    BY GuestsAreChanges, Zenon DEF Change
  <2>2. QED
    BY <1>0, <1>2, <1>3, <2>1, Zenon DEF revoke_guest, revoke_schedules
<1>4. ASSUME NEW c \in Change, route_commits(c) \/ route_schedules(c) PROVE LoopNext
  <2>1. {c} \in SUBSET Change
    BY Zenon
  <2>2. QED
    BY <1>0, <1>2, <1>4, <2>1, Zenon DEF route_commits, route_schedules
<1>5. CASE tick
  BY <1>0, <1>5, Zenon DEF tick
<1>6. CASE PassStep
  <2>1. CASE notify
    <3>1. pass.found \subseteq committed => pass.found \in SUBSET Change
      BY Zenon DEF LoopInv, LoopTypeOK
    <3>2. QED
      BY <1>2, <2>1, <3>1, Zenon DEF notify, Schedule
  <2>2. QED
    BY <1>6, <2>1, Zenon DEF PassStep, pass_begins, prune, count
<1>7. CASE pass_fails
  BY <1>7, Zenon DEF pass_fails
<1>8. CASE run_step \/ restart
  BY <1>8, Zenon DEF run_step, restart, LoopNext
<1>9. CASE UNCHANGED maintenanceVars
  BY <1>9, Zenon DEF maintenanceVars
<1>10. QED
  BY <1>1, <1>3, <1>4, <1>5, <1>6, <1>7, <1>8, <1>9, Zenon DEF MaintenanceNext

\* The system of the two tasks, the routes and the clock runs the loop of
\* Reevaluator, in all that its specification says of safety.
THEOREM MaintenanceImplementsLoop == MaintenanceSpec => LoopInit /\ [][LoopNext]_loopVars /\ []LoopInv
<1>1. MaintenanceInit => LoopInit
  BY Zenon DEF MaintenanceInit
<1>2. LoopInv /\ [MaintenanceNext]_maintenanceVars => LoopInv'
  BY MaintenanceStepIsLoopStep, LoopNextInv, Zenon
<1>3. QED
  BY <1>1, <1>2, LoopInitInv, MaintenanceStepIsLoopStep, PTL DEF MaintenanceSpec

---------------------------------------------------------------------------
(* The passes.                                                             *)

\* Both tasks start on a database without registrations.
LEMMA MaintenanceInitInv == MaintenanceInit => MaintenanceInv
BY DurationAssumption, PassAssumption
DEF MaintenanceInit, LoopInit, MaintenanceInv, PassStates, Asleep, NoGapBetweenPasses, PassPrunesAll

\* A registration begins: its end is in the future.
LEMMA RegisterInv ==
    ASSUME MaintenanceInv, LoopInv, NEW g \in Guests, NEW h \in Hours, register(g, h)
    PROVE  MaintenanceInv'
<1> USE DEF MaintenanceInv
<1>1. /\ expires[g] = NoRow /\ expires' = [expires EXCEPT ![g] = now + h]
      /\ committed' = committed \cup {Begins[g]} /\ handlers' = handlers \cup {Begins[g]}
      /\ UNCHANGED <<now, revoked, revoking, since, pass, old, failures>>
  BY Zenon DEF register, Commit, passVars
<1>2. Begins[g] \notin Guests /\ g \notin committed /\ now + h \in Nat /\ now + h # NoRow
  <2>1. now + h \in Nat
    BY DurationAssumption
  <2>2. QED
    BY <1>1, <2>1, GuestsAreChanges, DurationAssumption, Zenon
<1>3. expires' \in [Guests -> Nat \cup {NoRow}] /\ \A f \in Guests \ {g} : expires'[f] = expires[f]
  BY <1>1, <1>2, Zenon
<1>4. \A f \in Guests \cap committed' : expires'[f] # NoRow
  BY <1>1, <1>2, <1>3, Zenon
<1>5. NoGapBetweenPasses'
  BY <1>1, <1>2, <1>3 DEF NoGapBetweenPasses
<1>6. QED
  BY <1>1, <1>3, <1>4, <1>5, Zenon DEF PassPrunesAll

\* The clock: what expires now is after `since` and after the pass in progress.
LEMMA TickInv == ASSUME MaintenanceInv, tick PROVE MaintenanceInv'
<1> USE DEF MaintenanceInv
<1> DEFINE over == {g \in Guests \ committed : expires[g] = now + 1}
<1>1. /\ now < MaxNow /\ now' = now + 1
      /\ committed' = committed \cup over /\ handlers' = handlers \cup over
      /\ UNCHANGED <<expires, revoked, revoking, since, pass, old, failures>>
  BY Zenon DEF tick, Commit, passVars, loopVars
<1>2. now' \in 0..MaxNow /\ since' \in 0..now' /\ pass' \in [st : PassStates, at : 0..now', found : SUBSET Guests]
  BY <1>1, DurationAssumption
<1>3. \A g \in Guests \cap committed' : expires'[g] # NoRow
  BY <1>1, DurationAssumption
<1>4. NoGapBetweenPasses'
  <2>1. SUFFICES ASSUME NEW g \in (Guests \cap handlers') \ revoked
                 PROVE  /\ since < expires[g] /\ expires[g] <= now + 1
                        /\ pass.st = "notify" /\ expires[g] <= pass.at => g \in pass.found
    BY <1>1, Zenon DEF NoGapBetweenPasses
  <2>2. CASE g \in handlers
    <3>1. expires[g] \in Nat
      BY <2>2, Zenon
    <3>2. QED
      BY <2>1, <2>2, <3>1, DurationAssumption DEF NoGapBetweenPasses
  <2>3. CASE g \in over
    BY <2>3, DurationAssumption
  <2>4. QED
    BY <1>1, <2>1, <2>2, <2>3, Zenon
<1>5. QED
  BY <1>1, <1>2, <1>3, <1>4, Zenon DEF PassPrunesAll

\* A revoked registration is no longer the maintenance task's to find.
LEMMA RevokeInv ==
    ASSUME MaintenanceInv, NEW g \in Guests, revoke_guest(g) \/ revoke_schedules(g)
    PROVE  MaintenanceInv'
<1> USE DEF MaintenanceInv
<1>1. CASE revoke_guest(g)
  <2>1. /\ expires[g] # NoRow /\ revoked' = revoked \cup {g} /\ revoking' = revoking \cup {g}
        /\ \/ committed' = committed \cup {g} /\ handlers' = handlers \cup {g}
           \/ committed' = committed /\ handlers' = handlers
        /\ UNCHANGED <<now, expires, since, pass, old, failures>>
    BY <1>1, Zenon DEF revoke_guest, Commit, passVars, loopVars
  <2>2. NoGapBetweenPasses'
    BY <2>1, Zenon DEF NoGapBetweenPasses
  <2>3. QED
    BY <2>1, <2>2, Zenon DEF PassPrunesAll
<1>2. CASE revoke_schedules(g)
  <2>1. /\ revoking' = revoking \ {g} /\ committed' = committed /\ handlers' = handlers \ {g}
        /\ UNCHANGED <<now, expires, revoked, since, pass, old, failures>>
    BY <1>2, Zenon DEF revoke_schedules, Schedule, passVars
  <2>2. NoGapBetweenPasses'
    BY <2>1, Zenon DEF NoGapBetweenPasses
  <2>3. QED
    BY <2>1, <2>2, Zenon DEF PassPrunesAll
<1>3. QED
  BY <1>1, <1>2, Zenon

\* The other routes and the re-evaluation task leave the registrations alone.
LEMMA OthersInv ==
    ASSUME MaintenanceInv, NEW c, route_commits(c) \/ route_schedules(c) \/ run_step
    PROVE  MaintenanceInv'
<1> USE DEF MaintenanceInv
<1>1. /\ UNCHANGED <<now, expires, revoked, revoking, since, pass, old, failures>>
      /\ \/ c \notin Guests /\ committed' = committed \cup {c} /\ handlers' = handlers \cup {c}
         \/ committed' = committed /\ handlers' \subseteq handlers
  <2>1. run_step => UNCHANGED <<committed, handlers>>
    BY Zenon DEF run_step, RunStep, Woken, Take, ReadPolicies, SkipRun, NoSessions, ReadWorld, FinishRun, RunFails, Return
  <2>2. UNCHANGED <<guestVars, passVars>>
    BY Zenon DEF route_commits, route_schedules, run_step
  <2>3. QED
    BY <2>1, <2>2, Zenon DEF route_commits, route_schedules, Commit, Schedule, guestVars, passVars
<1>2. NoGapBetweenPasses'
  BY <1>1, Zenon DEF NoGapBetweenPasses
<1>3. QED
  BY <1>1, <1>2, Zenon DEF PassPrunesAll

\* A pass up to its last transaction: no clock but its own is compared.
LEMMA PassWorksInv ==
    ASSUME MaintenanceInv, pass_begins \/ prune \/ pass_fails
    PROVE  MaintenanceInv'
<1> USE DEF MaintenanceInv
<1>1. UNCHANGED <<now, expires, revoked, revoking, since, committed, handlers>>
  BY Zenon DEF pass_begins, prune, pass_fails, loopVars, guestVars
<1>2. /\ old' \in 0..MaxOld /\ failures' \in 0..MaxFailures
      /\ pass' \in [st : PassStates, at : 0..now, found : SUBSET Guests]
      /\ pass'.st # "notify" /\ (pass'.st = "count" => old' = 0)
  <2>1. CASE pass_begins
    <3>1. now \in 0..now
      BY DurationAssumption
    <3>2. QED
      BY <2>1, <3>1, Zenon DEF pass_begins, PassStates
  <2>2. CASE prune
    <3>1. old' = (IF old < Chunk THEN 0 ELSE old - Chunk) /\ old' \in 0..MaxOld
      BY <2>2, PassAssumption DEF prune
    <3>2. QED
      BY <2>2, <3>1, Zenon DEF prune, PassStates
  <2>3. CASE pass_fails
    <3>1. 0 \in 0..MaxOld /\ failures' \in 0..MaxFailures /\ Asleep \in [st : PassStates, at : 0..now, found : SUBSET Guests]
      BY <2>3, PassAssumption, DurationAssumption DEF pass_fails, Asleep, PassStates
    <3>2. QED
      BY <2>3, <3>1, Zenon DEF pass_fails, Asleep
  <2>4. QED
    BY <2>1, <2>2, <2>3, Zenon
<1>3. NoGapBetweenPasses'
  BY <1>1, <1>2, Zenon DEF NoGapBetweenPasses
<1>4. QED
  BY <1>1, <1>2, <1>3, Zenon DEF PassPrunesAll, PassStates

\* The pass counts what expired after `since` and not after its `now`.
LEMMA CountInv == ASSUME MaintenanceInv, count PROVE MaintenanceInv'
<1> USE DEF MaintenanceInv
<1> DEFINE found == {g \in Guests \ revoked : expires[g] # NoRow /\ expires[g] > since /\ expires[g] <= pass.at}
<1>1. /\ UNCHANGED <<now, expires, revoked, revoking, since, committed, handlers, old, failures>>
      /\ pass.st = "count" /\ pass' = [pass EXCEPT !.st = "notify", !.found = found]
  BY Zenon DEF count, loopVars, guestVars
<1>2. /\ pass' \in [st : PassStates, at : 0..now, found : SUBSET Guests]
      /\ pass'.st = "notify" /\ pass'.at = pass.at /\ pass'.found = found
  BY <1>1, Zenon DEF PassStates
<1>3. NoGapBetweenPasses'
  BY <1>1, <1>2, Zenon DEF NoGapBetweenPasses
<1>4. QED
  BY <1>1, <1>2, <1>3, Zenon DEF PassPrunesAll

\* The pass ends: what it did not schedule expired after the new `since`.
LEMMA NotifyInv == ASSUME MaintenanceInv, notify PROVE MaintenanceInv'
<1> USE DEF MaintenanceInv
<1>1. /\ UNCHANGED <<now, expires, revoked, revoking, committed, old, failures>>
      /\ pass.st = "notify" /\ since' = pass.at /\ pass' = Asleep
      /\ handlers' = handlers \ pass.found
  BY Zenon DEF notify, Schedule, loopVars, guestVars
<1>2. /\ since' \in 0..now /\ pass' \in [st : PassStates, at : 0..now, found : SUBSET Guests] /\ pass'.st = "sleep"
  BY <1>1, DurationAssumption DEF Asleep, PassStates
<1>3. NoGapBetweenPasses'
  <2>1. SUFFICES ASSUME NEW g \in (Guests \cap handlers') \ revoked
                 PROVE  pass.at < expires[g] /\ expires[g] <= now
    BY <1>1, <1>2, Zenon DEF NoGapBetweenPasses
  <2>2. expires[g] \in Nat /\ pass.at \in Nat
    BY <1>1
  <2>3. QED
    BY <1>1, <2>1, <2>2 DEF NoGapBetweenPasses
<1>4. QED
  BY <1>1, <1>2, <1>3, Zenon DEF PassPrunesAll

\* After a restart no notice is expected any more.
LEMMA RestartInv == ASSUME MaintenanceInv, restart PROVE MaintenanceInv'
<1>1. Asleep \in [st : PassStates, at : 0..now, found : SUBSET Guests] /\ 0 \in 0..MaxOld
  BY DurationAssumption, PassAssumption DEF MaintenanceInv, Asleep, PassStates
<1>2. QED
  BY <1>1 DEF MaintenanceInv, restart, Restart, NoGapBetweenPasses, PassPrunesAll, Asleep

---------------------------------------------------------------------------
(* The theorems.                                                           *)

\* No step of a route, of the clock, of either task, and no restart leaves the invariant.
LEMMA MaintenanceNextInv ==
    LoopInv /\ MaintenanceInv /\ [MaintenanceNext]_maintenanceVars => MaintenanceInv'
<1> SUFFICES ASSUME LoopInv, MaintenanceInv, [MaintenanceNext]_maintenanceVars PROVE MaintenanceInv'
  BY Zenon
<1>1. ASSUME NEW g \in Guests, revoke_guest(g) \/ revoke_schedules(g) PROVE MaintenanceInv'
  BY <1>1, RevokeInv, Zenon
<1>2. ASSUME NEW g \in Guests, NEW h \in Hours, register(g, h) PROVE MaintenanceInv'
  BY <1>2, RegisterInv, Zenon
<1>3. ASSUME NEW c \in Change, route_commits(c) \/ route_schedules(c) PROVE MaintenanceInv'
  BY <1>3, OthersInv, Zenon
<1>4. CASE tick
  BY <1>4, TickInv, Zenon
<1>5. CASE PassStep \/ pass_fails
  BY <1>5, PassWorksInv, CountInv, NotifyInv, Zenon DEF PassStep
<1>6. CASE run_step
  BY <1>6, OthersInv, Zenon
<1>7. CASE restart
  BY <1>7, RestartInv, Zenon
<1>8. CASE UNCHANGED maintenanceVars
  BY <1>8, Zenon DEF maintenanceVars, loopVars, guestVars, passVars, MaintenanceInv, NoGapBetweenPasses, PassPrunesAll
<1>9. QED
  BY <1>1, <1>2, <1>3, <1>4, <1>5, <1>6, <1>7, <1>8, Zenon DEF MaintenanceNext

\* The registrations and the passes keep their invariant, whatever fails or restarts.
THEOREM MaintenanceInvariant == MaintenanceSpec => []MaintenanceInv
BY MaintenanceInitInv, MaintenanceNextInv, MaintenanceImplementsLoop, PTL DEF MaintenanceSpec

\* The clock is never behind `since`, nor behind the `now` of a pass.
THEOREM MaintenanceTypeCorrect == MaintenanceSpec => []MaintenanceTypeOK
<1>1. MaintenanceInv => MaintenanceTypeOK
  BY Zenon DEF MaintenanceInv, MaintenanceTypeOK, PassStates
<1>2. QED
  BY <1>1, MaintenanceInvariant, PTL

\* maintenance_pass() finds every registration that expired and was not revoked,
\* for any durations, any number of guests and any passes that fail.
THEOREM PassesLeaveNoGap == MaintenanceSpec => []NoGapBetweenPasses
<1>1. MaintenanceInv => NoGapBetweenPasses
  BY Zenon DEF MaintenanceInv
<1>2. QED
  BY <1>1, MaintenanceInvariant, PTL

\* _prune() has deleted all that was due when the last transaction of a pass runs,
\* for any size of a chunk.
THEOREM RetentionIsComplete == MaintenanceSpec => []PassPrunesAll
<1>1. MaintenanceInv => PassPrunesAll
  BY Zenon DEF MaintenanceInv
<1>2. QED
  BY <1>1, MaintenanceInvariant, PTL

---------------------------------------------------------------------------
(* Storage: the database file, for any keys, any encrypted columns and any *)
(* number of commits and restores.  The inductive invariant.               *)

Backups == [state : {"none", "partial"}, data : {None}] \cup [state : {"empty", "whole"}, data : Contents]

Commands ==
    {Idle} \cup [pc : {"backup"}] \cup [pc : {"restore", "unlink", "replace"}, file : Backups]
      \cup [pc : {"rotate", "rotated"}, new : Keys, left : SUBSET ENCRYPTED_COLUMNS, data : Contents]

\* All the secrets of a content are under k.
UnderKey(data, k) == \A c \in ENCRYPTED_COLUMNS : data.key[c] \in {k, None}
UnderOneKey(data) == \E k \in Keys : UnderKey(data, k)

FilesTyped ==
    /\ main \in [id : 0..MaxRestores, data : Contents]
    /\ wal = None \/ wal \in [of : 0..MaxRestores, data : Contents]
    /\ latest \in Contents
    /\ backup \in Backups
    /\ commits \in 0..MaxCommits

ProcessesTyped ==
    /\ server \in Keys \cup {None} /\ env \in Keys /\ told \in Keys \cup {None}
    /\ cmd \in Commands
    /\ cut \in BOOLEAN /\ foreign \in BOOLEAN

\* What a command has made sure of when it has reached a step.
CommandKnows ==
    /\ cmd.pc \notin {"idle", "backup"} => server = None
    /\ cmd.pc = "restore" => cmd.file.state # "none"
    /\ cmd.pc \in {"unlink", "replace"} => cmd.file.state \in {"empty", "whole"}
    /\ cmd.pc = "replace" => wal = None
    /\ cmd.pc = "rotate" =>
         /\ commits < MaxCommits
         /\ \A c \in ENCRYPTED_COLUMNS \ cmd.left : cmd.data.key[c] \in {cmd.new, None}

\* Until NACo has run with a key the secrets were not under, every content the
\* database has, or may get back from a backup, is under one key, and that of the
\* running server is the one.
KeysAgree ==
    foreign
    \/ /\ UnderOneKey(Opened) /\ UnderOneKey(main.data)
       /\ server # None => UnderKey(Opened, server)
       /\ backup.state \in {"empty", "whole"} => UnderOneKey(backup.data)
       /\ cmd.pc \in {"restore", "unlink", "replace"} /\ cmd.file.state \in {"empty", "whole"} =>
            UnderOneKey(cmd.file.data)

StorageInv ==
    /\ FilesTyped /\ ProcessesTyped
    /\ CommandKnows
    /\ NoForeignWal
    /\ CommitsSurvive
    /\ KeysAgree

---------------------------------------------------------------------------
(* Lemmas on what a process finds when it opens the database.              *)

\* Opening finds the content of one of the two files, never a mixture.
LEMMA OpenedTyped ==
    ASSUME FilesTyped, NoForeignWal
    PROVE  Opened \in Contents
BY Zenon DEF FilesTyped, NoForeignWal, Opened

\* A step that touches neither file changes nothing of what is found there.
LEMMA OpenedKept ==
    ASSUME UNCHANGED fileVars
    PROVE  Opened' = Opened
BY Zenon DEF fileVars, Opened

\* A checkpoint moves the content of the -wal file and loses none of it.
LEMMA CheckpointKeeps ==
    ASSUME FilesTyped, NoForeignWal, Checkpointed
    PROVE  /\ Opened' = Opened /\ wal' = None /\ main'.data = Opened
           /\ main' \in [id : 0..MaxRestores, data : Contents]
<1>1. Opened \in Contents
  BY OpenedTyped, Zenon
<1>2. /\ main' = [main EXCEPT !.data = Opened] /\ wal' = None
      /\ main \in [id : 0..MaxRestores, data : Contents]
  BY Zenon DEF Checkpointed, FilesTyped
<1>3. main'.data = Opened /\ main' \in [id : 0..MaxRestores, data : Contents]
  BY <1>1, <1>2, Zenon
<1>4. QED
  BY <1>2, <1>3, Zenon DEF Opened

\* A commit is what the next process to open the database finds.
LEMMA CommitIsOpened ==
    ASSUME FilesTyped, NEW data \in Contents, Commits(data), UNCHANGED main, commits < MaxCommits
    PROVE  /\ Opened' = data /\ latest' = data
           /\ wal' \in [of : 0..MaxRestores, data : Contents] /\ wal'.of = main.id
           /\ commits' \in 0..MaxCommits
<1>1. wal' = [of |-> main.id, data |-> data] /\ latest' = data /\ commits' = commits + 1
  BY Zenon DEF Commits
<1>2. wal' \in [of : 0..MaxRestores, data : Contents] /\ wal'.of = main.id /\ wal'.data = data
  BY <1>1, Zenon DEF FilesTyped
<1>3. wal' # None
  BY <1>2, WalAssumption, Zenon
<1>4. commits' \in 0..MaxCommits
  BY <1>1, BoundAssumption DEF FilesTyped
<1>5. QED
  BY <1>1, <1>2, <1>3, <1>4, Zenon DEF Opened

---------------------------------------------------------------------------
(* Every step keeps the invariant.                                         *)

\* The server starts with the key of .env: the history variable records whether
\* the secrets are under it.
LEMMA StartInv == ASSUME StorageInv, start PROVE StorageInv'
<1> USE DEF StorageInv
<1>1. Opened' = Opened
  BY OpenedKept, Zenon DEF start
<1>2. FilesTyped' /\ ProcessesTyped'
  BY KeyAssumption, Zenon DEF start, FilesTyped, ProcessesTyped, fileVars
<1>3. CommandKnows' /\ NoForeignWal' /\ CommitsSurvive'
  BY <1>1, Zenon DEF start, CommandKnows, NoForeignWal, CommitsSurvive, fileVars, Idle
<1>4. KeysAgree'
  <2>1. SUFFICES ASSUME ~foreign' PROVE KeysAgree'
    BY Zenon DEF KeysAgree
  <2>2. ~foreign /\ KeysOf(Opened) \subseteq {env}
    BY <2>1, Zenon DEF start, ProcessesTyped
  <2>3. UnderKey(Opened, env)
    BY <2>2, Zenon DEF KeysOf, UnderKey
  <2>4. QED
    BY <1>1, <2>2, <2>3, Zenon DEF start, KeysAgree, UnderOneKey, UnderKey, fileVars, Idle
<1>5. QED
  BY <1>2, <1>3, <1>4, Zenon

\* A stored secret is encrypted under the key of the server.
LEMMA StoreSecretInv ==
    ASSUME StorageInv, NEW c \in ENCRYPTED_COLUMNS, store_secret(c)
    PROVE  StorageInv'
<1> USE DEF StorageInv
<1> DEFINE data == [n |-> commits + 1, key |-> [Opened.key EXCEPT ![c] = server]]
<1>1. Opened \in Contents
  BY OpenedTyped, Zenon
<1>2. server \in Keys /\ commits < MaxCommits /\ UNCHANGED <<main, server, env, told, backup, cmd, cut, foreign>>
  BY Zenon DEF store_secret, ProcessesTyped
<1>3. data \in Contents
  BY <1>1, <1>2, BoundAssumption DEF FilesTyped, Contents
<1>4. Commits(data)
  BY Zenon DEF store_secret
<1> HIDE DEF data
<1>5. /\ Opened' = data /\ latest' = data
      /\ wal' \in [of : 0..MaxRestores, data : Contents] /\ wal'.of = main.id
      /\ commits' \in 0..MaxCommits
  BY <1>2, <1>3, <1>4, CommitIsOpened, Zenon
<1>6. FilesTyped' /\ ProcessesTyped'
  BY <1>2, <1>3, <1>5, Zenon DEF FilesTyped, ProcessesTyped
<1>7. cmd.pc \in {"idle", "backup"}
  BY <1>2, KeyAssumption, Zenon DEF CommandKnows
<1>8. CommandKnows' /\ NoForeignWal' /\ CommitsSurvive'
  BY <1>2, <1>5, <1>7, Zenon DEF CommandKnows, NoForeignWal, CommitsSurvive
<1>9. KeysAgree'
  <2>1. SUFFICES ASSUME ~foreign PROVE KeysAgree'
    BY <1>2, Zenon DEF KeysAgree
  <2>2. UnderKey(Opened, server)
    BY <1>2, <2>1, KeyAssumption, Zenon DEF KeysAgree
  <2>3. UnderKey(data, server)
    BY <1>1, <2>2, Zenon DEF data, UnderKey, Contents
  <2>4. UnderKey(Opened', server') /\ UnderOneKey(Opened')
    BY <1>2, <1>5, <2>3, Zenon DEF UnderKey, UnderOneKey
  <2>5. QED
    BY <1>2, <1>7, <2>1, <2>4, Zenon DEF KeysAgree, UnderOneKey, UnderKey
<1>10. QED
  BY <1>6, <1>8, <1>9, Zenon

\* The end of the server and the checkpoints, which change which file holds the
\* content and not the content.
LEMMA ServerStepInv ==
    ASSUME StorageInv, stop \/ checkpoint \/ kill_server
    PROVE  StorageInv'
<1> USE DEF StorageInv
<1>1. /\ server # None /\ server' \in {server, None}
      /\ UNCHANGED <<env, told, backup, cmd, commits, historyVars>>
      /\ Checkpointed \/ UNCHANGED fileVars
  BY Zenon DEF stop, checkpoint, kill_server
<1>2. /\ Opened' = Opened /\ main' \in [id : 0..MaxRestores, data : Contents]
      /\ \/ wal' = None
         \/ wal' \in [of : 0..MaxRestores, data : Contents] /\ UNCHANGED fileVars
  BY <1>1, CheckpointKeeps, OpenedKept, Zenon DEF fileVars, FilesTyped
<1>3. FilesTyped' /\ ProcessesTyped'
  BY <1>1, <1>2, Zenon DEF FilesTyped, ProcessesTyped, historyVars
<1>4. CommandKnows' /\ NoForeignWal' /\ CommitsSurvive'
  BY <1>1, <1>2, Zenon DEF CommandKnows, NoForeignWal, CommitsSurvive, fileVars, historyVars
<1>5. KeysAgree'
  <2>1. main'.data \in {main.data, Opened}
    BY <1>1, CheckpointKeeps, Zenon DEF fileVars
  <2>2. QED
    BY <1>1, <1>2, <2>1, Zenon DEF KeysAgree, UnderOneKey, UnderKey, fileVars, historyVars
<1>6. QED
  BY <1>3, <1>4, <1>5, Zenon

\* A command that is killed leaves the files as they are.
LEMMA KillCommandInv == ASSUME StorageInv, kill_command PROVE StorageInv'
<1> USE DEF StorageInv
<1>1. Opened' = Opened
  BY OpenedKept, Zenon DEF kill_command
<1>2. FilesTyped' /\ ProcessesTyped'
  BY Zenon DEF kill_command, FilesTyped, ProcessesTyped, Commands, fileVars
<1>3. CommandKnows' /\ NoForeignWal'
  BY Zenon DEF kill_command, CommandKnows, NoForeignWal, fileVars, Idle
<1>4. CommitsSurvive'
  BY <1>1, Zenon DEF kill_command, CommitsSurvive, ProcessesTyped
<1>5. KeysAgree'
  BY <1>1, Zenon DEF kill_command, KeysAgree, UnderOneKey, UnderKey, fileVars, Idle
<1>6. QED
  BY <1>2, <1>3, <1>4, <1>5, Zenon

\* A backup is a copy of what one transaction finds.
LEMMA BackupInv ==
    ASSUME StorageInv, backup_begins \/ backup_writes
    PROVE  StorageInv'
<1> USE DEF StorageInv
<1>1. /\ Opened' = Opened /\ Opened \in Contents
      /\ UNCHANGED <<fileVars, server, env, told, commits, historyVars>>
  BY OpenedKept, OpenedTyped, Zenon DEF backup_begins, backup_writes
<1>2. Empty \in Contents /\ UnderOneKey(Empty)
  BY BoundAssumption DEF Empty, NoSecrets, Contents, UnderOneKey, UnderKey, ProcessesTyped
<1>3. /\ cmd' \in {Idle, [pc |-> "backup"]} /\ cmd.pc \in {"idle", "backup"}
      /\ backup' \in {File("empty", Empty), File("partial", None), File("whole", Opened)}
  BY DEF backup_begins, backup_writes, Idle, ProcessesTyped, Commands
<1>4. backup' \in Backups
  BY <1>1, <1>2, <1>3 DEF File, Backups
<1>5. FilesTyped' /\ ProcessesTyped'
  BY <1>1, <1>3, <1>4 DEF FilesTyped, ProcessesTyped, Commands, fileVars, historyVars
<1>6. CommandKnows' /\ NoForeignWal' /\ CommitsSurvive'
  BY <1>1, <1>3 DEF CommandKnows, NoForeignWal, CommitsSurvive, fileVars, historyVars, Idle
<1>7. KeysAgree'
  BY <1>1, <1>2, <1>3 DEF KeysAgree, UnderOneKey, UnderKey, File, fileVars, historyVars, Idle
<1>8. QED
  BY <1>5, <1>6, <1>7, Zenon

\* A restore reads the backup, and goes on when it is empty or whole.
LEMMA RestoreBeginsInv ==
    ASSUME StorageInv, restore \/ restore_checks
    PROVE  StorageInv'
<1> USE DEF StorageInv
<1>1. Opened' = Opened /\ UNCHANGED <<fileVars, server, env, told, backup, commits, historyVars>>
  BY OpenedKept, Zenon DEF restore, restore_checks
<1>2. CASE restore
  <2>1. cmd' = [pc |-> "restore", file |-> backup] /\ server = None
    BY <1>2, Zenon DEF restore
  <2>2. FilesTyped' /\ ProcessesTyped'
    BY <1>1, <2>1, Zenon DEF FilesTyped, ProcessesTyped, Commands, fileVars, historyVars
  <2>3. CommandKnows' /\ NoForeignWal'
    BY <1>1, <1>2, <2>1 DEF restore, CommandKnows, NoForeignWal, fileVars
  <2>4. CommitsSurvive'
    BY <1>1, <1>2, <2>1 DEF restore, CommitsSurvive, historyVars, Idle
  <2>5. KeysAgree'
    BY <1>1, <2>1, Zenon DEF KeysAgree, UnderOneKey, UnderKey, fileVars, historyVars
  <2>6. QED
    BY <2>2, <2>3, <2>4, <2>5, Zenon
<1>3. CASE restore_checks
  <2>1. cmd.pc = "restore" /\ cmd \in [pc : {"restore", "unlink", "replace"}, file : Backups]
    BY <1>3 DEF restore_checks, ProcessesTyped, Commands, Idle
  <2>2. \/ cmd' = Idle
        \/ cmd' = [cmd EXCEPT !.pc = "unlink"] /\ cmd.file.state # "partial"
    BY <1>3, Zenon DEF restore_checks
  <2>3. \/ cmd'.pc = "idle"
        \/ cmd'.pc = "unlink" /\ cmd'.file = cmd.file /\ cmd.file.state # "partial"
    BY <2>1, <2>2 DEF Idle
  <2>4. cmd' \in Commands
    BY <2>1, <2>2, Zenon DEF Commands
  <2>5. FilesTyped' /\ ProcessesTyped'
    BY <1>1, <2>4, Zenon DEF FilesTyped, ProcessesTyped, fileVars, historyVars
  <2>6. CommandKnows' /\ NoForeignWal' /\ CommitsSurvive'
    BY <1>1, <2>1, <2>3, Zenon DEF CommandKnows, NoForeignWal, CommitsSurvive, Backups, fileVars, historyVars
  <2>7. KeysAgree'
    BY <1>1, <2>1, <2>3, Zenon DEF KeysAgree, UnderOneKey, UnderKey, fileVars, historyVars
  <2>8. QED
    BY <2>5, <2>6, <2>7, Zenon
<1>4. QED
  BY <1>2, <1>3, Zenon

\* The -wal file is removed; from here on the database is without what was in it.
LEMMA RestoreUnlinksInv == ASSUME StorageInv, restore_unlinks PROVE StorageInv'
<1> USE DEF StorageInv
<1>1. cmd.pc = "unlink" /\ cmd \in [pc : {"restore", "unlink", "replace"}, file : Backups]
  BY DEF restore_unlinks, ProcessesTyped, Commands, Idle
<1>2. /\ wal' = None /\ cmd' = [cmd EXCEPT !.pc = "replace"]
      /\ UNCHANGED <<main, server, env, told, backup, commits, historyVars>>
  BY Zenon DEF restore_unlinks
<1>3. cmd'.pc = "replace" /\ cmd'.file = cmd.file /\ cmd' \in Commands
  BY <1>1, <1>2, Zenon DEF Commands
<1>4. FilesTyped' /\ ProcessesTyped'
  BY <1>2, <1>3, Zenon DEF FilesTyped, ProcessesTyped, historyVars
<1>5. CommandKnows' /\ NoForeignWal' /\ CommitsSurvive'
  BY <1>1, <1>2, <1>3, Zenon DEF CommandKnows, NoForeignWal, CommitsSurvive
<1>6. KeysAgree'
  <2>1. Opened' = main.data
    BY <1>2, Zenon DEF Opened
  <2>2. QED
    BY <1>1, <1>2, <1>3, <2>1, Zenon DEF CommandKnows, KeysAgree, UnderOneKey, UnderKey, historyVars
<1>7. QED
  BY <1>4, <1>5, <1>6, Zenon

\* The received file takes the place of the database, when no -wal file is left.
LEMMA RestoreReplacesInv == ASSUME StorageInv, restore_replaces PROVE StorageInv'
<1> USE DEF StorageInv
<1>1. /\ cmd.pc = "replace" /\ cmd \in [pc : {"restore", "unlink", "replace"}, file : Backups]
      /\ cmd.file.state \in {"empty", "whole"} /\ wal = None
  BY DEF restore_replaces, ProcessesTyped, Commands, Idle, CommandKnows
<1>2. /\ main' = [id |-> main.id + 1, data |-> cmd.file.data] /\ latest' = cmd.file.data
      /\ main.id < MaxRestores /\ cmd' = Idle /\ cut' = FALSE
      /\ UNCHANGED <<wal, server, env, told, backup, commits, foreign>>
  BY Zenon DEF restore_replaces
<1>3. cmd.file.data \in Contents
  BY <1>1, Zenon DEF Backups
<1>4. Opened' = cmd.file.data
  BY <1>1, <1>2, Zenon DEF Opened
<1>5. FilesTyped' /\ ProcessesTyped'
  <2>1. main.id + 1 \in 0..MaxRestores
    BY <1>2, BoundAssumption DEF FilesTyped
  <2>2. FilesTyped'
    BY <1>2, <1>3, <2>1, Zenon DEF FilesTyped
  <2>3. ProcessesTyped'
    BY <1>2, Zenon DEF ProcessesTyped, Commands
  <2>4. QED
    BY <2>2, <2>3, Zenon
<1>6. CommandKnows' /\ NoForeignWal' /\ CommitsSurvive'
  BY <1>1, <1>2, <1>4, Zenon DEF CommandKnows, NoForeignWal, CommitsSurvive, Idle
<1>7. KeysAgree'
  BY <1>1, <1>2, <1>4, Zenon DEF CommandKnows, KeysAgree, UnderOneKey, UnderKey, Idle
<1>8. QED
  BY <1>5, <1>6, <1>7, Zenon

\* A rotation begins with what it finds, in a transaction.
LEMMA RotateBeginsInv ==
    ASSUME StorageInv, NEW k \in Keys, rotate_master_key(k)
    PROVE  StorageInv'
<1> USE DEF StorageInv
<1>1. Opened' = Opened /\ Opened \in Contents
  BY OpenedKept, OpenedTyped, Zenon DEF rotate_master_key
<1>2. /\ cmd = Idle /\ server = None /\ commits < MaxCommits
      /\ cmd' = [pc |-> "rotate", new |-> k, left |-> ENCRYPTED_COLUMNS, data |-> Opened]
      /\ UNCHANGED <<fileVars, server, env, told, backup, commits, historyVars>>
  BY Zenon DEF rotate_master_key
<1>3. FilesTyped' /\ ProcessesTyped'
  BY <1>1, <1>2, Zenon DEF FilesTyped, ProcessesTyped, Commands, fileVars, historyVars
<1>4. CommandKnows' /\ NoForeignWal'
  BY <1>2, Zenon DEF CommandKnows, NoForeignWal, fileVars
<1>5. CommitsSurvive'
  BY <1>1, <1>2, Zenon DEF CommitsSurvive, historyVars, Idle
<1>6. KeysAgree'
  BY <1>1, <1>2, Zenon DEF KeysAgree, UnderOneKey, UnderKey, fileVars, historyVars
<1>7. QED
  BY <1>3, <1>4, <1>5, <1>6, Zenon

\* One column is encrypted under the new key, in the transaction.
LEMMA RotateColumnInv ==
    ASSUME StorageInv, NEW c \in ENCRYPTED_COLUMNS, rotate_column(c)
    PROVE  StorageInv'
<1> USE DEF StorageInv
<1>1. Opened' = Opened /\ UNCHANGED <<fileVars, server, env, told, backup, commits, historyVars>>
  BY OpenedKept, Zenon DEF rotate_column
<1>2. /\ cmd.pc = "rotate"
      /\ cmd \in [pc : {"rotate", "rotated"}, new : Keys, left : SUBSET ENCRYPTED_COLUMNS, data : Contents]
  BY DEF rotate_column, Reencrypted, ProcessesTyped, Commands, Idle
<1> DEFINE key == IF cmd.data.key[c] = None THEN None ELSE cmd.new
           data == [cmd.data EXCEPT !.key[c] = key]
<1>3. \/ cmd' = Idle
      \/ cmd' = [cmd EXCEPT !.left = @ \ {c}, !.data = data]
  BY <1>2, Zenon DEF rotate_column, Reencrypted, Contents
<1>4. /\ data \in Contents /\ data.key[c] \in {cmd.new, None}
      /\ \A d \in ENCRYPTED_COLUMNS \ {c} : data.key[d] = cmd.data.key[d]
  BY <1>2, Zenon DEF Contents
<1> HIDE DEF data
<1>5. \/ cmd' = Idle
      \/ /\ cmd'.pc = "rotate" /\ cmd'.new = cmd.new /\ cmd'.left = cmd.left \ {c} /\ cmd'.data = data
         /\ cmd' \in Commands
  <2>1. SUFFICES ASSUME cmd' = [cmd EXCEPT !.left = @ \ {c}, !.data = data]
                 PROVE  /\ cmd'.pc = "rotate" /\ cmd'.new = cmd.new /\ cmd'.left = cmd.left \ {c} /\ cmd'.data = data
                        /\ cmd' \in Commands
    BY <1>3, Zenon
  <2>2. cmd' = [pc |-> "rotate", new |-> cmd.new, left |-> cmd.left \ {c}, data |-> data]
    BY <1>2, <2>1, Zenon
  <2>3. QED
    BY <1>2, <1>4, <2>2, Zenon DEF Commands
<1>6. FilesTyped' /\ ProcessesTyped'
  BY <1>1, <1>5, Zenon DEF FilesTyped, ProcessesTyped, Commands, fileVars, historyVars
<1>7. CommandKnows'
  BY <1>1, <1>2, <1>4, <1>5 DEF CommandKnows, Idle
<1>8. NoForeignWal' /\ CommitsSurvive'
  BY <1>1, <1>2, Zenon DEF NoForeignWal, CommitsSurvive, fileVars, historyVars
<1>9. KeysAgree'
  BY <1>1, <1>5 DEF KeysAgree, UnderOneKey, UnderKey, fileVars, historyVars, Idle
<1>10. QED
  BY <1>6, <1>7, <1>8, <1>9, Zenon

\* The rotation commits when no column is left, so that all are under the new key.
LEMMA RotateCommitsInv == ASSUME StorageInv, rotate_commits PROVE StorageInv'
<1> USE DEF StorageInv
<1>1. /\ cmd.pc = "rotate" /\ cmd.left = {} /\ commits < MaxCommits /\ server = None
      /\ cmd \in [pc : {"rotate", "rotated"}, new : Keys, left : SUBSET ENCRYPTED_COLUMNS, data : Contents]
  BY DEF rotate_commits, ProcessesTyped, Commands, Idle, CommandKnows
<1> DEFINE data == [cmd.data EXCEPT !.n = commits + 1]
<1>2. data \in Contents /\ data.key = cmd.data.key
  BY <1>1, BoundAssumption DEF FilesTyped, Contents
<1>3. Commits(data) /\ cmd' = [cmd EXCEPT !.pc = "rotated"]
      /\ UNCHANGED <<main, server, env, told, backup, cut, foreign>>
  BY Zenon DEF rotate_commits
<1> HIDE DEF data
<1>4. /\ Opened' = data /\ latest' = data
      /\ wal' \in [of : 0..MaxRestores, data : Contents] /\ wal'.of = main.id
      /\ commits' \in 0..MaxCommits
  BY <1>1, <1>2, <1>3, CommitIsOpened, Zenon
<1>5. cmd'.pc = "rotated" /\ cmd' \in Commands
  BY <1>1, <1>3, Zenon DEF Commands
<1>6. FilesTyped' /\ ProcessesTyped'
  BY <1>2, <1>3, <1>4, <1>5, Zenon DEF FilesTyped, ProcessesTyped
<1>7. CommandKnows' /\ NoForeignWal' /\ CommitsSurvive'
  BY <1>1, <1>3, <1>4, <1>5, Zenon DEF CommandKnows, NoForeignWal, CommitsSurvive
<1>8. UnderKey(data, cmd.new) /\ cmd.new \in Keys
  BY <1>1, <1>2, Zenon DEF CommandKnows, UnderKey
<1>9. KeysAgree'
  BY <1>1, <1>3, <1>4, <1>5, <1>8, Zenon DEF KeysAgree, UnderOneKey, UnderKey
<1>10. QED
  BY <1>6, <1>7, <1>9, Zenon

\* The rotation disposes of its engine, which checkpoints.
LEMMA RotateEndsInv == ASSUME StorageInv, rotate_ends PROVE StorageInv'
<1> USE DEF StorageInv
<1>1. /\ cmd.pc = "rotated" /\ server = None
      /\ cmd \in [pc : {"rotate", "rotated"}, new : Keys, left : SUBSET ENCRYPTED_COLUMNS, data : Contents]
  BY DEF rotate_ends, ProcessesTyped, Commands, Idle, CommandKnows
<1>2. /\ Opened' = Opened /\ wal' = None /\ main'.data = Opened
      /\ main' \in [id : 0..MaxRestores, data : Contents]
  BY CheckpointKeeps, Zenon DEF rotate_ends
<1>3. told' = cmd.new /\ cmd' = Idle /\ UNCHANGED <<server, env, backup, commits, historyVars>>
  BY Zenon DEF rotate_ends
<1>4. FilesTyped' /\ ProcessesTyped'
  BY <1>1, <1>2, <1>3, Zenon DEF FilesTyped, ProcessesTyped, Commands, historyVars
<1>5. CommandKnows' /\ NoForeignWal' /\ CommitsSurvive'
  BY <1>1, <1>2, <1>3, Zenon DEF CommandKnows, NoForeignWal, CommitsSurvive, historyVars, Idle
<1>6. KeysAgree'
  BY <1>2, <1>3, Zenon DEF KeysAgree, UnderOneKey, UnderKey, historyVars, Idle
<1>7. QED
  BY <1>4, <1>5, <1>6, Zenon

\* .env is edited while nothing runs.
LEMMA SetMasterKeyInv == ASSUME StorageInv, set_master_key PROVE StorageInv'
<1> USE DEF StorageInv
<1>1. Opened' = Opened
  BY OpenedKept, Zenon DEF set_master_key
<1>2. FilesTyped' /\ ProcessesTyped'
  BY Zenon DEF set_master_key, FilesTyped, ProcessesTyped, fileVars, historyVars
<1>3. CommandKnows' /\ NoForeignWal' /\ CommitsSurvive'
  BY <1>1, Zenon DEF set_master_key, CommandKnows, NoForeignWal, CommitsSurvive, fileVars, historyVars
<1>4. KeysAgree'
  BY <1>1, Zenon DEF set_master_key, KeysAgree, UnderOneKey, UnderKey, fileVars, historyVars
<1>5. QED
  BY <1>2, <1>3, <1>4, Zenon

---------------------------------------------------------------------------
(* The theorems.                                                           *)

\* An installation begins with an empty file and no command in progress.
LEMMA StorageInitInv == StorageInit => StorageInv
<1> SUFFICES ASSUME StorageInit PROVE StorageInv
  BY Zenon
<1>1. Empty \in Contents /\ UnderKey(Empty, env)
  BY BoundAssumption DEF Empty, NoSecrets, Contents, UnderKey
<1>2. Opened = Empty
  BY Zenon DEF StorageInit, Opened
<1>3. FilesTyped
  BY <1>1, BoundAssumption DEF StorageInit, FilesTyped, Backups, File
<1>4. ProcessesTyped /\ CommandKnows /\ NoForeignWal /\ CommitsSurvive
  BY <1>2, Zenon DEF StorageInit, ProcessesTyped, Commands, CommandKnows, NoForeignWal, CommitsSurvive, Idle
<1>5. KeysAgree
  BY <1>1, <1>2, Zenon DEF StorageInit, KeysAgree, UnderOneKey, File, Idle
<1>6. QED
  BY <1>3, <1>4, <1>5, Zenon DEF StorageInv

\* No step of the server, of a command or of the operator, and no kill of one,
\* leaves the invariant.
LEMMA StorageNextInv == StorageInv /\ [StorageNext]_storageVars => StorageInv'
<1> SUFFICES ASSUME StorageInv, [StorageNext]_storageVars PROVE StorageInv'
  BY Zenon
<1>1. CASE start
  BY <1>1, StartInv, Zenon
<1>2. CASE stop \/ checkpoint \/ kill_server
  BY <1>2, ServerStepInv, Zenon
<1>3. CASE kill_command
  BY <1>3, KillCommandInv, Zenon
<1>4. CASE backup_begins \/ backup_writes
  BY <1>4, BackupInv, Zenon
<1>5. CASE restore \/ restore_checks
  BY <1>5, RestoreBeginsInv, Zenon
<1>6. CASE restore_unlinks
  BY <1>6, RestoreUnlinksInv, Zenon
<1>7. CASE restore_replaces
  BY <1>7, RestoreReplacesInv, Zenon
<1>8. CASE rotate_commits
  BY <1>8, RotateCommitsInv, Zenon
<1>9. CASE rotate_ends
  BY <1>9, RotateEndsInv, Zenon
<1>10. CASE set_master_key
  BY <1>10, SetMasterKeyInv, Zenon
<1>11. ASSUME NEW c \in ENCRYPTED_COLUMNS, store_secret(c) \/ rotate_column(c)
       PROVE  StorageInv'
  BY <1>11, StoreSecretInv, RotateColumnInv, Zenon
<1>12. ASSUME NEW k \in Keys, rotate_master_key(k)
       PROVE  StorageInv'
  BY <1>12, RotateBeginsInv, Zenon
<1>13. CASE UNCHANGED storageVars
  <2>1. Opened' = Opened
    BY <1>13, OpenedKept, Zenon DEF storageVars, fileVars
  <2>2. FilesTyped' /\ ProcessesTyped'
    BY <1>13, Zenon DEF storageVars, historyVars, StorageInv, FilesTyped, ProcessesTyped
  <2>3. CommandKnows' /\ NoForeignWal' /\ CommitsSurvive'
    BY <1>13, <2>1, Zenon DEF storageVars, historyVars, StorageInv, CommandKnows, NoForeignWal, CommitsSurvive
  <2>4. KeysAgree'
    BY <1>13, <2>1, Zenon DEF storageVars, historyVars, StorageInv, KeysAgree, UnderOneKey, UnderKey
  <2>5. QED
    BY <2>2, <2>3, <2>4, Zenon DEF StorageInv
<1>14. QED
  BY <1>1, <1>2, <1>3, <1>4, <1>5, <1>6, <1>7, <1>8, <1>9, <1>10, <1>11, <1>12, <1>13, Zenon DEF StorageNext

\* Wherever the server and the commands of nacoctl are killed, the invariant holds.
THEOREM StorageInvariant == StorageSpec => []StorageInv
BY StorageInitInv, StorageNextInv, PTL DEF StorageSpec

\* The files, the keys and the counters keep their types, and nacoctl restore
\* goes on only while NACo is stopped.
THEOREM StorageTypeCorrect == StorageSpec => []StorageTypeOK
<1>1. StorageInv => StorageTypeOK
  BY Zenon DEF StorageInv, FilesTyped, ProcessesTyped, CommandKnows, StorageTypeOK
<1>2. QED
  BY <1>1, StorageInvariant, PTL

\* nacoctl restore never leaves a -wal file beside a database it was not written for.
THEOREM WalBelongsToDatabase == StorageSpec => []NoForeignWal
<1>1. StorageInv => NoForeignWal
  BY Zenon DEF StorageInv
<1>2. QED
  BY <1>1, StorageInvariant, PTL

\* What was committed last, or restored last, is what the next process finds,
\* wherever NACo, a backup, a rotation or a restore was killed; the one exception
\* is a restore killed between os.unlink() and os.replace().
THEOREM CommittedIsFound == StorageSpec => []CommitsSurvive
<1>1. StorageInv => CommitsSurvive
  BY Zenon DEF StorageInv
<1>2. QED
  BY <1>1, StorageInvariant, PTL

\* nacoctl rotate-master-key never leaves secrets under two keys, with any number
\* of encrypted columns and wherever it is killed.
THEOREM OneKeyForAllSecrets == StorageSpec => []SecretsUnderOneKey
<1>1. ASSUME StorageInv, ~foreign PROVE Cardinality(KeysOf(Opened)) <= 1
  <2>1. PICK k \in Keys : UnderKey(Opened, k)
    BY <1>1, Zenon DEF StorageInv, KeysAgree, UnderOneKey
  <2>2. KeysOf(Opened) \subseteq {k}
    BY <2>1, Zenon DEF KeysOf, UnderKey
  <2>3. IsFiniteSet({k}) /\ Cardinality({k}) = 1
    BY FS_Singleton, Zenon
  <2>4. Cardinality(KeysOf(Opened)) <= Cardinality({k})
    BY <2>2, <2>3, FS_Subset, Zenon
  <2>5. QED
    BY <2>3, <2>4, Zenon
<1>2. StorageInv => SecretsUnderOneKey
  BY <1>1, Zenon DEF SecretsUnderOneKey
<1>3. QED
  BY <1>2, StorageInvariant, PTL
=============================================================================
