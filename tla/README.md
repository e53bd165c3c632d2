# A TLA+ model of NACo

NACo is a network access control server: one asyncio process over one SQLite
file, between the network's switches and access points (NAS) and the people who
administer it. This directory models the parts of it whose correctness depends
on order: which decision a session holds, which changes reach it, how a session
is ended, whose password is accepted, what an administrator's requests may do to
one another, and what a killed process leaves in the database file.

## The system

| Part | State | Operations | Modelled by |
|---|---|---|---|
| Policy engine (`policy/`) | policy table | compile, match, decide | `Policy` |
| Subject context (`aaa/subject.py`) | – | device state, hard rules | `Policy` |
| AAA service (`aaa/`, `radius/clients.py`) | devices, auth log, sessions, verified users | authenticate, authorize, accounting | `AAA` |
| Configuration routes (`api/routes/`) | users, devices, guests, policies, NAS | create, update, delete, then schedule | `AAA`, `Enforcement` |
| Re-evaluation (`radius/reevaluate.py`) | event, reasons, a run's reads | schedule, run | `Reevaluator`, `Enforcement` |
| CoA exchange (`radius/coa.py`, `vendors.py`) | exchanges, datagrams | send, retransmit, match the answer | `CoaExchange`, which implements `Disconnect`; its outcome in `Enforcement` |
| Simulator (`api/routes/policies.py`) | – | simulate | `Simulator` |
| Administrators (`api/routes/auth.py`, `admin.py`, `api/sessions.py`, `deps.py`, `totp.py`, `cli.py`) | accounts, sessions, tokens | sign-in, own account, others' accounts, resets | `AdminAuth` |
| Maintenance (`maintenance.py`, `main.py`) | the time of the last pass | prune, count, notify | `Maintenance`; the deletions also as steps of `AAA`, `AdminAuth` |
| Guest portal (`portal/app.py`) | guests | register | step of `AAA` and `Maintenance` |
| Identity and LDAP (`auth/`), user import (`api/routes/transfer.py`) | users, groups | authenticate, provision, edit, import | `Credentials` |
| Guess guard (`core/ratelimit.py`) | failures per identity and source | delay, failure, success | `GuessGuard` |
| TACACS+ (`tacacs/`) | connections, logins, groups, command sets | dialogue, authorize, account | `Tacacs` |
| Event stream (`core/events.py`, `api/routes/overview.py`) | subscriber queues, streams | publish, subscribe, check, send | `Feed` |
| Storage (`db/`, `cli.py`, `core/secrets.py`) | the database file and its log, the key, a backup | commit, checkpoint, backup, restore, rotate | `Storage` |

How they interact. FreeRADIUS calls `authenticate` and `authorize` for a station
that wants to join and `accounting` for what the NAS reports later. `authorize`
logs its decision; `accounting` copies user, method and decision digest from the
latest matching accept onto the session row. A configuration route commits and
then calls `schedule`; the re-evaluation task wakes, recomputes the decision of
every stored session and disconnects those whose digest no longer matches.

What makes this hard: tasks interleave at every `await`, and each request or run
is several transactions; accounting is late, lost, repeated or out of order; the
notice of a change is in memory only, so a restart or a failed run drops it;
password hashing and LDAP take place between two transactions; SQLite hands the
row id of a deleted last row to the next one; datagrams are lost, late or
repeated; a command may be killed between two steps on the database file.

## Modules

* `Policy` – operators only. A row has a priority, an id, conditions, an action
  and a reply; `valid` says whether it compiles. Names and addresses are values,
  a reply (VLAN and attributes) is one value, a digest is the pair of action and
  reply. The context has the user, group, method, NAS, SSID, guest flag and status
  of a device; its type, vendor and the hour are left out (see Not modelled).
* `AAA` – the tables and the service. `Decision(req)` is what `_decide` returns,
  `authorize` adds the device row and the log row, `accounting` is the handler
  for start, interim, stop and on/off records. `Updated` is the row a record leaves,
  `Redecide` what `reevaluate()` decides of it. `auth_logs` keeps the accepts
  `_latest_accept` can still find; an accept that a newer one hides is dropped.
  `guests` counts registrations in force. `verified` is the window of recently
  checked passwords, from which an entry may vanish at any time (age, eviction).
  `OneStationPerSession` is what RFC 2866 asks of a NAS: the records of a session
  name one station. The code relies on it without a check.
* `Reevaluator` – the loop alone, over abstract changes: which of them each read
  of a run can see. A change is committed, noticed, taken, and then settled by a
  completed run, or lost where the code drops it.
* `Enforcement` – both together with the NAS. It extends `AAA` and `Reevaluator`
  and adds what a run has read, the disconnects to send, the sessions that are
  up at the NAS (`live`) and the accounting records on their way (`acct`).
  `judged` is history: what the last run decided of a row not written since. It
  is dropped (`Outdate`) by the writes for which the code schedules no run: a
  station first recorded by `authorize`, a user created whom a MAB session
  already names, a group that an LDAP sign-in refreshes (`identity.py:124`) or a
  route renames (`users.py:274`), and changes of RADIUS clients. After one of these
  a kept session may have another decision now, until the next run; the docs list
  none of them as a trigger (`docs/policies.md:71`).
* `Maintenance` – extends `Reevaluator` with guest registrations, the clock and
  the maintenance task. The end of a registration is a change nobody commits; it
  counts as committed when the clock reaches it, and a pass has to find it.
* `Disconnect` – what disconnecting promises: the NAS ends only what it was asked
  to end, every request comes back, and an ACK tells the truth.
* `CoaExchange` – the packets behind that promise. `net` keeps every datagram ever
  sent, so that any of them may arrive late or again. The NAS is external: it
  ends the sessions that agree with all a request carries, or refuses. `Promised`
  is the refinement mapping: an exchange with a packet and no outcome is pending.
* `GuessGuard` – the two progressive delays and the failing sources; an
  OrderedDict is a sequence of items with distinct keys.
* `Credentials` – extends `GuessGuard`: a request is suspended in bcrypt, in the
  directory's search or bind, before `_provision` or between its two transactions;
  users, groups, the directory and an import of users change meanwhile. A hash is
  the password it is of. The last failure (`failed`: a wrong password, but also a
  disabled account or a directory that did not answer) and the last accept
  (`accepted`) of a station for a name, as long as they count, are history. An
  import skips the rows of groups its principal may not hand out (`barred`, any set of
  groups: the groups for device administration are for superusers).
* `Simulator` – `simulate` over the state of `AAA`.
* `AdminAuth` – administrators. A process is a request; it is suspended where
  the code releases its transaction to hash. Passwords, secrets and sets of
  recovery codes are numbers drawn once.
* `Feed` – extends `AdminAuth` with the event bus and the streams. A stream first
  sends its `retry` chunk, however long the client takes, and counts the time to its
  first check from there (`began`). `gone` (since when the credential of a stream is
  gone) is history; `mistaken` marks a stream
  whose check found a later session under its row id.
* `Storage` – the database file, its -wal file and the processes that use them.
  The content of a database is the number of its commit and the key each
  encrypted column is under. SQLite is external: it reads the -wal file beside a
  database, whichever it was written for.
* `Tacacs` – the TACACS+ server and the routes that edit groups, command sets and
  clients. A connection is a task, suspended in its client lookup, for a packet,
  in the comparison of a password, before the command set is loaded, or while a
  log row is stored. `said` (the packets of a session in sequence) and `ever`
  (whether a command was within the group's set since the request) are history.
* The theorems: `ReevaluatorProofs`; `OperationsProofs` on `Maintenance` and
  `Storage`; `EnforcementProofs` on `AAA`, `Enforcement` and `Simulator`;
  `AuthProofs`, `FeedProofs`, `TacacsProofs`, `CoaProofs` and `CredentialsProofs` on
  the module each is named for.
* `MC*` – the instances.

None stands for Python's `None` and for an empty string. `Closed` marks a NAS
session that has ended. A definition whose name says how it differs from
another (`TakeKeepingReasons`, `latest_accept_any_nas`, …) is a faulty variant
of the next definition, kept to show that a property notices the fault.

## Runs

| Run | Shows |
|---|---|
| `maintenance` | event and reasons agree; reads cover what a run was woken for; no change is forgotten, and every one is settled or dropped where the code drops it; no registration ends unnoticed between two passes; a pass deletes all that is due |
| `aaa` | a session row takes its context from an accept of its own NAS, station or user; a session just accepted would not be cut, whatever row its records meet |
| `enforcement` | at rest, every session a run kept still has the decision the configuration gives it, after the changes a route schedules a run for; broken policies cut nobody |
| `coa` | the exchanges implement `Disconnect`; no session is ended but those chosen, where the vendor takes a session id; every target comes to an outcome |
| `credentials` | the directory's answer does not take over a local account; an import only adds, all or nothing; a station without failures is slowed only when many others had some; a verified password is remembered as long as it should be |
| `simulator` | simulate and authorize agree for a known station behind an enabled client |
| `admin` | a code works once; the recovery codes shown are those stored; disabling ends sessions for good; an enabled superuser remains; a new password ends the other sessions; a stream ends soon after its session (or after its first chunk was taken), shows audit records only to those who may see them, and loses only its oldest events |
| `tacacs` | the connection counters are the open connections and stay within the limits; a login is checked with what its own session said, in sequence |
| `storage` | a -wal file is never read with another database; commits survive; the secrets are under one key, wherever a rotation is killed |

Three runs end in a counterexample, where the code does other than the
repository says:

| Run | What happens |
|---|---|
| `late_accounting` | an accept is followed by a change and its run; the accounting start arrives afterwards and stores the old digest, which no run compares until the next change |
| `command_set` | an authorization reads the account, the group gets another command set, the first one is deleted: no set is found, and the command is granted |
| `restore_empty` | a backup is killed before its first page; the empty file passes `PRAGMA integrity_check`, and restore puts it in place of the database |

Other differences were met while modelling, which no run checks:

* a run reads policies and world in two transactions; with a change of each in
  between it may cut a session whose decision is the same before and after
  (docs/policies.md:73 says only changed ones are disconnected);
* a session that falls back from 802.1X to MAB keeps its username, and the run
  judges it with that user's group (`FreshAcceptStays` excepts a station accepted by
  its address whose row names a known user);
* between the two transactions of `_provision` (`identity.py:127` and `130`) the
  account may be deleted and a local one created under its name, and the sign-in is
  then let in on that one (`NoTakeover` excepts this, and covers every other order);
* a sign-in that is hashing the old password while the password changes opens a
  session that the change did not end (docs/security.md:35);
* a stream whose session ended goes on if a later session gets its row id, and as
  long as its client does not take a chunk, after the first one for another interval;
* `restore` removes the -wal file before it replaces the database: killed in
  between, it loses what a killed NACo had left there (`CommitsSurvive` excepts
  this), and a rotation killed between its commit and its message leaves NACo to
  start with the old key (`SecretsUnderOneKey` excepts what follows).

`SimulatorAgrees` leaves out two kinds of request on which simulate and authorize
differ. A disabled client: `simulate` does not look at the flag, although
docs/policies.md lists it among the hard rules. A station not seen before:
authorize records it as pending before it decides, simulate gives it no status.

### Bounds

* `maintenance`: a policy change and a guest, whose registration and its end are
  two changes of the world, two ticks of the clock, one failing pass, at most two
  rows due and chunks of one. The registration can end before a pass, as it begins
  or while it runs, and a full chunk is followed by another. The policy changes
  only in behaviours in which no pass fails and no row is due: it meets the loop,
  not the deletions.
* `aaa`: two access points behind one network client and a switch of its own,
  one user with two stations, two SSIDs one of which a policy names, one session id,
  `MaxLog` = 2 accepts: two accepts compete for every record. A record may leave out
  the station or the SSID, and a station may move between the access points, or from
  802.1X to MAB, within its session. The tables hold still in this run, except that
  the user's row is created.
* `enforcement`: one station, user, NAS and session id, two groups, a policy change
  and a world change, three tables of which one does not load. Every step of a run
  can then meet every change; sessions do not influence one another in the code. The
  operator's own disconnects are taken only while the loop waits: they share
  nothing with a run but the session rows. The user is in another group, or in none,
  only in behaviours with the first table, the client in place, no guest and no
  operator (`Bound`). Passwords are not checked here: requests are EAP-TLS.
* `coa`: a station that has joined twice, two exchanges, a gate that admits one, one
  port and one identifier: the second waits at the gate for the first, and then hears
  every late answer to it;
  two sendings each; requests built in the same second and in another; a vendor
  that takes a session id and one that takes the station only.
* `credentials`, two scenarios: in one an account and a group are edited,
  imported and signed in to at a standing clock, by two requests or by one beside
  an import, none of which starts after the first has failed; the file has a second
  name, whose account may be created while the import hashes, so that a part of the
  rows conflicts; the directory fails and recovers only while it is asked. In the other
  three stations guess while time passes, with delays after one failure, a
  distributed guess at two sources and maps of two keys, so that keys are evicted.
  `FloatExponent` keeps its real value and is not reached.
* `simulator`: all tables over four rules, every device and guest state.
* `admin`, three scenarios: one account, with and without a second factor, two
  requests in progress, two sign-ins, two time steps, one recovery code per set;
  two superusers and a token; and one stream of the second of two superusers, with
  requests one at a time, a queue of two, three events, none of them after a second
  sign-in, and one unit of time between checks. The first scenario starts with an
  enrolled account and nobody signed in, or with a plain account whose last sign-in
  is open, the others as `MCAdmin` says. `MaxFresh` bounds the
  values drawn. Requests in progress are symmetric. OPERATOR occurs in the third
  scenario only: the routes of the other two treat it as VIEWER.
* `tacacs`: one user and group, two command sets, three devices, limits of two
  connections in total and one per device (each refuses a connection that the other
  would admit), two session ids, sequence numbers up
  to 5 (a dialogue has three packets). Connections share nothing but the
  counters, so two are open only while the tables hold still and one of them at
  most is in a dialogue; a connection alone meets one edit and two dialogues.
  `command_set` needs two edits.
* `storage`: two keys, two columns, three commits, two restores: a rotation can be
  killed between columns and repeated, and a restore can follow a restore.

Deadlock is checked in every run but `coa` and `credentials`, whose instances stop
at their bounds.

### Fairness

`maintenance` assumes weak fairness of a step of the re-evaluation loop, of a step
of the maintenance task, and of a route's `schedule` after its commit: the event
loop runs every ready task, and each await ends by an answer, a timeout or an
exception. The clock may stand still, and nothing is assumed of commits,
failures or restarts. `coa` assumes weak fairness of each exchange's own steps
(timers fire, the semaphore lets the next one in) and nothing of the network or
the NAS; the abstract `Promise` has weak fairness of a request's return, which
the run shows to follow.

## Proofs

Every safety property that a run above finds to hold is also proved, for all
values of the constants that meet the assumptions below. The theorems speak of
the specifications themselves (`Spec`, `CredentialsSpec`, …), which allow more
than the instances do: none of the restrictions under Bounds is an assumption of
a proof. (Some instances start further on, in a state of a running system, and
with histories that begin there.) Each module follows the same line: an inductive invariant, one
lemma for the initial states, one for each group of actions, and the properties as
consequences. The instances check that the properties are not true for want of
cases; the proofs that the cases of the instances are not the only good ones.

| Module | Invariant | Properties that follow |
|---|---|---|
| `ReevaluatorProofs` | `LoopInv` | `WakeIffReasons`, `ReadsCoverBatch`, `NoChangeForgotten` |
| `OperationsProofs` | `MaintenanceInv` | `MaintenanceTypeOK`, `NoGapBetweenPasses`, `PassPrunesAll`; `Maintenance` implements the loop of `Reevaluator`, so `LoopInv` |
| | `StorageInv` | `StorageTypeOK`, `NoForeignWal`, `CommitsSurvive`, `SecretsUnderOneKey` |
| `EnforcementProofs` | `EnforcementInv` | `KeptSessionsConform`, `NeverCutsOnBrokenPolicies` |
| | `ContextInv` | `ContextFromOwnAccept`, of `AAA` alone and of `Enforcement` |
| | `ServiceInv` | `AAATypeOK`, `FreshAcceptStays`, of `AAA` alone and of `Enforcement` |
| | `RunTyped`, `NasTyped` | `EnforcementTypeOK` |
| | none: it holds in every state | `SimulatorAgrees` |
| `AuthProofs` | `AuthInv` | `AuthTypeOK`, `CodeWorksOnce`, `ShownCodesAreStored`, `DisabledEndsSessions`, `SuperuserRemains`, `PasswordChangeEndsSessions` |
| `FeedProofs` | `FeedInv` | `FeedTypeOK`, `StreamEndsWithSession`, `AuditForThoseWhoMay`, `OnlyOldestLost`; `Feed` implements `AdminAuth`, so all of `AuthProofs` |
| `TacacsProofs` | `TacacsInv` | `TacacsTypeOK`, `SlotsMatchConnections`, `LoginsFromOwnDialogue` |
| `CoaProofs` | `CoaInv` | `CoaTypeOK`, `OnlyChosenEnd`; `CoaExchange` implements the safety part of `Disconnect` |
| `CredentialsProofs` | `CredentialsInv` | `CredentialsTypeOK`, `OwnerNotSlowed`, `VerifiedRemembered`, `ImportsOnlyAdd` |
| | `LoadInv` | `NoTakeover` |

Why the invariants say more than the properties:

* `LoopInv` says where a committed change can be (in a route, among the reasons,
  in the batch, settled or lost), that the batch is empty while the loop waits,
  and that after the first read the batch's policy changes have been seen.
* `MaintenanceInv` measures what a pass found, and what the next will find,
  against the two marks `since` and `at`, neither of which is ahead of the clock.
* `EnforcementInv` carries a verdict through a run: what the run has read is what
  is stored unless a change is neither applied nor seen by it (`RunInv`), so is
  its verdict (`VerdictInv`), and so, once it is complete, is `judged`
  (`JudgedInv`). Which changes those are is `LoopInv`: the proof of the composition
  rests on that of the loop.
* `ContextInv` says of a session row that its station was named by a record of the
  session, and how its context relates to the accept it came from (`origin`, a
  history field), which the log may have dropped since. It needs `OneStationPerSession`, a hypothesis of the two theorems and not
  an assumption of the module: a NAS that breaks it can move the context of
  one station to another.
* `ServiceInv` says that a stored session has a digest exactly if it has a method and
  that the log holds accepts. `FreshAcceptStays` rests on one more fact, about the
  log: the accept appended last is the one `latest_accept` finds for every record of
  its session, from its own address or another of the same client.
* `NasTyped` says that a session that is up was opened by a request at its NAS, so
  that its records are ones `accounting` can read.
* `AuthInv` follows each secret and each set of recovery codes from where it is
  drawn: no two accounts share one, a spent code is of no use to any account, and a
  secret whose codes were shown is never pending again (`FactorInv`); a session is of
  an account that exists, and was not open while that account was disabled, if it is
  enabled now (`SessionInv`); a request that confirms a secret holds a code of one
  (`ProcInv`).
* `FeedInv` relates the time of a stream's last check to the time its credential
  went; before the first check it is the time of the first chunk, which is why the
  property has two bounds.
* `TacacsInv` ties what a login waits for, on a connection, to the packets that
  were `said` on it, and each counter to the set of open connections; that a
  counter does not drift is an argument on cardinalities.
* `CoaInv` speaks of every datagram ever sent: an ACK anywhere on the network is
  to a request whose session has been ended, which is why it may come late.
* `StorageInv` says that every content the database has, or may get back from a
  backup or a restore in progress, is under one key, and what a command has made
  sure of when it has reached a step.
* `CredentialsInv` has a part for each data structure. `GuardInv` says that what
  the guess guard remembers is a failure that happened, in the window or before it,
  and that its dictionaries hold a key once. `VerifiedInv` says that the remembered
  accepts are in the order of their times and are the latest ones: an accept that
  is missing is too old, or as many others as there is room for came after it.
  `TablesInv` says that an account without a password is one of the directory and
  that no account names a group that is gone, `RequestsInv` and `UploadInv` what a
  suspended request and a suspended import hold. `LoadInv` says that a request
  between the transactions of `_provision` finds an account of the directory, as long
  as the one it stored has not been deleted. The lemmas before them say what
  the operations of an OrderedDict (set, move to end, pop the first) do to one of
  any length, without induction, by the items at each place.

The assumptions, each named where its constants are declared and evaluated by
TLC on every run that extends the module:

* The marks for nothing are none of the values: `NoneAssumption` (`AAA`,
  `CoaExchange`, `Tacacs`, `Credentials`), `NoRowAssumption`, `KeyAssumption`,
  `WalAssumption`. `ChangesAreDisjoint` and `GuestsAreChanges` do the same for the
  kinds of change.
* Sizes and bounds are numbers, and positive where the code's configuration asks
  for it: `DurationAssumption`, `PassAssumption`, `BoundAssumption`,
  `AuthBoundAssumption`, `FeedAssumption`, `LimitAssumption`, `Bounds`,
  `GuardAssumption`, `RememberedAssumption`, `GuestsAreBounded`.
* Row ids are numbers from one: `AdminKeysAssumption`, `GroupIdsAreRowIds`.
* Inputs have the shape of what the handlers are called with: `InputsAreWellFormed`
  (`AAA`, `Credentials`), `RowAssumption`, and `RecordsOfSessions` (what a NAS may
  report of a session that a request opened is among the records).
* `PoliciesAreOrdered`: a policy's id and priority are numbers, and no two policies
  of a table have one id. `NetworksAreFinite`, `NamesAreFinite`: the addresses of a
  client, the names and the stations are finitely many.
* `SessionIdsDiffer`: a NAS gives no two sessions one id.

Only model-checked, and why:

* `EveryChangeResolved` and `EveryTargetTried` are liveness under fairness, which
  the prover does not do. So is the fairness in `KeepsPromise`; the rest of that
  refinement is the theorem `CoaImplementsDisconnect`.
* The three counterexamples are facts about one instance, and need no more.

## Not modelled

Three fields of the policy context: the device type, which the same scheduled
routes write as its status (`devices.py:124`); the vendor, which follows from the
address when the station is first recorded and does not change; and the hour, for a
decision that depends on it changes with the clock and without any run, so that
"the decision of now" is one at a fixed hour. The explanation the simulator shows; octet counters;
CSRF and the throttling of requests by address; imports of devices and RADIUS
clients (one transaction each) and exports; rendering, formatting and the
configuration file; FreeRADIUS, the LDAP protocol and SQLite's own recovery. Idle
and absolute session timeouts are an expiry that may happen at any time. Groups
are a field of the user's row in `AAA`, and rows of their own in `Tacacs` and
`Credentials`. Packets of RADIUS and TACACS+ are what they say, not bytes; a
malformed one is dropped, or a connection that ends. `Storage` has one backup
file and one command at a time, and an operator who stops NACo first, as the
commands ask.

Small hazards that no property covers: octet counters of a NAS that sends no
gigawords (`aaa/service.py:326`); priorities beyond 9999 after reordering a
thousand policies (`policies.py:173`); a TACACS+ sequence number at its end
(`protocol.py:89`); `change_password` overwriting a reset that came while it hashed
(`auth.py:190`); two rows of a NAS file with one name, which fail together at the
commit (`transfer.py:211`).
