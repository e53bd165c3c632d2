------------------------------ MODULE Storage ------------------------------
(***************************************************************************)
(* The database file through its life: the server that writes it, and the  *)
(* commands of nacoctl that copy it, replace it and encrypt its secrets    *)
(* anew (naco/cli.py, naco/core/secrets.py, naco/db/engine.py,             *)
(* naco/main.py).  Every process can be killed between any two steps.      *)
(*                                                                         *)
(* The content of a database is the number of the commit that made it and, *)
(* for every encrypted column, the key its values are under (None: there   *)
(* are none).  In WAL mode a commit goes to a second file, which SQLite    *)
(* reads together with the first, whichever that is.                       *)
(***************************************************************************)
EXTENDS Naturals, FiniteSets

CONSTANTS
    None,
    ENCRYPTED_COLUMNS,
    Keys,         \* values of NACO_MASTER_KEY
    MaxCommits,   \* bound on the commits
    MaxRestores   \* bound on the restores that replace the file

ASSUME KeyAssumption == None \notin Keys
ASSUME BoundAssumption == MaxCommits \in Nat /\ MaxRestores \in Nat

VARIABLES
    main,     \* the database file: which one it is, and its content
    wal,      \* the -wal file beside it: the file it was written for, and the content with it
    server,   \* the key NACo runs with, or None
    env,      \* NACO_MASTER_KEY in .env
    told,     \* the key the operator has been told to put there, or None
    backup,   \* the file at hand: "none", "empty", "partial" or "whole", and its content
    cmd,      \* the nacoctl command in progress
    commits,  \* how many transactions have committed
    latest,   \* history: the content last committed, or last put in place by a restore
    cut,      \* history: a restore was killed after it removed the -wal file
    foreign   \* history: NACo has run with a key the secrets were not under

fileVars == <<main, wal>>
historyVars == <<latest, cut, foreign>>
storageVars == <<main, wal, server, env, told, backup, cmd, commits, historyVars>>

Idle == [pc |-> "idle"]
NoSecrets == [c \in ENCRYPTED_COLUMNS |-> None]

\* What opening an empty file gives, and upgrade_head() fills with tables.
Empty == [n |-> 0, key |-> NoSecrets]

\* What a process that opens the database finds; None is a mixture of two.
Opened ==
    CASE wal = None -> main.data
      [] wal # None /\ wal.of = main.id -> wal.data
      [] OTHER -> None

File(state, data) == [state |-> state, data |-> data]

KeysOf(data) == {data.key[c] : c \in ENCRYPTED_COLUMNS} \ {None}

Contents == [n : 0..MaxCommits, key : [ENCRYPTED_COLUMNS -> Keys \cup {None}]]

\* None stands for a -wal file that is not there.
ASSUME WalAssumption == None \notin [of : 0..MaxRestores, data : Contents]

StorageTypeOK ==
    /\ main \in [id : 0..MaxRestores, data : Contents]
    /\ wal \in [of : 0..MaxRestores, data : Contents] \cup {None}
    /\ server \in Keys \cup {None} /\ env \in Keys /\ told \in Keys \cup {None}
    /\ commits \in 0..MaxCommits
    /\ cmd.pc \in {"restore", "unlink", "replace"} => server = None

---------------------------------------------------------------------------
(* The server, and SQLite below it.                                        *)

\* main() and serve(): .env is read, the schema is brought up to date.
start ==
    /\ server = None /\ cmd = Idle
    /\ server' = env
    /\ foreign' = (foreign \/ ~(KeysOf(Opened) \subseteq {env}))
    /\ UNCHANGED <<fileVars, env, told, backup, cmd, commits, latest, cut>>

\* A transaction commits, into the -wal file.
Commits(data) ==
    /\ wal' = [of |-> main.id, data |-> data]
    /\ latest' = data
    /\ commits' = commits + 1

\* A request that stores a secret: EncryptedString encrypts it on its way in.
store_secret(c) ==
    /\ server # None /\ commits < MaxCommits
    /\ Commits([n |-> commits + 1, key |-> [Opened.key EXCEPT ![c] = server]])
    /\ UNCHANGED <<main, server, env, told, backup, cmd, cut, foreign>>

\* The last connection closes, or SQLite finds the -wal file long enough: its
\* content moves into the database file.
Checkpointed ==
    /\ main' = [main EXCEPT !.data = Opened]
    /\ wal' = None

checkpoint ==
    /\ server # None /\ wal # None
    /\ Checkpointed
    /\ UNCHANGED <<server, env, told, backup, cmd, commits, historyVars>>

\* SIGTERM: serve() ends with dispose_engine(); while a backup has the database
\* open as well, the -wal file stays.
stop ==
    /\ server # None
    /\ server' = None
    /\ IF cmd = Idle THEN Checkpointed ELSE UNCHANGED fileVars
    /\ UNCHANGED <<env, told, backup, cmd, commits, historyVars>>

\* The server, or the command, is killed.
kill_server ==
    /\ server # None
    /\ server' = None
    /\ UNCHANGED <<fileVars, env, told, backup, cmd, commits, historyVars>>

kill_command ==
    /\ cmd # Idle
    /\ cmd' = Idle
    /\ cut' = (cut \/ cmd.pc = "replace")
    /\ UNCHANGED <<fileVars, server, env, told, backup, commits, latest, foreign>>

---------------------------------------------------------------------------
(* backup                                                                  *)

\* _sqlite_copy() creates the file, or truncates it.
backup_begins ==
    /\ cmd = Idle
    /\ cmd' = [pc |-> "backup"]
    /\ backup' = File("empty", Empty)
    /\ UNCHANGED <<fileVars, server, env, told, commits, historyVars>>

\* Pages are written; the copy is whole when the last one is.
backup_writes ==
    /\ cmd.pc = "backup"
    /\ \/ backup' = File("partial", None) /\ cmd' = cmd
       \/ backup' = File("whole", Opened) /\ cmd' = Idle
    /\ UNCHANGED <<fileVars, server, env, told, commits, historyVars>>

---------------------------------------------------------------------------
(* restore, with NACo stopped.                                             *)

\* Mutant of restore: the files beside the database go first.
restore_unlinking_first ==
    /\ cmd = Idle /\ server = None /\ backup.state # "none"
    /\ cmd' = [pc |-> "restore", file |-> backup]
    /\ wal' = None
    /\ UNCHANGED <<main, server, env, told, backup, commits, historyVars>>

\* The backup is received into a file of its own.
restore ==
    /\ cmd = Idle /\ server = None /\ backup.state # "none"
    /\ cmd' = [pc |-> "restore", file |-> backup]
    /\ UNCHANGED <<fileVars, server, env, told, backup, commits, historyVars>>

\* PRAGMA integrity_check finds nothing wrong with an empty file.
restore_checks ==
    /\ cmd.pc = "restore"
    /\ cmd' = IF cmd.file.state = "partial" THEN Idle ELSE [cmd EXCEPT !.pc = "unlink"]
    /\ UNCHANGED <<fileVars, server, env, told, backup, commits, historyVars>>

\* Mutant of restore_unlinks: only the -shm file goes.
restore_unlinks_shm ==
    /\ cmd.pc = "unlink"
    /\ cmd' = [cmd EXCEPT !.pc = "replace"]
    /\ UNCHANGED <<fileVars, server, env, told, backup, commits, historyVars>>

restore_unlinks ==
    /\ cmd.pc = "unlink"
    /\ wal' = None
    /\ cmd' = [cmd EXCEPT !.pc = "replace"]
    /\ UNCHANGED <<main, server, env, told, backup, commits, historyVars>>

\* os.replace(), and upgrade_head() on what is now the database.
restore_replaces ==
    /\ cmd.pc = "replace" /\ main.id < MaxRestores
    /\ main' = [id |-> main.id + 1, data |-> cmd.file.data]
    /\ latest' = cmd.file.data
    /\ cmd' = Idle
    /\ cut' = FALSE
    /\ UNCHANGED <<wal, server, env, told, backup, commits, foreign>>

---------------------------------------------------------------------------
(* rotate-master-key, with NACo stopped.                                   *)

rotate_master_key(k) ==
    /\ cmd = Idle /\ server = None /\ k # env /\ commits < MaxCommits
    /\ cmd' = [pc |-> "rotate", new |-> k, left |-> ENCRYPTED_COLUMNS, data |-> Opened]
    /\ UNCHANGED <<fileVars, server, env, told, backup, commits, historyVars>>

\* Mutant of Reencrypted: the decrypted value is written back.
ReencryptedInPlain(c) ==
    /\ cmd.pc = "rotate" /\ c \in cmd.left
    /\ cmd' = IF cmd.data.key[c] \in {env, None}
              THEN [cmd EXCEPT !.left = @ \ {c}, !.data.key[c] = IF @ = None THEN None ELSE "plain"]
              ELSE Idle

\* decrypt() under the old key fails for a value under another: the command
\* ends, and its transaction with it.
Reencrypted(c) ==
    /\ cmd.pc = "rotate" /\ c \in cmd.left
    /\ cmd' = IF cmd.data.key[c] \in {env, None}
              THEN [cmd EXCEPT !.left = @ \ {c}, !.data.key[c] = IF @ = None THEN None ELSE cmd.new]
              ELSE Idle

\* Mutant of rotate_column: every column is a transaction of its own.
rotate_column_committing(c) ==
    /\ Reencrypted(c)
    /\ wal' = IF cmd' = Idle THEN wal ELSE [of |-> main.id, data |-> cmd'.data]
    /\ latest' = IF cmd' = Idle THEN latest ELSE cmd'.data
    /\ UNCHANGED <<main, server, env, told, backup, commits, cut, foreign>>

rotate_column(c) ==
    /\ Reencrypted(c)
    /\ UNCHANGED <<fileVars, server, env, told, backup, commits, historyVars>>

rotate_commits ==
    /\ cmd.pc = "rotate" /\ cmd.left = {}
    /\ Commits([cmd.data EXCEPT !.n = commits + 1])
    /\ cmd' = [cmd EXCEPT !.pc = "rotated"]
    /\ UNCHANGED <<main, server, env, told, backup, cut, foreign>>

\* _run() disposes of the engine, and the operator is told.
rotate_ends ==
    /\ cmd.pc = "rotated"
    /\ Checkpointed
    /\ told' = cmd.new
    /\ cmd' = Idle
    /\ UNCHANGED <<server, env, backup, commits, historyVars>>

\* The operator edits .env.
set_master_key ==
    /\ told # None /\ server = None /\ cmd = Idle
    /\ env' = told
    /\ told' = None
    /\ UNCHANGED <<fileVars, server, backup, cmd, commits, historyVars>>

---------------------------------------------------------------------------
StorageInit ==
    /\ main = [id |-> 0, data |-> Empty] /\ wal = None
    /\ server = None /\ told = None /\ cmd = Idle
    /\ backup = File("none", None)
    /\ env \in Keys
    /\ commits = 0
    /\ latest = Empty /\ cut = FALSE /\ foreign = FALSE

StorageNext ==
    \/ start \/ stop \/ checkpoint \/ kill_server \/ kill_command
    \/ backup_begins \/ backup_writes
    \/ restore \/ restore_checks \/ restore_unlinks \/ restore_replaces
    \/ rotate_commits \/ rotate_ends \/ set_master_key
    \/ \E c \in ENCRYPTED_COLUMNS : store_secret(c) \/ rotate_column(c)
    \/ \E k \in Keys : rotate_master_key(k)

StorageSpec == StorageInit /\ [][StorageNext]_storageVars

---------------------------------------------------------------------------
(* Properties.                                                             *)

\* SQLite never reads a -wal file together with a database it was not written
\* for: restore removes the old one before it puts the backup in place, also
\* when NACo was killed and left one, and wherever the restore itself is killed.
NoForeignWal == wal # None => wal.of = main.id

\* No committed transaction is lost, and a restore that is refused or killed
\* leaves the database as it was.  One exception is part of the code: the -wal
\* file is removed before the database is replaced, so what a killed NACo had
\* left in it is lost when the restore is killed between the two.
CommitsSurvive == cut \/ cmd.pc = "replace" \/ Opened = latest

\* Wherever a rotation is killed, all secrets are under one key and one run of
\* NACo or of a new rotation can read them all, as long as NACo was never started
\* with a key the stored secrets are not under.
SecretsUnderOneKey == foreign \/ Cardinality(KeysOf(Opened)) <= 1

\* "the backup is not a valid NACo database": what a restore puts in place of the
\* database is the content of a backup that was completed.
RestoresOnlyBackups == cmd.pc = "replace" => cmd.file.state = "whole"
============================================================================
