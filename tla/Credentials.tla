---------------------------- MODULE Credentials ----------------------------
(***************************************************************************)
(* The checking of passwords for FreeRADIUS (aaa/service.py: authenticate, *)
(* auth/identity.py, auth/ldap.py) while the accounts change: by the admin *)
(* API, by CSV imports (api/routes/transfer.py) and by first sign-ins of   *)
(* directory users.                                                        *)
(*                                                                         *)
(* A request ends its transaction before bcrypt or LDAP: what it has read  *)
(* may be old when it goes on.  A row of users is [source, enabled, group, *)
(* pw], where pw is the password the stored hash is of.                    *)
(***************************************************************************)
EXTENDS GuessGuard

CONSTANTS
    Passwords,        \* passwords; None is the empty one
    GroupIds,         \* ids of table groups, 1..n
    GroupNames,
    LdapEnabled,      \* ldap.enabled
    GroupMap,         \* ldap.group_map: a sequence of [ldap_group, group]
    Entries,          \* what the directory may say of a user: [pw, groups]
    Requests,         \* concurrent requests
    Files,            \* CSV files: sequences of [name, pw, group, enabled]; a group is a name
    VerifiedSeconds,  \* _VERIFIED_SECONDS
    MaxVerified       \* _MAX_VERIFIED

ASSUME GroupIdsAreRowIds == GroupIds = 1..Cardinality(GroupIds)
ASSUME RememberedAssumption == VerifiedSeconds \in Nat /\ MaxVerified \in Nat \ {0}

\* Values the variables take.
UserRows == [source : {"LOCAL", "LDAP"}, enabled : BOOLEAN, group : GroupIds \cup {None}, pw : Passwords \cup {None}]
FileRows == [name : Names, pw : Passwords \cup {None}, group : GroupNames \cup {None}, enabled : BOOLEAN]

ASSUME NoneAssumption ==
    None \notin Passwords /\ None \notin GroupNames /\ None \notin GroupIds /\ None \notin Nat /\ None \notin UserRows
ASSUME InputsAreWellFormed == Files \subseteq Seq(FileRows)

VARIABLES
    users,      \* table users: a row or None
    groups,     \* table groups: a name or None
    directory,  \* LDAP: the one entry found for a name, or None
    reachable,  \* LDAP: the directory answers
    verified,   \* service._verified
    requests,   \* requests being served
    upload,     \* the import being served
    failed,     \* history: when a source failed last for a name, within the window
    accepted    \* history: when it was accepted last, within _VERIFIED_SECONDS

tableVars == <<users, groups>>
ldapVars == <<directory, reachable>>
historyVars == <<failed, accepted>>
credVars == <<guardVars, users, groups, directory, reachable, verified, requests, upload, historyVars>>

\* A request with what it has read: the stored hash (None: the dummy is used),
\* the directory groups, and whether the account _provision() holds is enabled.
Idle == [st |-> "idle", name |-> None, source |-> None, pw |-> None, hash |-> None, entry |-> {}, enabled |-> FALSE]
NoUpload == [st |-> "idle", rows |-> {}]

CredentialsTypeOK ==
    /\ clock \in 0..MaxClock
    /\ IsOrderedDict(pair, MaxKeys) /\ IsOrderedDict(identity, MaxKeys) /\ IsOrderedDict(sources, MaxKeys)
    /\ IsOrderedDict(verified, MaxVerified)
    /\ Keys(pair) \subseteq Pairs /\ Keys(identity) \subseteq Names /\ Keys(sources) \subseteq Names
    /\ \A n \in Names : users[n] # None =>
          /\ users[n].group # None => groups[users[n].group] # None
          /\ users[n].source = "LDAP" <=> users[n].pw = None
    /\ \A g, h \in GroupIds : groups[g] # None /\ groups[g] = groups[h] => g = h
    /\ \A r \in Requests : requests[r].st \in {"idle", "hash", "find", "bind", "provision", "load", "reload"}
    /\ upload.st \in {"idle", "hash"}

\* The process has started.
ServiceInit ==
    /\ GuardInit
    /\ directory = [n \in Names |-> None] /\ reachable = TRUE
    /\ verified = <<>>
    /\ requests = [r \in Requests |-> Idle]
    /\ upload = NoUpload
    /\ failed = [k \in Pairs |-> None] /\ accepted = [k \in Pairs |-> None]

CredentialsInit ==
    /\ ServiceInit
    /\ users = [n \in Names |-> None]
    /\ groups = [g \in GroupIds |-> None]

---------------------------------------------------------------------------
(* authenticate() and authenticate_user()                                  *)

\* Mutant of remember_verified: a key that is there already keeps its place.
remember_verified_in_place(k) ==
    LET item == [key |-> k, at |-> clock]
        od == IF k \in Keys(verified)
              THEN [i \in DOMAIN verified |-> IF verified[i].key = k THEN item ELSE verified[i]]
              ELSE Append(verified, item)
    IN  verified' = IF Len(od) > MaxVerified THEN Tail(od) ELSE od

\* _remember_verified()
remember_verified(k) ==
    LET od == Last(verified, [key |-> k, at |-> clock])
    IN  verified' = IF Len(od) > MaxVerified THEN Tail(od) ELSE od

recently_verified(k) == k \in Keys(verified) /\ clock - Item(verified, k).at <= VerifiedSeconds

\* The request is answered: with a failure recorded, or a success and the memory of it.
Answer(r) == requests' = [requests EXCEPT ![r] = Idle]
PairOf(r) == <<requests[r].name, requests[r].source>>
Reject(r) ==
    /\ guess_failure(requests[r].name, requests[r].source)
    /\ Answer(r)
    /\ failed' = [failed EXCEPT ![PairOf(r)] = clock]
    /\ UNCHANGED <<verified, accepted>>
Accept(r) ==
    /\ guess_success(requests[r].name, requests[r].source)
    /\ remember_verified(PairOf(r))
    /\ Answer(r)
    /\ accepted' = [accepted EXCEPT ![PairOf(r)] = clock]
    /\ UNCHANGED failed

\* A request arrives; a name that must wait is refused at once.  Otherwise the
\* account is read and the transaction ends; an empty password, a disabled
\* account or an unknown one without a directory still costs one bcrypt.
authenticate(r, n, s, pw) ==
    /\ requests[r].st = "idle"
    /\ guess_check(n, s)
    /\ LET info == users[n]
           refused == pw = None \/ (info # None /\ ~info.enabled)
           local == info # None /\ info.source = "LOCAL"
       IN  IF GuessDelay(n, s) > 0 THEN Answer(r)
           ELSE requests' = [requests EXCEPT ![r] =
                   [Idle EXCEPT !.st = IF refused \/ local \/ ~LdapEnabled THEN "hash" ELSE "find",
                                !.hash = IF ~refused /\ local THEN info.pw ELSE None,
                                !.name = n, !.source = s, !.pw = pw]]
    /\ UNCHANGED <<tableVars, ldapVars, verified, upload, historyVars>>

\* verify_password() ends; the hash is the one read before.
password_checked(r) ==
    /\ requests[r].st = "hash"
    /\ IF requests[r].hash # None /\ requests[r].hash = requests[r].pw THEN Accept(r) ELSE Reject(r)
    /\ UNCHANGED <<tableVars, ldapVars, upload>>

\* LdapDirectory.authenticate(), in a thread: the service account looks up the
\* one entry and its groups ...
ldap_find(r) ==
    LET entry == directory[requests[r].name]
    IN  /\ requests[r].st = "find"
        /\ IF reachable /\ entry # None
           THEN /\ requests' = [requests EXCEPT ![r].st = "bind", ![r].entry = entry.groups]
                /\ UNCHANGED <<guardVars, verified, historyVars>>
           ELSE Reject(r)
        /\ UNCHANGED <<tableVars, ldapVars, upload>>

\* ... and the user binds with the password.
ldap_bind(r) ==
    LET entry == directory[requests[r].name]
    IN  /\ requests[r].st = "bind"
        /\ IF reachable /\ entry # None /\ entry.pw = requests[r].pw
           THEN requests' = [requests EXCEPT ![r].st = "provision"] /\ UNCHANGED <<guardVars, verified, historyVars>>
           ELSE Reject(r)
        /\ UNCHANGED <<tableVars, ldapVars, upload>>

\* map_group(): the first mapping the user belongs to.
map_group(dns) ==
    LET hits == {i \in DOMAIN GroupMap : GroupMap[i].ldap_group \in dns}
    IN  IF hits = {} THEN None ELSE GroupMap[CHOOSE i \in hits : \A j \in hits : i <= j].group

GroupId(name) ==
    IF \E g \in GroupIds : groups[g] = name /\ name # None THEN CHOOSE g \in GroupIds : groups[g] = name ELSE None

\* The group of a directory user; without a map it stays as it is.
Mapped(r, group) == IF GroupMap = <<>> THEN group ELSE GroupId(map_group(requests[r].entry))

\* The account as the directory has it.
Provisioned(r) ==
    LET n == requests[r].name
    IN  IF users[n] = None THEN [source |-> "LDAP", enabled |-> TRUE, group |-> Mapped(r, None), pw |-> None]
        ELSE [users[n] EXCEPT !.group = Mapped(r, users[n].group)]

\* The account is stored and committed; its object stays in the session.
StoreProvisioned(r) ==
    /\ users' = [users EXCEPT ![requests[r].name] = Provisioned(r)]
    /\ requests' = [requests EXCEPT ![r].st = "load", ![r].enabled = Provisioned(r).enabled]
    /\ UNCHANGED <<guardVars, verified, historyVars>>

\* Mutant of provision: a local account of the name is brought up to date too.
provision_any(r) ==
    /\ requests[r].st = "provision"
    /\ StoreProvisioned(r)
    /\ UNCHANGED <<groups, ldapVars, upload>>

\* _provision(), its first transaction: the account is created or its group
\* refreshed, unless a local account has appeared meanwhile.
provision(r) ==
    LET n == requests[r].name
    IN  /\ requests[r].st = "provision"
        /\ IF users[n] # None /\ users[n].source # "LDAP" THEN Reject(r) /\ UNCHANGED users
           ELSE StoreProvisioned(r)
        /\ UNCHANGED <<groups, ldapVars, upload>>

\* _provision(), its second transaction, load_user(): a row of the name must be
\* there.  The session does not expire what it holds: the row it has stored itself
\* is found enabled as it was then.  A row created since ("reload") is another
\* object, unless SQLite has given it the same id.
load_provisioned(r) ==
    LET row == users[requests[r].name]
        held == requests[r].enabled
    IN  /\ requests[r].st \in {"load", "reload"}
        /\ \E enabled \in CASE row = None -> {FALSE}
                              [] row # None /\ requests[r].st = "load" -> {held}
                              [] OTHER -> {held, row.enabled} :
              IF enabled THEN Accept(r) ELSE Reject(r)
        /\ UNCHANGED <<tableVars, ldapVars, upload>>

Serve(r) == password_checked(r) \/ ldap_find(r) \/ ldap_bind(r) \/ provision(r) \/ load_provisioned(r)

---------------------------------------------------------------------------
(* The accounts and the directory change.  A request that is refused, such *)
(* as one for a device-admin group by no superuser, changes nothing.       *)

Local(row) == [source |-> "LOCAL", enabled |-> row.enabled, group |-> row.group, pw |-> row.pw]
signVars == <<guardVars, verified, requests, historyVars>>

\* POST /users
create_user(n, enabled, group, pw) ==
    /\ users[n] = None
    /\ group # None => groups[group] # None
    /\ users' = [users EXCEPT ![n] = Local([enabled |-> enabled, group |-> group, pw |-> pw])]
    /\ UNCHANGED <<groups, ldapVars, signVars, upload>>

\* PATCH /users/{id}; only a local account is given a password.
update_user(n, enabled, group, pw) ==
    /\ users[n] # None
    /\ group # None => groups[group] # None
    /\ pw # None => users[n].source = "LOCAL"
    /\ users' = [users EXCEPT ![n].enabled = enabled, ![n].group = group, ![n].pw = IF pw # None THEN pw ELSE @]
    /\ UNCHANGED <<groups, ldapVars, signVars, upload>>

\* DELETE /users/{id}; a request that has stored the account will not find it.
delete_user(n) ==
    /\ users[n] # None
    /\ users' = [users EXCEPT ![n] = None]
    /\ requests' = [r \in Requests |->
                       IF requests[r].st = "load" /\ requests[r].name = n THEN [requests[r] EXCEPT !.st = "reload"]
                       ELSE requests[r]]
    /\ UNCHANGED <<groups, ldapVars, guardVars, verified, historyVars, upload>>

\* POST /groups: SQLite gives the row the id after the last one.
create_group(name) ==
    LET used == {g \in GroupIds : groups[g] # None}
        id == IF used = {} THEN 1 ELSE 1 + CHOOSE g \in used : \A h \in used : h <= g
    IN  /\ id \in GroupIds
        /\ \A g \in GroupIds : groups[g] # name
        /\ groups' = [groups EXCEPT ![id] = name]
        /\ UNCHANGED <<users, ldapVars, signVars, upload>>

\* PATCH /groups/{id}: another name, if no group has it.
update_group(g, name) ==
    /\ groups[g] # None
    /\ \A h \in GroupIds : groups[h] # name
    /\ groups' = [groups EXCEPT ![g] = name]
    /\ UNCHANGED <<users, ldapVars, signVars, upload>>

\* DELETE /groups/{id}: its members have no group.
delete_group(g) ==
    /\ groups[g] # None
    /\ groups' = [groups EXCEPT ![g] = None]
    /\ users' = [n \in Names |-> IF users[n] # None /\ users[n].group = g THEN [users[n] EXCEPT !.group = None]
                                 ELSE users[n]]
    /\ UNCHANGED <<ldapVars, signVars, upload>>

\* The directory's own administration, and its failures.
directory_changes(n, entry) ==
    /\ directory[n] # entry
    /\ directory' = [directory EXCEPT ![n] = entry]
    /\ UNCHANGED <<tableVars, reachable, signVars, upload>>
directory_fails == reachable' = ~reachable /\ UNCHANGED <<tableVars, directory, signVars, upload>>

---------------------------------------------------------------------------
(* import_users()                                                          *)

\* The rows build() accepts: the password is long enough, the group exists and the
\* principal may add users to it (`barred`: for all but a superuser, the
\* device-admin groups).
Valid(row, barred) ==
    row.pw # None /\ (row.group # None => GroupId(row.group) # None /\ GroupId(row.group) \notin barred)

\* _import(): the first row of each name that has no account yet, with the
\* group's id.
Imported(file, barred) ==
    {[name |-> file[i].name, row |-> Local([file[i] EXCEPT !.group = GroupId(file[i].group)])] :
        i \in {i \in DOMAIN file :
                  /\ Valid(file[i], barred) /\ users[file[i].name] = None
                  /\ \A j \in 1..(i - 1) : file[j].name = file[i].name => ~Valid(file[j], barred)}}

\* The file is read and compared with the tables; the transaction ends and the
\* passwords are hashed.
import_begin(file, barred) ==
    /\ upload.st = "idle"
    /\ upload' = [st |-> "hash", rows |-> Imported(file, barred)]
    /\ UNCHANGED <<tableVars, ldapVars, signVars>>

\* Mutant of Conflict: foreign keys are not enforced.
ConflictOfNames(rows) == \E u \in rows : users[u.name] # None

\* The constraints of table users: unique names, existing groups.
Conflict(rows) ==
    \E u \in rows : users[u.name] # None \/ (u.row.group # None /\ groups[u.row.group] = None)

Added(rows) ==
    [n \in Names |-> IF \E u \in rows : u.name = n THEN (CHOOSE u \in rows : u.name = n).row ELSE users[n]]

\* Mutant of import_commit: each row is committed by itself.
import_commit_each ==
    /\ upload.st = "hash"
    /\ upload' = NoUpload
    /\ users' = Added({u \in upload.rows : ~Conflict({u})})
    /\ UNCHANGED <<groups, ldapVars, signVars>>

\* All the rows are inserted in one transaction, or none: commit_or_conflict().
import_commit ==
    /\ upload.st = "hash"
    /\ upload' = NoUpload
    /\ users' = IF Conflict(upload.rows) THEN users ELSE Added(upload.rows)
    /\ UNCHANGED <<groups, ldapVars, signVars>>

---------------------------------------------------------------------------
Arrives == \E r \in Requests, n \in Names, s \in Sources, pw \in Passwords \cup {None} : authenticate(r, n, s, pw)

Edits ==
    \/ \E n \in Names :
          \/ \E e \in BOOLEAN, g \in GroupIds \cup {None} :
                \/ \E pw \in Passwords : create_user(n, e, g, pw)
                \/ \E pw \in Passwords \cup {None} : update_user(n, e, g, pw)
          \/ delete_user(n)
          \/ \E entry \in Entries \cup {None} : directory_changes(n, entry)
    \/ \E name \in GroupNames : create_group(name) \/ \E g \in GroupIds : update_group(g, name)
    \/ \E g \in GroupIds : delete_group(g)
    \/ directory_fails
    \/ \E file \in Files, barred \in SUBSET GroupIds : import_begin(file, barred)
    \/ import_commit

Aged(at, seconds) == [k \in Pairs |-> IF at[k] # None /\ clock' - at[k] <= seconds THEN at[k] ELSE None]

Passes ==
    /\ tick
    /\ failed' = Aged(failed, Window) /\ accepted' = Aged(accepted, VerifiedSeconds)
    /\ UNCHANGED <<tableVars, ldapVars, verified, requests, upload>>

CredentialsNext == Arrives \/ (\E r \in Requests : Serve(r)) \/ Edits \/ Passes

CredentialsSpec == CredentialsInit /\ [][CredentialsNext]_credVars

---------------------------------------------------------------------------
(* Properties.                                                             *)

\* "One source only slows itself down": a station with no failed sign-in within
\* the window waits only if `spread` other stations had one within it, whatever
\* has been forgotten to make room. Every refusal is a failure to the guard: a
\* wrong password, a disabled account, a directory that did not answer.
OwnerNotSlowed ==
    \A n \in Names, s \in Sources :
        GuessDelay(n, s) > 0 =>
            \/ failed[<<n, s>>] # None
            \/ Cardinality({t \in Sources : failed[<<n, t>>] # None}) >= Spread

\* authorize() finds a password verified exactly if NACo accepted it from that
\* station within the last _VERIFIED_SECONDS; only _MAX_VERIFIED other stations
\* accepted since can make it forget.
VerifiedRemembered ==
    \A k \in Pairs :
        /\ recently_verified(k) => accepted[k] # None
        /\ accepted[k] # None /\ ~recently_verified(k) =>
              Cardinality({j \in Pairs \ {k} : accepted[j] # None /\ accepted[j] >= accepted[k]}) >= MaxVerified

\* "never let LDAP take it over": a directory's answer neither changes a local
\* account that has appeared meanwhile nor lets anyone in by its name; and who is
\* let in on the account that was stored is let in on a directory's, although
\* accounts are edited between the two transactions.  The account may however be
\* deleted and another created between them, and that one may be a local one:
\* load_user() does not ask.
NoTakeover ==
    [][\A r \in Requests :
          LET n == requests[r].name
          IN  /\ requests[r].st = "provision" /\ requests'[r] # requests[r] /\ users[n] # None /\ users[n].source = "LOCAL" =>
                    users'[n] = users[n] /\ requests'[r] = Idle /\ ~Accept(r)
              /\ requests[r].st = "load" /\ Accept(r) => users[n] # None /\ users[n].source = "LDAP"]_credVars

\* An import creates accounts and leaves the others as they are; it creates all
\* the rows it reports or none, whatever happened while it hashed.
ImportsOnlyAdd ==
    [][upload.st = "hash" /\ upload'.st = "idle" =>
          /\ \A n \in Names : users[n] # None => users'[n] = users[n]
          /\ users' = users \/ \A u \in upload.rows : users'[u.name] = u.row]_credVars
============================================================================
