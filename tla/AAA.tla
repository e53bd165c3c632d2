-------------------------------- MODULE AAA --------------------------------
(***************************************************************************)
(* The answers to FreeRADIUS (naco/aaa/service.py: authorize, accounting)  *)
(* and the tables they read and write, with the operations of the admin    *)
(* API, the guest portal and time that change those tables.                *)
(*                                                                         *)
(* Every action is one database transaction: SQLite runs them one after    *)
(* the other (BEGIN IMMEDIATE).  An accounting record or a request is      *)
(* reduced to the fields a decision or a later lookup depends on.          *)
(***************************************************************************)
EXTENDS Policy, Sequences

CONSTANTS
    Users,       \* usernames, canonical
    Macs,        \* station addresses
    Clients,     \* names of RADIUS clients
    Ips,         \* source addresses of RADIUS packets
    Sids,        \* values of Acct-Session-Id
    Ssids,       \* names of wireless networks
    UserRows,    \* [enabled, group] rows a user can be given
    Tables,      \* policy tables an administrator can save
    NasRows,     \* for each client, the [addresses, network, enabled] rows it can be given
    Requests,    \* access requests, as FreeRADIUS relays them
    Records,     \* accounting records, likewise
    MaxGuests    \* bound on the registrations of one MAC that are active at a time

\* The `name` of a request is its User-Name for MAB and the identity that the
\* method established otherwise; the `user` of a record is its User-Name.
ASSUME InputsAreWellFormed ==
    /\ Requests \subseteq [method : Methods \cup {None}, ip : Ips, mac : Macs \cup {None},
                           name : Users \cup Macs \cup {None}, ssid : Ssids \cup {None}]
    /\ Records \subseteq [status : {"update", "stop", "on"}, ip : Ips, sid : Sids,
                          mac : Macs \cup {None}, user : Users \cup Macs \cup {None}, ssid : Ssids \cup {None}]

\* What can be in the log: an accept of a request.
Digests == {<<"PERMIT", p.reply>> : p \in UNION Tables}
LogRows ==
    [ip : Ips, client : Clients, mac : Macs \cup {None}, username : Users \cup {None}, method : Methods,
     ssid : Ssids \cup {None}, digest : Digests]

ASSUME NoneAssumption ==
    None \notin Users \cup Macs /\ None \notin Methods /\ None \notin Digests /\ None \notin LogRows
ASSUME PoliciesAreOrdered ==
    \A ps \in Tables : \A p, q \in ps : p.priority \in Nat /\ p.id \in Nat /\ (p.id = q.id => p = q)
ASSUME GuestsAreBounded == MaxGuests \in Nat
ASSUME NetworksAreFinite == \A c \in Clients : \A row \in NasRows[c] : Cardinality(row.addresses) \in Nat

VARIABLES
    users,      \* table users: a row or None
    devices,    \* table devices: a status or None
    guests,     \* registrations of a MAC that are neither revoked nor expired
    policies,   \* table policies
    nas,        \* table nas_clients: a row or None
    auth_logs,  \* accepts of the last 24 hours, oldest first
    sessions,   \* table radius_sessions: a row or None
    verified    \* service._verified, the entries not older than its window

configVars == <<users, devices, guests, policies, nas>>
aaaVars == <<users, devices, guests, policies, nas, auth_logs, sessions, verified>>

Groups == {row.group : row \in UserRows}
Keys == Ips \X Sids
VerifiedKeys == Users \X Ips \X (Macs \cup {None})

\* A session row as its INSERT creates it.  `origin` is history: the accept the
\* row's context was copied from.
NewSession == [mac |-> None, ssid |-> None, username |-> None, method |-> None, digest |-> None, origin |-> None]

AAATypeOK ==
    /\ users \in [Users -> UserRows \cup {None}]
    /\ devices \in [Macs -> DeviceStatus \cup {None}]
    /\ guests \in [Macs -> 0..MaxGuests]
    /\ policies \in Tables
    /\ \A c \in Clients : nas[c] \in NasRows[c] \cup {None}
    /\ auth_logs \in Seq(LogRows)
    /\ DOMAIN sessions = Keys
    /\ \A k \in Keys : sessions[k] # None =>
          /\ sessions[k].mac \in Macs \cup {None} /\ sessions[k].ssid \in Ssids \cup {None}
          /\ sessions[k].username \in Users \cup Macs \cup {None}
          /\ sessions[k].digest = None <=> sessions[k].method = None
    /\ verified \subseteq VerifiedKeys

---------------------------------------------------------------------------
(* RADIUS clients.                                                         *)

\* The client a source address belongs to: the entry of that very address,
\* else the narrowest network that contains it.
FindNas(ip) ==
    LET cover == {c \in Clients : nas[c] # None /\ ip \in nas[c].addresses}
        exact == {c \in cover : ~nas[c].network}
    IN  CASE exact # {} -> CHOOSE c \in exact : TRUE
          [] exact = {} /\ cover # {} ->
                CHOOSE c \in cover : \A d \in cover :
                    Cardinality(nas[c].addresses) <= Cardinality(nas[d].addresses)
          [] OTHER -> None

---------------------------------------------------------------------------
(* authorize                                                               *)

Identity(req) == IF req.method \in {"MAB", None} \/ req.name \notin Users THEN None ELSE req.name

\* The early returns of _decide(), before anything is looked up or written.
Refused(req) ==
    \/ req.method = None
    \/ FindNas(req.ip) = None
    \/ FindNas(req.ip) # None /\ ~nas[FindNas(req.ip)].enabled
    \/ req.method = "MAB" /\ (req.mac = None \/ req.name # req.mac)

\* _see_device(): a station never seen before is recorded as pending.
see_device(req) ==
    IF ~Refused(req) /\ req.mac # None /\ devices[req.mac] = None
    THEN [devices EXCEPT ![req.mac] = "PENDING"]
    ELSE devices

\* guest_active()
guest_active(mac) == mac # None /\ guests[mac] > 0

VerifiedKey(username, req) == <<username, req.ip, req.mac>>

\* _decide(), with the devices as _see_device() leaves them.
Decision(req) ==
    LET username == Identity(req)
        user == IF username = None THEN None ELSE users[username]
        device == IF req.mac = None THEN None ELSE see_device(req)[req.mac]
        ctx == AuthContext(req.method, username, user, req.mac, device, guest_active(req.mac), FindNas(req.ip), req.ssid)
    IN  IF \/ Refused(req)
           \/ HardRule(req.method, username, user, device)
           \/ req.method \in PASSWORD_METHODS /\ VerifiedKey(username, req) \notin verified
        THEN deny
        ELSE evaluate(policies, ctx)

\* The auth_logs row of an accept.
LogRow(req, decision) ==
    [ip |-> req.ip, client |-> FindNas(req.ip), mac |-> req.mac, username |-> Identity(req),
     method |-> req.method, ssid |-> req.ssid, digest |-> digest(decision)]

\* An accept no lookup can return any more, because row is later and answers
\* every lookup it answers.
Superseded(old, row) ==
    /\ old.ip = row.ip /\ old.client = row.client
    /\ old.mac = row.mac /\ old.username = row.username

\* The log with the row at its end, and without the one accept it may supersede.
Logged(row) ==
    LET old == {i \in DOMAIN auth_logs : Superseded(auth_logs[i], row)}
        at == CHOOSE i \in old : TRUE
    IN  IF old = {} THEN Append(auth_logs, row)
        ELSE Append(SubSeq(auth_logs, 1, at - 1) \o SubSeq(auth_logs, at + 1, Len(auth_logs)), row)

\* Mutant of authorize: rejections are found like accepts.
authorize_finding_all(req) ==
    /\ devices' = see_device(req)
    /\ auth_logs' = Logged(LogRow(req, Decision(req)))
    /\ UNCHANGED <<users, guests, policies, nas, sessions, verified>>

\* authorize(): one transaction.  Rejections are logged too, and read by no one.
authorize(req) ==
    /\ devices' = see_device(req)
    /\ auth_logs' = IF accepted(Decision(req)) THEN Logged(LogRow(req, Decision(req))) ELSE auth_logs
    /\ UNCHANGED <<users, guests, policies, nas, sessions, verified>>

\* Time passes: the oldest accept leaves the 24 hours _latest_accept() looks at.
LogAges ==
    /\ auth_logs # <<>>
    /\ auth_logs' = Tail(auth_logs)
    /\ UNCHANGED <<configVars, sessions, verified>>

\* authenticate() accepted the password and remembers that it did; the entry
\* reaches _VERIFIED_SECONDS, or makes room for others.
Verify(key) == key \notin verified /\ verified' = verified \cup {key} /\ UNCHANGED <<configVars, auth_logs, sessions>>
Unverify(key) == key \in verified /\ verified' = verified \ {key} /\ UNCHANGED <<configVars, auth_logs, sessions>>

---------------------------------------------------------------------------
(* accounting                                                              *)

\* Mutant of latest_accept: the query loses its condition on the NAS.
latest_accept_any_nas(log, ip, mac, username) ==
    LET hits == {i \in DOMAIN log : IF mac # None THEN log[i].mac = mac
                                    ELSE username # None /\ log[i].username = username}
    IN  IF hits = {} THEN None ELSE log[CHOOSE i \in hits : \A j \in hits : j <= i]

\* _latest_accept(): the last accept of the station, or of the user when the
\* station is unknown, at this address or any address of a network client.
latest_accept(log, ip, mac, username) ==
    LET client == FindNas(ip)
        SameNas(row) == row.ip = ip \/ (client # None /\ nas[client].network /\ row.client = client)
        hits == {i \in DOMAIN log : /\ SameNas(log[i])
                                    /\ IF mac # None THEN log[i].mac = mac
                                       ELSE username # None /\ log[i].username = username}
    IN  IF hits = {} THEN None ELSE log[CHOOSE i \in hits : \A j \in hits : j <= i]

\* The session a record is about.
Key(rec) == <<rec.ip, rec.sid>>

\* Its row before the record.
Stored(rec) == IF sessions[Key(rec)] = None THEN NewSession ELSE sessions[Key(rec)]

\* `a or b`
Or(a, b) == IF a # None THEN a ELSE b

\* Mutant of Updated: the method is copied to a new row only, the decision always.
UpdatedKeepingMethod(rec, log) ==
    LET old == Stored(rec)
        mac == Or(rec.mac, old.mac)
        ssid == Or(rec.ssid, old.ssid)
        context == latest_accept(log, rec.ip, mac, rec.user)
    IN  IF context # None
        THEN [mac |-> mac, ssid |-> Or(ssid, context.ssid), digest |-> context.digest, origin |-> context,
              method |-> IF sessions[Key(rec)] = None THEN context.method ELSE old.method,
              username |-> Or(context.username, old.username)]
        ELSE [old EXCEPT !.mac = mac, !.ssid = ssid, !.username = Or(@, rec.user)]

\* The row a start or an interim update leaves, new or updated, with the accepts
\* of the log.
Updated(rec, log) ==
    LET old == Stored(rec)
        mac == Or(rec.mac, old.mac)
        ssid == Or(rec.ssid, old.ssid)
        context == latest_accept(log, rec.ip, mac, rec.user)
    IN  IF context # None
        THEN [mac |-> mac, ssid |-> Or(ssid, context.ssid), method |-> context.method, digest |-> context.digest,
              origin |-> context, username |-> Or(context.username, old.username)]
        ELSE [mac |-> mac, ssid |-> ssid, method |-> old.method, digest |-> old.digest,
              origin |-> old.origin, username |-> Or(old.username, rec.user)]

\* accounting(): a start or interim update, a stop, and the NAS having restarted.
accounting(rec) ==
    /\ sessions' = CASE rec.status = "update" -> [sessions EXCEPT ![Key(rec)] = Updated(rec, auth_logs)]
                     [] rec.status = "stop" -> [sessions EXCEPT ![Key(rec)] = None]
                     [] rec.status = "on" -> [k \in Keys |-> IF k[1] = rec.ip THEN None ELSE sessions[k]]
    /\ UNCHANGED <<configVars, auth_logs, verified>>

\* maintenance_pass(): a session without a record for stale_session_hours is deleted.
PruneStale(k) ==
    /\ sessions[k] # None
    /\ sessions' = [sessions EXCEPT ![k] = None]
    /\ UNCHANGED <<configVars, auth_logs, verified>>

---------------------------------------------------------------------------
(* The decision reevaluate() takes again on a stored session.              *)

\* The subject of the session and the decision on it, on the given tables.
Redecide(k, row, tab, us, devs, gs) ==
    LET user == IF row.username \in Users THEN us[row.username] ELSE None
        device == IF row.mac = None THEN None ELSE devs[row.mac]
        is_guest == row.mac # None /\ gs[row.mac] > 0
        ctx == AuthContext(row.method, row.username, user, row.mac, device, is_guest, FindNas(k[1]), row.ssid)
    IN  IF HardRule(row.method, row.username, user, device) THEN deny ELSE decide(tab, ctx)

\* _changed()
changed(decision, old) == ~accepted(decision) \/ digest(decision) # old

---------------------------------------------------------------------------
(* What administrators, the portal and time change.                        *)

logVars == <<auth_logs, sessions, verified>>

\* POST /users, an import, or the first sign-in of an LDAP user.
create_user(u, row) ==
    /\ users[u] = None
    /\ users' = [users EXCEPT ![u] = row]
    /\ UNCHANGED <<devices, guests, policies, nas, logVars>>

\* PATCH /users/{id} that changes `enabled` or the group.
update_user(u, row) ==
    /\ users[u] # None /\ users[u] # row
    /\ users' = [users EXCEPT ![u] = row]
    /\ UNCHANGED <<devices, guests, policies, nas, logVars>>

\* DELETE /users/{id}
delete_user(u) ==
    /\ users[u] # None
    /\ users' = [users EXCEPT ![u] = None]
    /\ UNCHANGED <<devices, guests, policies, nas, logVars>>

\* An LDAP user signs in and is given the group the directory names now.
refresh_group(u, row) ==
    /\ users[u] # None /\ users[u] # row /\ users[u].enabled = row.enabled
    /\ users' = [users EXCEPT ![u] = row]
    /\ UNCHANGED <<devices, guests, policies, nas, logVars>>

\* _referencing_policies(): a row of the policy table, enabled or not, names the group.
Referenced(g) == \E p \in policies : \E c \in p.conditions : c.field = "group" /\ g \in c.values

\* The members of group g become members of h, or of none.  UserRows bounds what
\* the groups can be.
regroup(g, h) ==
    /\ g # None /\ ~Referenced(g)
    /\ users' = [u \in Users |-> IF users[u] # None /\ users[u].group = g THEN [users[u] EXCEPT !.group = h]
                                 ELSE users[u]]
    /\ users' # users /\ users' \in [Users -> UserRows \cup {None}]
    /\ UNCHANGED <<devices, guests, policies, nas, logVars>>

\* PATCH /groups/{id} with a name no other group has.
rename_group(g, h) == h # None /\ (\A u \in Users : users[u] # None => users[u].group # h) /\ regroup(g, h)

\* DELETE /groups/{id}
delete_group(g) == regroup(g, None)

\* POST /devices, an import, PATCH /devices/{id} or POST /devices/bulk with a
\* status the device does not have.
save_device(m, status) ==
    /\ devices[m] # status
    /\ devices' = [devices EXCEPT ![m] = status]
    /\ UNCHANGED <<users, guests, policies, nas, logVars>>

\* DELETE /devices/{id}
delete_device(m) ==
    /\ devices[m] # None
    /\ devices' = [devices EXCEPT ![m] = None]
    /\ UNCHANGED <<users, guests, policies, nas, logVars>>

\* POST /guests
add_guest(m) ==
    /\ guests[m] < MaxGuests
    /\ guests' = [guests EXCEPT ![m] = @ + 1]
    /\ UNCHANGED <<users, devices, policies, nas, logVars>>

\* POST /portal/register from a station identified by its session.
portal_register(m) ==
    /\ guests[m] < MaxGuests
    /\ \E k \in Keys : sessions[k] # None /\ sessions[k].mac = m
    /\ devices[m] # "BLOCKED"
    /\ guests' = [guests EXCEPT ![m] = @ + 1]
    /\ devices' = [devices EXCEPT ![m] = IF @ = None THEN "PENDING" ELSE @]
    /\ UNCHANGED <<users, policies, nas, logVars>>

\* DELETE /guests/{id}, or expires_at is reached.
end_guest(m) ==
    /\ guests[m] > 0
    /\ guests' = [guests EXCEPT ![m] = @ - 1]
    /\ UNCHANGED <<users, devices, policies, nas, logVars>>

\* POST, PATCH and DELETE of a policy, and reorder.
save_policies(table) ==
    /\ policies # table
    /\ policies' = table
    /\ UNCHANGED <<users, devices, guests, nas, logVars>>

\* POST, PATCH and DELETE of a RADIUS client.
save_nas(c, row) ==
    /\ nas[c] # row
    /\ nas' = [nas EXCEPT ![c] = row]
    /\ UNCHANGED <<users, devices, guests, policies, logVars>>

---------------------------------------------------------------------------
AAAInit ==
    /\ users = [u \in Users |-> None]
    /\ devices = [m \in Macs |-> None]
    /\ guests = [m \in Macs |-> 0]
    /\ policies \in Tables
    /\ nas \in {f \in [Clients -> UNION {NasRows[c] : c \in Clients}] : \A c \in Clients : f[c] \in NasRows[c]}
    /\ auth_logs = <<>>
    /\ sessions = [k \in Keys |-> None]
    /\ verified = {}

WorldChanges ==
    \/ \E u \in Users :
          delete_user(u) \/ \E row \in UserRows : create_user(u, row) \/ update_user(u, row) \/ refresh_group(u, row)
    \/ \E g \in Groups : delete_group(g) \/ \E h \in Groups : rename_group(g, h)
    \/ \E m \in Macs : \/ delete_device(m) \/ add_guest(m) \/ portal_register(m) \/ end_guest(m)
                       \/ \E status \in DeviceStatus : save_device(m, status)

AAANext ==
    \/ \E req \in Requests : authorize(req)
    \/ \E rec \in Records : accounting(rec)
    \/ \E k \in Keys : PruneStale(k)
    \/ LogAges
    \/ \E key \in VerifiedKeys : Verify(key) \/ Unverify(key)
    \/ WorldChanges
    \/ \E table \in Tables : save_policies(table)
    \/ \E c \in Clients : \E row \in NasRows[c] \cup {None} : save_nas(c, row)

AAASpec == AAAInit /\ [][AAANext]_aaaVars

---------------------------------------------------------------------------
(* Properties.                                                             *)

\* What a NAS promises of Acct-Session-Id (RFC 2866): the records of a session
\* that name a station name the same one.
OneStationPerSession ==
    \A r1, r2 \in Records : Key(r1) = Key(r2) /\ r1.mac # None /\ r2.mac # None => r1.mac = r2.mac

\* The context accounting() copies onto a session, which every re-evaluation and
\* every lookup relies on, comes from an accept of the same station or user, by
\* the same method, at the same NAS or another address of its network client,
\* whatever the order, loss and repetition of the records.
ContextFromOwnAccept ==
    \A k \in Keys : sessions[k] # None /\ sessions[k].digest # None =>
        LET g == sessions[k].origin
        IN  /\ \/ g.mac # None /\ g.mac = sessions[k].mac
               \/ g.username # None /\ g.username = sessions[k].username
            /\ g.method = sessions[k].method /\ g.digest = sessions[k].digest
            /\ g.username # None => g.username = sessions[k].username
            /\ g.ip = k[1] \/ (\E row \in NasRows[g.client] : row.network /\ k[1] \in row.addresses)

\* The record is of the session the request is for: it comes from the same NAS or
\* another address of its network client, its station is the one that asked and
\* its wireless network too; without a station the name is the one that asked.
SessionOf(rec, req, row) ==
    /\ rec.status = "update"
    /\ rec.ip = req.ip \/ (FindNas(rec.ip) = FindNas(req.ip) /\ nas[FindNas(req.ip)].network)
    /\ row.mac = req.mac /\ row.ssid = req.ssid
    /\ row.mac = None => rec.user = Identity(req)

\* Re-evaluation disconnects no session just accepted: were any request accepted
\* now, any record of its session would make of the row stored so far, new or old,
\* one on which reevaluate() decides what authorize() did.  The exception is a
\* station accepted by its address alone whose row still names a known user.
FreshAcceptStays ==
    Loads(policies) => \A req \in Requests : accepted(Decision(req)) =>
        LET log == Logged(LogRow(req, Decision(req)))
        IN  \A rec \in Records : LET row == Updated(rec, log) IN
                /\ SessionOf(rec, req, row)
                /\ req.method = "MAB" => row.username \notin Users \/ users[row.username] = None
                => ~changed(Redecide(Key(rec), row, policies, users, see_device(req), guests), row.digest)
============================================================================
