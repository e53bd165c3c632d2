---------------------------- MODULE Enforcement ----------------------------
(***************************************************************************)
(* How a change reaches the sessions that are already up: the AAA service, *)
(* the re-evaluation task and the CoA disconnects it sends, composed with  *)
(* NASes that open and close sessions and report them by accounting.       *)
(*                                                                         *)
(* The control of the task is Reevaluator's; here its reads are the real   *)
(* tables and its sends reach a NAS.  Records may be lost, repeated,       *)
(* delayed and reordered; a CoA answer may be lost after the NAS acted.    *)
(***************************************************************************)
EXTENDS AAA, Reevaluator

CONSTANT Closed  \* a session that has ended

\* The records a NAS may send of a session it opened are among Records.
ASSUME RecordsOfSessions ==
    \A req \in Requests : \A sid \in Sids : \A status \in {"update", "stop"} :
        [status |-> status, ip |-> req.ip, sid |-> sid, mac |-> req.mac, user |-> req.name,
         ssid |-> req.ssid] \in Records

VARIABLES
    rows,      \* the sessions the run in progress read in its first transaction
    table,     \* the policies it read there
    verdict,   \* its decision on each of them, once the world is read
    todo,      \* sessions whose disconnect is still to be sent
    asked,     \* likewise, on behalf of an operator
    judged,    \* history: the last completed run's verdict on the row as it is
    live,      \* NAS: sessions that are up, with what the NAS was told
    acct       \* NAS: accounting records on their way

runVars == <<rows, table, verdict, todo, judged, asked>>
nasVars == <<live, acct>>
vars == <<aaaVars, loopVars, runVars, nasVars>>

Verdicts == {"none", "keep", "cut"}
NoRows == [k \in Keys |-> None]
NoVerdict == [k \in Keys |-> "none"]

EnforcementTypeOK ==
    /\ AAATypeOK
    /\ LoopTypeOK
    /\ DOMAIN rows = Keys /\ DOMAIN live = Keys
    /\ verdict \in [Keys -> Verdicts] /\ judged \in [Keys -> Verdicts]
    /\ todo \subseteq {k \in Keys : verdict[k] = "cut"}
    /\ acct \subseteq Records /\ asked \subseteq Keys

Init ==
    /\ AAAInit /\ LoopInit
    /\ rows = NoRows /\ table = {} /\ verdict = NoVerdict /\ todo = {} /\ asked = {} /\ judged = NoVerdict
    /\ live = NoRows /\ acct = {}

---------------------------------------------------------------------------
(* The sessions a run is about.                                            *)

\* The row is one reevaluate() decides on: it has a decision and a known NAS.
Checked(k, row) == row # None /\ row.digest # None /\ FindNas(k[1]) # None

Stale(k, row, tab) == changed(Redecide(k, row, tab, users, devices, guests), row.digest)

\* A verdict is about the row as it was read.
Forget(new) == judged' = [k \in Keys |-> IF new[k] = sessions[k] THEN judged[k] ELSE "none"]

\* A write that no route schedules a run for leaves a verdict on the sessions ks
\* out of date, also the verdict of a run that has yet to finish.
Outdate(ks) ==
    /\ judged' = [k \in Keys |-> IF k \in ks THEN "none" ELSE judged[k]]
    /\ verdict' = [k \in Keys |-> IF k \in ks /\ verdict[k] = "keep" THEN "none" ELSE verdict[k]]

\* The sessions of a station, of users, and of a user whose password was not
\* asked, as they are and as the run in progress read them.
Rows(k) == {sessions[k], rows[k]} \ {None}
OfStation(mac) == {k \in Keys : \E row \in Rows(k) : row.mac = mac}
OfUsers(us) == {k \in Keys : \E row \in Rows(k) : row.username \in us}
MabOf(u) == {k \in Keys : \E row \in Rows(k) : row.method = "MAB" /\ row.username = u}

---------------------------------------------------------------------------
(* reevaluate()                                                            *)

Decided == {k \in Keys : sessions[k] # None /\ sessions[k].digest # None}

\* Mutant of run_read_policies: the PolicyLoadError is not handled.
run_read_policies_unchecked ==
    /\ Decided # {}
    /\ ReadPolicies
    /\ rows' = [k \in Keys |-> IF k \in Decided THEN sessions[k] ELSE None]
    /\ table' = policies
    /\ UNCHANGED <<aaaVars, nasVars, verdict, todo, judged, asked>>

run_read_policies ==
    /\ Loads(policies) /\ Decided # {}
    /\ ReadPolicies
    /\ rows' = [k \in Keys |-> IF k \in Decided THEN sessions[k] ELSE None]
    /\ table' = policies
    /\ UNCHANGED <<aaaVars, nasVars, verdict, todo, judged, asked>>

run_skip ==
    /\ ~Loads(policies)
    /\ SkipRun
    /\ UNCHANGED <<aaaVars, nasVars, runVars>>

run_no_sessions ==
    /\ Loads(policies) /\ Decided = {}
    /\ NoSessions
    /\ UNCHANGED <<aaaVars, nasVars, runVars>>

\* Mutant of run_read_world: a row is compared with the policies in force now
\* only if its user is known, so that sessions of deleted users are left alone.
run_read_world_known_users ==
    /\ ReadWorld
    /\ verdict' = [k \in Keys |->
          CASE ~Checked(k, rows[k]) -> "none"
            [] Checked(k, rows[k]) /\ Stale(k, rows[k], table)
               /\ (rows[k].username \in Users => users[rows[k].username] # None) -> "cut"
            [] OTHER -> "keep"]
    /\ todo' = {k \in Keys : verdict'[k] = "cut"}
    /\ UNCHANGED <<aaaVars, nasVars, rows, table, judged, asked>>

\* _load_world() and the loop over the sessions.
run_read_world ==
    /\ ReadWorld
    /\ verdict' = [k \in Keys |->
          CASE ~Checked(k, rows[k]) -> "none"
            [] Checked(k, rows[k]) /\ Stale(k, rows[k], table) -> "cut"
            [] OTHER -> "keep"]
    /\ todo' = {k \in Keys : verdict'[k] = "cut"}
    /\ UNCHANGED <<aaaVars, nasVars, rows, table, judged, asked>>

\* Mutant of EndRun: disconnects a failed run had not sent are left for the next.
EndRunKeepingTodo == rows' = NoRows /\ table' = {} /\ verdict' = NoVerdict /\ UNCHANGED todo

\* The local variables of reevaluate() are gone.
EndRun == rows' = NoRows /\ table' = {} /\ verdict' = NoVerdict /\ todo' = {}

run_finish ==
    /\ todo = {}
    /\ FinishRun
    /\ judged' = [k \in Keys |-> IF sessions[k] = rows[k] THEN verdict[k] ELSE "none"]
    /\ EndRun
    /\ UNCHANGED <<aaaVars, nasVars, asked>>

run_fails ==
    /\ RunFails
    /\ EndRun
    /\ UNCHANGED <<aaaVars, nasVars, judged, asked>>

---------------------------------------------------------------------------
(* NASes, the world the code runs in.  A session identifier is used once:  *)
(* a session that has ended stays Closed.                                  *)

Up(k) == live[k] \notin {None, Closed}

Record(status, k) ==
    [status |-> status, ip |-> k[1], sid |-> k[2], mac |-> live[k].mac, user |-> live[k].name,
     ssid |-> live[k].ssid]

\* A Disconnect-Request for k: it is lost, or it ends the session if it is up
\* (and the answer is an ACK, or is lost), or it finds none (NAK).
Disconnect(k) ==
    \/ UNCHANGED nasVars
    \/ /\ Up(k)
       /\ live' = [live EXCEPT ![k] = Closed]
       /\ acct' = acct \cup {Record("stop", k)}

\* send_disconnect() for one target; whatever the outcome, it is not tried again.
run_send(k) ==
    /\ loop = "send" /\ k \in todo
    /\ todo' = todo \ {k}
    /\ Disconnect(k)
    /\ UNCHANGED <<aaaVars, loopVars, rows, table, verdict, judged, asked>>

\* POST /sessions/{id}/disconnect and /sessions/disconnect: the sessions and
\* their NAS are read, then the disconnects are sent.
operator_asks(k) ==
    /\ sessions[k] # None /\ FindNas(k[1]) # None
    /\ k \notin asked
    /\ asked' = asked \cup {k}
    /\ UNCHANGED <<aaaVars, loopVars, nasVars, rows, table, verdict, todo, judged>>

operator_disconnect(k) ==
    /\ k \in asked
    /\ asked' = asked \ {k}
    /\ Disconnect(k)
    /\ UNCHANGED <<aaaVars, loopVars, rows, table, verdict, todo, judged>>

\* A station asks to join or is asked to authenticate again: authorize() answers,
\* and the NAS follows the answer unless it is lost.
access(k, req) ==
    /\ k[1] = req.ip /\ live[k] # Closed
    /\ Up(k) => live[k].mac = req.mac
    /\ authorize(req)
    /\ Outdate(IF devices' # devices THEN OfStation(req.mac) ELSE {})
    /\ \/ UNCHANGED nasVars
       \/ /\ accepted(Decision(req))
          /\ live' = [live EXCEPT ![k] = [mac |-> req.mac, name |-> req.name, ssid |-> req.ssid,
                                          method |-> req.method, digest |-> digest(Decision(req))]]
          /\ acct' = acct \cup {[status |-> "update", ip |-> k[1], sid |-> k[2], mac |-> req.mac, user |-> req.name,
                                 ssid |-> req.ssid]}
       \/ /\ ~accepted(Decision(req)) /\ Up(k)
          /\ live' = [live EXCEPT ![k] = Closed]
          /\ acct' = acct \cup {Record("stop", k)}
    /\ UNCHANGED <<loopVars, rows, table, todo, asked>>

\* An interim update is due.
interim(k) ==
    /\ Up(k)
    /\ acct' = acct \cup {Record("update", k)}
    /\ UNCHANGED <<aaaVars, loopVars, runVars, live>>

\* The station leaves.
leave(k) ==
    /\ Up(k)
    /\ live' = [live EXCEPT ![k] = Closed]
    /\ acct' = acct \cup {Record("stop", k)}
    /\ UNCHANGED <<aaaVars, loopVars, runVars>>

\* A record arrives, and may arrive again later.
deliver(rec) ==
    /\ rec \in acct
    /\ accounting(rec)
    /\ acct' \in {acct, acct \ {rec}}
    /\ Forget(sessions')
    /\ UNCHANGED <<loopVars, rows, table, verdict, todo, live, asked>>

\* A record is lost for good.
lose(rec) ==
    /\ rec \in acct
    /\ acct' = acct \ {rec}
    /\ UNCHANGED <<aaaVars, loopVars, runVars, live>>

---------------------------------------------------------------------------
(* Changes.                                                                *)

\* The next change of a part of the database (how many there are is the bound).
Fresh(part) == {c \in part \ committed : \A d \in part \ committed : c <= d}

\* The changes of users, groups, devices and guests that schedule a run; an expiry
\* is scheduled by the maintenance pass that finds it.
change_world ==
    /\ \E c \in Fresh(WorldChange) : Commit({c})
    /\ \/ \E u \in Users : delete_user(u) \/ \E row \in UserRows : update_user(u, row)
       \/ \E g \in Groups : delete_group(g)
       \/ \E m \in Macs : \/ delete_device(m) \/ add_guest(m) \/ portal_register(m) \/ end_guest(m)
                          \/ \E status \in DeviceStatus : save_device(m, status)
    /\ UNCHANGED <<runVars, nasVars>>

\* A user is created without a re-evaluation.
add_user ==
    /\ \E u \in Users, row \in UserRows : create_user(u, row) /\ Outdate(MabOf(u))
    /\ UNCHANGED <<loopVars, nasVars, rows, table, todo, asked>>

\* Nor do an LDAP sign-in that changes the user's group and a group's new name.
change_groups ==
    /\ \/ \E u \in Users, row \in UserRows : refresh_group(u, row)
       \/ \E g, h \in Groups : rename_group(g, h)
    /\ Outdate(OfUsers({u \in Users : users'[u] # users[u]}))
    /\ UNCHANGED <<loopVars, nasVars, rows, table, todo, asked>>

change_policies ==
    /\ \E c \in Fresh(PolicyChange) : Commit({c})
    /\ \E tab \in Tables : save_policies(tab)
    /\ UNCHANGED <<runVars, nasVars>>

\* RADIUS clients change without a re-evaluation, and take every verdict along.
change_nas ==
    /\ \E c \in Clients : \E row \in NasRows[c] \cup {None} : save_nas(c, row)
    /\ Outdate(Keys)
    /\ UNCHANGED <<loopVars, nasVars, rows, table, todo, asked>>

schedule(c) == c \in handlers /\ Schedule({c}) /\ UNCHANGED <<aaaVars, runVars, nasVars>>
run_woken == Woken /\ UNCHANGED <<aaaVars, runVars, nasVars>>
run_take == Take /\ UNCHANGED <<aaaVars, runVars, nasVars>>

prune(k) ==
    /\ PruneStale(k)
    /\ Forget(sessions')
    /\ UNCHANGED <<loopVars, nasVars, rows, table, verdict, todo, asked>>

log_ages == LogAges /\ UNCHANGED <<loopVars, runVars, nasVars>>

restart ==
    /\ Restart
    /\ EndRun
    /\ verified' = {} /\ asked' = {}
    /\ UNCHANGED <<configVars, auth_logs, sessions, judged, nasVars>>

Next ==
    \/ change_world \/ change_policies \/ change_nas \/ add_user \/ change_groups
    \/ \E c \in Change : schedule(c)
    \/ run_woken \/ run_take \/ run_read_policies \/ run_skip \/ run_no_sessions
    \/ run_read_world \/ run_finish \/ run_fails
    \/ \E k \in Keys :
          \/ run_send(k) \/ operator_asks(k) \/ operator_disconnect(k) \/ interim(k) \/ leave(k) \/ prune(k)
          \/ \E req \in Requests : access(k, req)
    \/ \E rec \in Records : deliver(rec) \/ lose(rec)
    \/ log_ages
    \/ restart

Spec == Init /\ [][Next]_vars

---------------------------------------------------------------------------
(* Properties.                                                             *)

\* Nothing is in progress and no notice was dropped.
AtRest == loop = "wait" /\ ~wake /\ handlers = {} /\ lost = {}

\* Changes take effect: when the re-evaluation task is at rest, every session
\* the last run left up, and whose row nobody has written since, still gets the
\* decision it has from the policies, users, devices and guests of now, however
\* changes, reads, sends and accounting records interleaved.  The changes are the
\* ones a route schedules a run for: a new user, a station's first recording, a
\* RADIUS client, an LDAP group refresh and a group's new name take the verdicts
\* they are about along.
KeptSessionsConform ==
    AtRest => \A k \in Keys : judged[k] = "keep" =>
                 ~changed(Redecide(k, sessions[k], policies, users, devices, guests), sessions[k].digest)


\* A run disconnects nobody on behalf of a policy set that does not load: what
\* it holds of the policies always loads, also if the table breaks meanwhile.
NeverCutsOnBrokenPolicies == todo # {} => Loads(table)
============================================================================
