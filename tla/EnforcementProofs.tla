------------------------- MODULE EnforcementProofs -------------------------
(***************************************************************************)
(* Proofs about Enforcement: what a change means for the sessions that are *)
(* up, for every set of users, stations, clients, policies and changes.    *)
(***************************************************************************)
EXTENDS Enforcement, Simulator, ReevaluatorProofs, WellFoundedInduction

---------------------------------------------------------------------------
(* The re-evaluation task inside Enforcement is Reevaluator's.             *)

\* Every step of Enforcement is a step of the loop of Reevaluator, or leaves
\* the loop alone.
LEMMA StepsOfTheLoop == [Next]_vars => [LoopNext]_loopVars
  <1> SUFFICES ASSUME [Next]_vars PROVE [LoopNext]_loopVars
    BY Zenon
  <1>1. ASSUME NEW c \in Change, Commit({c}) PROVE LoopNext
    BY <1>1, Zenon DEF LoopNext
  <1>2. ASSUME NEW c \in Change, Schedule({c}) PROVE LoopNext
    BY <1>2, Zenon DEF LoopNext
  <1>3. CASE change_world
    BY <1>1, <1>3, Zenon DEF change_world, Fresh, Change
  <1>4. CASE change_policies
    BY <1>1, <1>4, Zenon DEF change_policies, Fresh, Change
  <1>5. CASE \E c \in Change : schedule(c)
    BY <1>2, <1>5, Zenon DEF schedule
  <1>6. CASE \/ run_woken \/ run_take \/ run_read_policies \/ run_skip \/ run_no_sessions
             \/ run_read_world \/ run_finish \/ run_fails \/ restart
    BY <1>6, Zenon DEF run_woken, run_take, run_read_policies, run_skip, run_no_sessions, run_read_world,
       run_finish, run_fails, restart, LoopNext, RunStep
  <1>7. CASE change_nas \/ add_user \/ change_groups \/ log_ages
    BY <1>7, Zenon DEF change_nas, add_user, change_groups, log_ages
  <1>8. CASE \E k \in Keys : \/ run_send(k) \/ operator_asks(k) \/ operator_disconnect(k)
                             \/ interim(k) \/ leave(k) \/ prune(k)
                             \/ \E req \in Requests : access(k, req)
    BY <1>8, Zenon DEF run_send, operator_asks, operator_disconnect, interim, leave, prune, access
  <1>9. CASE \E rec \in Records : deliver(rec) \/ lose(rec)
    BY <1>9, Zenon DEF deliver, lose
  <1>10. CASE UNCHANGED vars
    BY <1>10, Zenon DEF vars
  <1> QED
    BY <1>3, <1>4, <1>5, <1>6, <1>7, <1>8, <1>9, <1>10, Zenon DEF Next

---------------------------------------------------------------------------
(* The decision of now.                                                    *)

\* The decision a session got is the one it would get now.
Good(k, row) ==
    /\ row # None /\ row.digest # None
    /\ ~changed(Redecide(k, row, policies, users, devices, guests), row.digest)

\* The client of an address depends on the table of clients alone.
LEMMA SameClients ==
  ASSUME nas' = nas, NEW ip
  PROVE  FindNas(ip)' = FindNas(ip)
  BY Zenon DEF FindNas

\* The decision depends on the tables alone.
LEMMA SameTables ==
  ASSUME UNCHANGED configVars, NEW k, NEW row
  PROVE  Good(k, row)' = Good(k, row)
  <1>1. FindNas(k[1])' = FindNas(k[1])
    BY SameClients, Zenon DEF configVars
  <1> QED
    BY <1>1, Zenon DEF Good, Redecide, configVars

---------------------------------------------------------------------------
(* The inductive invariant.                                                *)

\* What the rows of sessions and of the run are, as far as decisions go.
RowsTyped ==
    /\ devices \in [Macs -> DeviceStatus \cup {None}] /\ users \in [Users -> UserRows \cup {None}]
    /\ sessions = [k \in Keys |-> sessions[k]]
    /\ \A k \in Keys : sessions[k] # None => sessions[k].mac \in Macs \cup {None}
    /\ \A k \in Keys : rows[k] # None => rows[k].mac \in Macs \cup {None}
    /\ verdict \in [Keys -> Verdicts] /\ judged \in [Keys -> Verdicts]

\* A run that has read its policies holds policies that load; they are those of
\* now unless a change of policies is neither applied nor seen by the run.
RunInv ==
    /\ loop \in {"tx2", "send"} => Loads(table)
    /\ todo # {} => loop = "send"
    /\ loop \in {"tx2", "send"} /\ committed \cap PolicyChange \subseteq settled \cup seen => table = policies

\* A run's verdict to keep a session is on a row with a decision, and it is the
\* verdict of now unless a change is neither applied nor seen by the run.
VerdictInv ==
    /\ \A k \in Keys : verdict[k] = "keep" => loop = "send" /\ rows[k] # None /\ rows[k].digest # None
    /\ loop = "send" /\ committed \subseteq settled \cup seen =>
          \A k \in Keys : verdict[k] = "keep" => Good(k, rows[k])

\* So is the verdict of the last completed run, unless a change is not applied.
JudgedInv ==
    /\ \A k \in Keys : judged[k] = "keep" => sessions[k] # None /\ sessions[k].digest # None
    /\ committed \subseteq settled => \A k \in Keys : judged[k] = "keep" => Good(k, sessions[k])

EnforcementInv == LoopInv /\ RowsTyped /\ RunInv /\ VerdictInv /\ JudgedInv

\* A server that starts on an empty database satisfies it.
LEMMA EnforcementInitInv == Init => EnforcementInv
  <1> SUFFICES ASSUME Init PROVE EnforcementInv
    BY Zenon
  <1>1. LoopInv
    BY LoopInitInv, Zenon DEF Init
  <1>2. RowsTyped
    BY Zenon DEF Init, AAAInit, RowsTyped, NoRows, NoVerdict, Verdicts
  <1>3. RunInv /\ VerdictInv /\ JudgedInv
    BY Zenon DEF Init, LoopInit, RunInv, VerdictInv, JudgedInv, NoVerdict
  <1> QED
    BY <1>1, <1>2, <1>3, Zenon DEF EnforcementInv

\* Steps that touch neither the tables a decision reads, nor what a run has read
\* and decided: disconnects, accounting on its way, schedule(), the log ageing.
LEMMA QuietKeeps ==
  ASSUME EnforcementInv, UNCHANGED <<configVars, sessions, rows, table, verdict, judged>>,
         UNCHANGED <<loop, committed, settled, seen>>, todo' \subseteq todo
  PROVE  RowsTyped' /\ RunInv' /\ VerdictInv' /\ JudgedInv'
  <1>1. \A k, row : Good(k, row)' = Good(k, row)
    BY SameTables, Zenon
  <1>2. RowsTyped'
    BY Zenon DEF EnforcementInv, RowsTyped, configVars
  <1>3. RunInv'
    BY Zenon DEF EnforcementInv, RunInv, configVars
  <1>4. VerdictInv'
    <2>1. \A k \in Keys : Good(k, rows[k])' = Good(k, rows[k])
      BY <1>1, Zenon
    <2> QED
      BY <2>1, Zenon DEF EnforcementInv, VerdictInv
  <1>5. JudgedInv'
    <2>1. \A k \in Keys : Good(k, sessions[k])' = Good(k, sessions[k])
      BY <1>1, Zenon
    <2> QED
      BY <2>1, Zenon DEF EnforcementInv, JudgedInv
  <1> QED
    BY <1>2, <1>3, <1>4, <1>5, Zenon

---------------------------------------------------------------------------
(* Changes.                                                                *)

\* Both sets of changes a run can have behind it were committed before.
LEMMA BehindIsCommitted == EnforcementInv => settled \subseteq committed /\ seen \subseteq committed
  BY Zenon DEF EnforcementInv, LoopInv

\* A change of users, groups, devices or guests leaves every verdict of before open.
LEMMA ChangeWorldKeeps ==
  ASSUME EnforcementInv, change_world
  PROVE  RowsTyped' /\ RunInv' /\ VerdictInv' /\ JudgedInv'
  <1>1. PICK c \in WorldChange \ committed : Commit({c})
    BY Zenon DEF change_world, Fresh
  <1>2. c \notin settled /\ c \notin seen /\ c \in committed' /\ c \notin PolicyChange
    BY <1>1, BehindIsCommitted, ChangesAreDisjoint, Zenon DEF Commit
  <1>3. UNCHANGED <<loop, settled, seen, sessions, rows, table, verdict, todo, judged, policies>>
    BY <1>1, Zenon DEF Commit, change_world, runVars, delete_user, update_user, delete_group, regroup, delete_device,
       add_guest, portal_register, end_guest, save_device, logVars
  <1>4. users' \in [Users -> UserRows \cup {None}] /\ devices' \in [Macs -> DeviceStatus \cup {None}]
    <2>1. users \in [Users -> UserRows \cup {None}] /\ devices \in [Macs -> DeviceStatus \cup {None}]
      BY Zenon DEF EnforcementInv, RowsTyped
    <2>2. CASE \E u \in Users : delete_user(u) \/ \E row \in UserRows : update_user(u, row)
      BY <2>1, <2>2, Zenon DEF delete_user, update_user
    <2>3. CASE \E m \in Macs : \/ delete_device(m) \/ add_guest(m) \/ portal_register(m) \/ end_guest(m)
                               \/ \E status \in DeviceStatus : save_device(m, status)
      BY <2>1, <2>3, Zenon DEF delete_device, add_guest, portal_register, end_guest, save_device, DeviceStatus
    <2>4. CASE \E g \in Groups : delete_group(g)
      BY <2>1, <2>4, Zenon DEF delete_group, regroup
    <2> QED
      BY <2>2, <2>3, <2>4, Zenon DEF change_world
  <1>5. committed' \cap PolicyChange = committed \cap PolicyChange
    BY <1>1, <1>2, Zenon DEF Commit
  <1>6. RowsTyped'
    BY <1>3, <1>4, Zenon DEF EnforcementInv, RowsTyped
  <1>7. RunInv'
    BY <1>3, <1>5, Zenon DEF EnforcementInv, RunInv
  <1>8. VerdictInv' /\ JudgedInv'
    BY <1>2, <1>3, Zenon DEF EnforcementInv, VerdictInv, JudgedInv
  <1> QED
    BY <1>6, <1>7, <1>8, Zenon

\* So does a change of the policies, and what a run has read of them is old.
LEMMA ChangePoliciesKeeps ==
  ASSUME EnforcementInv, change_policies
  PROVE  RowsTyped' /\ RunInv' /\ VerdictInv' /\ JudgedInv'
  <1>1. PICK c \in PolicyChange \ committed : Commit({c})
    BY Zenon DEF change_policies, Fresh
  <1>2. c \notin settled /\ c \notin seen /\ c \in committed' \cap PolicyChange
    BY <1>1, BehindIsCommitted, Zenon DEF Commit
  <1>3. UNCHANGED <<loop, settled, seen, sessions, rows, table, verdict, todo, judged, users, devices>>
    BY <1>1, Zenon DEF Commit, change_policies, runVars, save_policies, logVars
  <1>4. RowsTyped'
    BY <1>3, Zenon DEF EnforcementInv, RowsTyped
  <1>5. RunInv'
    BY <1>2, <1>3, Zenon DEF EnforcementInv, RunInv
  <1>6. VerdictInv' /\ JudgedInv'
    BY <1>2, <1>3, Zenon DEF EnforcementInv, VerdictInv, JudgedInv
  <1> QED
    BY <1>4, <1>5, <1>6, Zenon

\* A write no route schedules a run for keeps the invariant if the decisions it
\* changes are on sessions it outdates.
LEMMA OutdateKeeps ==
  ASSUME EnforcementInv, NEW ks \in SUBSET Keys, Outdate(ks),
         UNCHANGED <<loopVars, rows, table, todo, sessions, policies>>,
         devices' \in [Macs -> DeviceStatus \cup {None}], users' \in [Users -> UserRows \cup {None}],
         \A k \in Keys \ ks : Good(k, sessions[k]) => Good(k, sessions[k])',
         \A k \in Keys \ ks : Good(k, rows[k]) => Good(k, rows[k])'
  PROVE  RowsTyped' /\ RunInv' /\ VerdictInv' /\ JudgedInv'
  <1>1. /\ verdict' \in [Keys -> Verdicts] /\ judged' \in [Keys -> Verdicts]
        /\ \A k \in Keys : verdict'[k] = "keep" => verdict[k] = "keep" /\ k \notin ks
        /\ \A k \in Keys : judged'[k] = "keep" => judged[k] = "keep" /\ k \notin ks
    BY Zenon DEF EnforcementInv, RowsTyped, Outdate, Verdicts
  <1>2. RowsTyped'
    BY <1>1, Zenon DEF EnforcementInv, RowsTyped
  <1>3. RunInv'
    BY Zenon DEF EnforcementInv, RunInv, loopVars
  <1>4. VerdictInv'
    BY <1>1, Zenon DEF EnforcementInv, VerdictInv, loopVars
  <1>5. JudgedInv'
    BY <1>1, Zenon DEF EnforcementInv, JudgedInv, loopVars
  <1> QED
    BY <1>2, <1>3, <1>4, <1>5, Zenon

\* RADIUS clients change, and every verdict is out of date.
LEMMA ChangeNasKeeps ==
  ASSUME EnforcementInv, change_nas
  PROVE  RowsTyped' /\ RunInv' /\ VerdictInv' /\ JudgedInv'
  <1>1. UNCHANGED <<users, devices, policies, sessions, loopVars, rows, table, todo>> /\ Outdate(Keys)
    BY Zenon DEF change_nas, save_nas, logVars
  <1>2. users' \in [Users -> UserRows \cup {None}] /\ devices' \in [Macs -> DeviceStatus \cup {None}]
    BY <1>1, Zenon DEF EnforcementInv, RowsTyped
  <1> QED
    BY <1>1, <1>2, OutdateKeeps, Zenon

\* A session that keeps its decision is not of a user who does not exist, unless
\* no user was asked for.
LEMMA GoodHasUser ==
  ASSUME NEW k, NEW row, Good(k, row), row.username \in Users, row.method # "MAB"
  PROVE  users[row.username] # None
  <1> SUFFICES ASSUME users[row.username] = None PROVE FALSE
    BY Zenon
  <1>1. Redecide(k, row, policies, users, devices, guests) = deny
    BY Zenon DEF Redecide, HardRule
  <1> QED
    BY <1>1 DEF Good, changed, accepted, deny

\* A user is created: no session that keeps its decision was waiting for that,
\* but for those admitted by MAC address that a record gave the name to.
LEMMA AddUserKeeps ==
  ASSUME EnforcementInv, add_user
  PROVE  RowsTyped' /\ RunInv' /\ VerdictInv' /\ JudgedInv'
  <1>1. PICK u \in Users, new \in UserRows : create_user(u, new) /\ Outdate(MabOf(u))
    BY Zenon DEF add_user
  <1>2. /\ UNCHANGED <<devices, guests, policies, nas, sessions, loopVars, rows, table, todo>>
        /\ users[u] = None /\ users' = [users EXCEPT ![u] = new]
    BY <1>1, Zenon DEF add_user, create_user, logVars
  <1>3. /\ users' \in [Users -> UserRows \cup {None}] /\ devices' \in [Macs -> DeviceStatus \cup {None}]
        /\ \A v \in Users : v # u => users'[v] = users[v]
    BY <1>2, Zenon DEF EnforcementInv, RowsTyped
  <1>4. ASSUME NEW k \in Keys, NEW row, Good(k, row), ~(row.method = "MAB" /\ row.username = u)
        PROVE  Good(k, row)'
    <2>1. row.username # u
      BY <1>2, <1>4, GoodHasUser, Zenon
    <2>2. FindNas(k[1])' = FindNas(k[1])
      BY <1>2, SameClients, Zenon
    <2>3. row.username \in Users => users'[row.username] = users[row.username]
      BY <1>3, <2>1, Zenon
    <2>4. Redecide(k, row, policies, users, devices, guests)' = Redecide(k, row, policies, users, devices, guests)
      BY <1>2, <2>2, <2>3 DEF Redecide
    <2> QED
      BY <1>4, <2>4, Zenon DEF Good
  <1>5. \A k \in Keys \ MabOf(u) : Good(k, sessions[k]) => Good(k, sessions[k])'
    <2> SUFFICES ASSUME NEW k \in Keys \ MabOf(u), Good(k, sessions[k]) PROVE Good(k, sessions[k])'
      BY Zenon
    <2>1. sessions[k] \in Rows(k)
      BY Zenon DEF Good, Rows
    <2>2. Good(k, sessions[k]) /\ ~(sessions[k].method = "MAB" /\ sessions[k].username = u)
      BY <2>1, Zenon DEF MabOf
    <2> QED
      BY <1>2, <1>4, <2>2, Zenon
  <1>6. \A k \in Keys \ MabOf(u) : Good(k, rows[k]) => Good(k, rows[k])'
    <2> SUFFICES ASSUME NEW k \in Keys \ MabOf(u), Good(k, rows[k]) PROVE Good(k, rows[k])'
      BY Zenon
    <2>1. rows[k] \in Rows(k)
      BY Zenon DEF Good, Rows
    <2>2. Good(k, rows[k]) /\ ~(rows[k].method = "MAB" /\ rows[k].username = u)
      BY <2>1, Zenon DEF MabOf
    <2> QED
      BY <1>2, <1>4, <2>2, Zenon
  <1>7. MabOf(u) \in SUBSET Keys
    BY Zenon DEF MabOf
  <1> QED
    BY <1>1, <1>2, <1>3, <1>5, <1>6, <1>7, OutdateKeeps, Zenon

\* Users are given another group without a run, by an LDAP sign-in or by the new
\* name of a group: only sessions of theirs may get another decision for it.
LEMMA ChangeGroupsKeeps ==
  ASSUME EnforcementInv, change_groups
  PROVE  RowsTyped' /\ RunInv' /\ VerdictInv' /\ JudgedInv'
  <1>1. PICK us : us = {u \in Users : users'[u] # users[u]}
    BY Zenon
  <1>2. Outdate(OfUsers(us)) /\ UNCHANGED <<loopVars, rows, table, todo>>
    BY <1>1, Zenon DEF change_groups
  <1>3. /\ UNCHANGED <<devices, guests, policies, nas, sessions>>
        /\ users' \in [Users -> UserRows \cup {None}] /\ devices' \in [Macs -> DeviceStatus \cup {None}]
    <2>1. users \in [Users -> UserRows \cup {None}] /\ devices \in [Macs -> DeviceStatus \cup {None}]
      BY Zenon DEF EnforcementInv, RowsTyped
    <2>2. CASE \E u \in Users, row \in UserRows : refresh_group(u, row)
      BY <2>1, <2>2, Zenon DEF refresh_group, logVars
    <2>3. CASE \E g, h \in Groups : rename_group(g, h)
      BY <2>1, <2>3, Zenon DEF rename_group, regroup, logVars
    <2> QED
      BY <2>2, <2>3, Zenon DEF change_groups
  <1>4. ASSUME NEW k \in Keys, NEW row, Good(k, row), row.username \notin us
        PROVE  Good(k, row)'
    <2>1. FindNas(k[1])' = FindNas(k[1])
      BY <1>3, SameClients, Zenon
    <2>2. row.username \in Users => users'[row.username] = users[row.username]
      BY <1>1, <1>4, Zenon
    <2>3. Redecide(k, row, policies, users, devices, guests)' = Redecide(k, row, policies, users, devices, guests)
      BY <1>3, <2>1, <2>2 DEF Redecide
    <2> QED
      BY <1>4, <2>3, Zenon DEF Good
  <1>5. \A k \in Keys \ OfUsers(us) : Good(k, sessions[k]) => Good(k, sessions[k])'
    <2> SUFFICES ASSUME NEW k \in Keys \ OfUsers(us), Good(k, sessions[k]) PROVE Good(k, sessions[k])'
      BY Zenon
    <2>1. sessions[k] \in Rows(k)
      BY Zenon DEF Good, Rows
    <2>2. Good(k, sessions[k]) /\ sessions[k].username \notin us
      BY <2>1, Zenon DEF OfUsers
    <2> QED
      BY <1>3, <1>4, <2>2, Zenon
  <1>6. \A k \in Keys \ OfUsers(us) : Good(k, rows[k]) => Good(k, rows[k])'
    <2> SUFFICES ASSUME NEW k \in Keys \ OfUsers(us), Good(k, rows[k]) PROVE Good(k, rows[k])'
      BY Zenon
    <2>1. rows[k] \in Rows(k)
      BY Zenon DEF Good, Rows
    <2>2. Good(k, rows[k]) /\ rows[k].username \notin us
      BY <2>1, Zenon DEF OfUsers
    <2> QED
      BY <1>2, <1>4, <2>2, Zenon
  <1>7. OfUsers(us) \in SUBSET Keys
    BY Zenon DEF OfUsers
  <1> QED
    BY <1>2, <1>3, <1>5, <1>6, <1>7, OutdateKeeps, Zenon

\* authorize() records a station never seen before: only sessions of that
\* station may get another decision for it.
LEMMA AccessKeeps ==
  ASSUME EnforcementInv, NEW k \in Keys, NEW req \in Requests, access(k, req)
  PROVE  RowsTyped' /\ RunInv' /\ VerdictInv' /\ JudgedInv'
  <1> DEFINE ks == IF devices' # devices THEN OfStation(req.mac) ELSE {}
  <1>1. /\ UNCHANGED <<users, guests, policies, nas, sessions, loopVars, rows, table, todo>>
        /\ devices' = see_device(req) /\ Outdate(ks)
    BY Zenon DEF access, authorize
  <1>2. req.mac \in Macs \cup {None}
    BY InputsAreWellFormed, Zenon
  <1>3. /\ devices' \in [Macs -> DeviceStatus \cup {None}] /\ users' \in [Users -> UserRows \cup {None}]
        /\ \A m \in Macs : m # req.mac => devices'[m] = devices[m]
    BY <1>1, <1>2, Zenon DEF EnforcementInv, RowsTyped, see_device, DeviceStatus
  <1>4. ASSUME NEW j \in Keys, NEW row, Good(j, row), row.mac \in Macs \cup {None},
               devices' # devices => row.mac # req.mac
        PROVE  Good(j, row)'
    <2>1. FindNas(j[1])' = FindNas(j[1])
      BY <1>1, SameClients, Zenon
    <2>2. row.mac # None => devices'[row.mac] = devices[row.mac]
      BY <1>3, <1>4, Zenon
    <2>3. Redecide(j, row, policies, users, devices, guests)' = Redecide(j, row, policies, users, devices, guests)
      BY <1>1, <2>1, <2>2, Zenon DEF Redecide
    <2> QED
      BY <1>4, <2>3, Zenon DEF Good
  <1>5. \A j \in Keys \ ks : Good(j, sessions[j]) => Good(j, sessions[j])'
    <2> SUFFICES ASSUME NEW j \in Keys \ ks, Good(j, sessions[j]) PROVE Good(j, sessions[j])'
      BY Zenon
    <2>1. sessions[j] \in Rows(j) /\ sessions[j].mac \in Macs \cup {None}
      BY Zenon DEF Good, Rows, EnforcementInv, RowsTyped
    <2>2. devices' # devices => sessions[j].mac # req.mac
      BY <2>1, Zenon DEF OfStation
    <2> QED
      BY <1>1, <1>4, <2>1, <2>2, Zenon
  <1>6. \A j \in Keys \ ks : Good(j, rows[j]) => Good(j, rows[j])'
    <2> SUFFICES ASSUME NEW j \in Keys \ ks, Good(j, rows[j]) PROVE Good(j, rows[j])'
      BY Zenon
    <2>1. rows[j] \in Rows(j) /\ rows[j].mac \in Macs \cup {None}
      BY Zenon DEF Good, Rows, EnforcementInv, RowsTyped
    <2>2. devices' # devices => rows[j].mac # req.mac
      BY <2>1, Zenon DEF OfStation
    <2> QED
      BY <1>1, <1>4, <2>1, <2>2, Zenon
  <1>7. ks \in SUBSET Keys
    BY Zenon DEF OfStation
  <1> QED
    BY <1>1, <1>3, <1>5, <1>6, <1>7, OutdateKeeps, Zenon

---------------------------------------------------------------------------
(* The sessions.                                                           *)

\* Rows of sessions are written: a verdict stays with a row that is the same.
LEMMA ForgetKeeps ==
  ASSUME EnforcementInv, Forget(sessions'), UNCHANGED <<configVars, loopVars, rows, table, verdict, todo>>,
         sessions' = [k \in Keys |-> sessions'[k]],
         \A k \in Keys : sessions'[k] # None => sessions'[k].mac \in Macs \cup {None}
  PROVE  RowsTyped' /\ RunInv' /\ VerdictInv' /\ JudgedInv'
  <1>1. \A k, row : Good(k, row)' = Good(k, row)
    BY SameTables, Zenon
  <1>2. /\ judged' \in [Keys -> Verdicts]
        /\ \A k \in Keys : judged'[k] = "keep" => judged[k] = "keep" /\ sessions'[k] = sessions[k]
    BY Zenon DEF Forget, EnforcementInv, RowsTyped, Verdicts
  <1>3. RowsTyped'
    BY <1>2, Zenon DEF EnforcementInv, RowsTyped, configVars
  <1>4. RunInv'
    BY Zenon DEF EnforcementInv, RunInv, configVars, loopVars
  <1>5. VerdictInv'
    <2>1. \A k \in Keys : Good(k, rows[k])' = Good(k, rows[k])
      BY <1>1, Zenon
    <2> QED
      BY <2>1, Zenon DEF EnforcementInv, VerdictInv, loopVars
  <1>6. JudgedInv'
    <2>1. \A k \in Keys : sessions'[k] = sessions[k] => Good(k, sessions[k])' = Good(k, sessions[k])
      BY <1>1, Zenon
    <2> QED
      BY <1>2, <2>1, Zenon DEF EnforcementInv, JudgedInv, loopVars
  <1> QED
    BY <1>3, <1>4, <1>5, <1>6, Zenon

\* The row a start or an interim update leaves is of a station, or of none.
LEMMA UpdatedHasMac ==
  ASSUME EnforcementInv, NEW rec \in Records
  PROVE  Key(rec) \in Keys /\ Updated(rec, auth_logs).mac \in Macs \cup {None}
  <1>1. rec.ip \in Ips /\ rec.sid \in Sids /\ rec.mac \in Macs \cup {None}
    BY InputsAreWellFormed, Zenon
  <1>2. Key(rec) \in Keys
    BY <1>1, Zenon DEF Keys, Key
  <1>3. Stored(rec).mac \in Macs \cup {None}
    BY <1>2, Zenon DEF EnforcementInv, RowsTyped, Stored, NewSession
  <1>4. Or(rec.mac, Stored(rec).mac) \in Macs \cup {None}
    BY <1>1, <1>3, Zenon DEF Or
  <1>5. Updated(rec, auth_logs).mac = Or(rec.mac, Stored(rec).mac)
    BY Zenon DEF Updated
  <1> QED
    BY <1>2, <1>4, <1>5, Zenon

\* A record arrives.
LEMMA DeliverKeeps ==
  ASSUME EnforcementInv, NEW rec \in Records, deliver(rec)
  PROVE  RowsTyped' /\ RunInv' /\ VerdictInv' /\ JudgedInv'
  <1>1. /\ UNCHANGED <<configVars, loopVars, rows, table, verdict, todo>> /\ Forget(sessions')
        /\ accounting(rec)
    BY Zenon DEF deliver, accounting
  <1>2. Key(rec) \in Keys /\ Updated(rec, auth_logs).mac \in Macs \cup {None}
    BY UpdatedHasMac, Zenon
  <1>3. rec.status \in {"update", "stop", "on"}
    BY InputsAreWellFormed, Zenon
  <1>4. /\ sessions = [k \in Keys |-> sessions[k]]
        /\ \A k \in Keys : sessions[k] # None => sessions[k].mac \in Macs \cup {None}
    BY Zenon DEF EnforcementInv, RowsTyped
  <1>5. /\ sessions' = [k \in Keys |-> sessions'[k]]
        /\ \A k \in Keys : sessions'[k] # None => sessions'[k].mac \in Macs \cup {None}
    <2>1. CASE rec.status = "update"
      <3>1. sessions' = [sessions EXCEPT ![Key(rec)] = Updated(rec, auth_logs)]
        BY <1>1, <2>1, Zenon DEF accounting
      <3> QED
        BY <1>2, <1>4, <3>1, Zenon
    <2>2. CASE rec.status = "stop"
      <3>1. sessions' = [sessions EXCEPT ![Key(rec)] = None]
        BY <1>1, <2>2, Zenon DEF accounting
      <3> QED
        BY <1>2, <1>4, <3>1, Zenon
    <2>3. CASE rec.status = "on"
      <3>1. sessions' = [k \in Keys |-> IF k[1] = rec.ip THEN None ELSE sessions[k]]
        BY <1>1, <2>3, Zenon DEF accounting
      <3> QED
        BY <1>4, <3>1, Zenon
    <2> QED
      BY <1>3, <2>1, <2>2, <2>3, Zenon
  <1> QED
    BY <1>1, <1>5, ForgetKeeps, Zenon

\* A stale session is deleted.
LEMMA PruneKeeps ==
  ASSUME EnforcementInv, NEW k \in Keys, prune(k)
  PROVE  RowsTyped' /\ RunInv' /\ VerdictInv' /\ JudgedInv'
  <1>1. /\ UNCHANGED <<configVars, loopVars, rows, table, verdict, todo>> /\ Forget(sessions')
        /\ sessions' = [sessions EXCEPT ![k] = None]
    BY Zenon DEF prune, PruneStale
  <1>2. /\ sessions' = [j \in Keys |-> sessions'[j]]
        /\ \A j \in Keys : sessions'[j] # None => sessions'[j].mac \in Macs \cup {None}
    BY <1>1, Zenon DEF EnforcementInv, RowsTyped
  <1> QED
    BY <1>1, <1>2, ForgetKeeps, Zenon

---------------------------------------------------------------------------
(* The run.                                                                *)

\* The task wakes up and takes the reasons.
LEMMA WakeKeeps ==
  ASSUME EnforcementInv, run_woken \/ run_take
  PROVE  RowsTyped' /\ RunInv' /\ VerdictInv' /\ JudgedInv'
  <1>1. /\ UNCHANGED <<configVars, sessions, rows, table, verdict, judged, todo>>
        /\ UNCHANGED <<committed, settled, seen>>
        /\ loop \in {"wait", "sleep"} /\ loop' \in {"sleep", "tx1"}
    BY Zenon DEF run_woken, run_take, Woken, Take, aaaVars, configVars, runVars
  <1>2. \A k, row : Good(k, row)' = Good(k, row)
    BY <1>1, SameTables, Zenon
  <1>3. RowsTyped' /\ RunInv'
    BY <1>1, Zenon DEF EnforcementInv, RowsTyped, RunInv, configVars
  <1>4. VerdictInv'
    BY <1>1, Zenon DEF EnforcementInv, VerdictInv
  <1>5. JudgedInv'
    <2>1. \A k \in Keys : Good(k, sessions[k])' = Good(k, sessions[k])
      BY <1>1, <1>2, Zenon
    <2> QED
      BY <1>1, <2>1, Zenon DEF EnforcementInv, JudgedInv
  <1> QED
    BY <1>3, <1>4, <1>5, Zenon

\* The first transaction: what the run holds of the policies loads, and is new.
LEMMA ReadPoliciesKeeps ==
  ASSUME EnforcementInv, run_read_policies
  PROVE  RowsTyped' /\ RunInv' /\ VerdictInv' /\ JudgedInv'
  <1>1. /\ UNCHANGED <<configVars, sessions, verdict, judged, todo, committed, settled>>
        /\ loop = "tx1" /\ loop' = "tx2" /\ table' = policies /\ Loads(policies)
        /\ rows' = [k \in Keys |-> IF k \in Decided THEN sessions[k] ELSE None]
    BY Zenon DEF run_read_policies, ReadPolicies, aaaVars, configVars
  <1>2. \A k, row : Good(k, row)' = Good(k, row)
    BY <1>1, SameTables, Zenon
  <1>3. RowsTyped'
    BY <1>1, Zenon DEF EnforcementInv, RowsTyped, configVars
  <1>4. RunInv'
    BY <1>1, Zenon DEF EnforcementInv, RunInv, configVars
  <1>5. VerdictInv'
    BY <1>1, Zenon DEF EnforcementInv, VerdictInv
  <1>6. JudgedInv'
    <2>1. \A k \in Keys : Good(k, sessions[k])' = Good(k, sessions[k])
      BY <1>1, <1>2, Zenon
    <2> QED
      BY <1>1, <2>1, Zenon DEF EnforcementInv, JudgedInv
  <1> QED
    BY <1>3, <1>4, <1>5, <1>6, Zenon

\* The second transaction: the verdicts are those of the tables as they are, if
\* the policies have not changed since the first.
LEMMA ReadWorldKeeps ==
  ASSUME EnforcementInv, run_read_world
  PROVE  RowsTyped' /\ RunInv' /\ VerdictInv' /\ JudgedInv'
  <1>1. /\ UNCHANGED <<configVars, sessions, rows, table, judged, committed, settled>>
        /\ loop = "tx2" /\ loop' = "send" /\ seen' = seen \cup (committed \cap WorldChange)
    BY Zenon DEF run_read_world, ReadWorld, aaaVars, configVars
  <1>2. \A k, row : Good(k, row)' = Good(k, row)
    BY <1>1, SameTables, Zenon
  <1>3. verdict' = [k \in Keys |-> IF ~Checked(k, rows[k]) THEN "none"
                                   ELSE IF Stale(k, rows[k], table) THEN "cut" ELSE "keep"]
    BY Zenon DEF run_read_world
  <1>4. /\ verdict' \in [Keys -> Verdicts]
        /\ \A k \in Keys : verdict'[k] = "keep" => Checked(k, rows[k]) /\ ~Stale(k, rows[k], table)
    BY <1>3, Zenon DEF Verdicts
  <1>5. committed \cap PolicyChange \subseteq settled \cup seen' => table = policies
    BY <1>1, ChangesAreDisjoint, Zenon DEF EnforcementInv, RunInv
  <1>6. RowsTyped'
    BY <1>1, <1>4, Zenon DEF EnforcementInv, RowsTyped, configVars
  <1>7. RunInv'
    BY <1>1, <1>5, Zenon DEF EnforcementInv, RunInv, configVars
  <1>8. VerdictInv'
    <2>1. \A k \in Keys : verdict'[k] = "keep" => loop' = "send" /\ rows'[k] # None /\ rows'[k].digest # None
      BY <1>1, <1>4, Zenon DEF Checked
    <2>2. ASSUME committed' \subseteq settled' \cup seen', NEW k \in Keys, verdict'[k] = "keep"
          PROVE  Good(k, rows[k])'
      <3>1. table = policies
        BY <1>1, <1>5, <2>2, Zenon
      <3>2. Good(k, rows[k])
        BY <1>4, <2>2, <3>1, Zenon DEF Good, Checked, Stale
      <3> QED
        BY <1>1, <1>2, <3>2, Zenon
    <2> QED
      BY <2>1, <2>2, Zenon DEF VerdictInv
  <1>9. JudgedInv'
    <2>1. \A k \in Keys : Good(k, sessions[k])' = Good(k, sessions[k])
      BY <1>1, <1>2, Zenon
    <2> QED
      BY <1>1, <2>1, Zenon DEF EnforcementInv, JudgedInv
  <1> QED
    BY <1>6, <1>7, <1>8, <1>9, Zenon

\* The run is over: its verdicts are those of the last completed run now.
LEMMA FinishKeeps ==
  ASSUME EnforcementInv, run_finish
  PROVE  RowsTyped' /\ RunInv' /\ VerdictInv' /\ JudgedInv'
  <1>1. /\ UNCHANGED <<configVars, sessions, committed>>
        /\ loop = "send" /\ loop' = "wait" /\ settled' = settled \cup seen
        /\ rows' = NoRows /\ verdict' = NoVerdict /\ todo' = {}
        /\ judged' = [k \in Keys |-> IF sessions[k] = rows[k] THEN verdict[k] ELSE "none"]
    BY Zenon DEF run_finish, FinishRun, Return, EndRun, aaaVars, configVars
  <1>2. \A k, row : Good(k, row)' = Good(k, row)
    BY <1>1, SameTables, Zenon
  <1>3. RowsTyped'
    BY <1>1, Zenon DEF EnforcementInv, RowsTyped, configVars, NoRows, NoVerdict, Verdicts
  <1>4. RunInv' /\ VerdictInv'
    BY <1>1, Zenon DEF RunInv, VerdictInv, NoVerdict
  <1>5. \A k \in Keys : judged'[k] = "keep" => verdict[k] = "keep" /\ rows[k] = sessions[k]
    BY <1>1, Zenon
  <1>6. JudgedInv'
    <2>1. \A k \in Keys : judged'[k] = "keep" => sessions'[k] # None /\ sessions'[k].digest # None
      BY <1>1, <1>5, Zenon DEF EnforcementInv, VerdictInv
    <2>2. ASSUME committed' \subseteq settled', NEW k \in Keys, judged'[k] = "keep"
          PROVE  Good(k, sessions[k])'
      <3>1. Good(k, rows[k]) /\ rows[k] = sessions[k]
        BY <1>1, <1>5, <2>2, Zenon DEF EnforcementInv, VerdictInv
      <3> QED
        BY <1>1, <1>2, <3>1, Zenon
    <2> QED
      BY <2>1, <2>2, Zenon DEF JudgedInv
  <1> QED
    BY <1>3, <1>4, <1>6, Zenon

\* A run ends early: broken policies, a failure, or the process restarts.
LEMMA GiveUpKeeps ==
  ASSUME EnforcementInv, run_skip \/ run_fails \/ restart
  PROVE  RowsTyped' /\ RunInv' /\ VerdictInv' /\ JudgedInv'
  <1>1. /\ UNCHANGED <<configVars, sessions, judged, committed>> /\ settled' = settled /\ loop' = "wait"
        /\ \/ rows' = NoRows /\ verdict' = NoVerdict /\ todo' = {}
           \/ loop = "tx1" /\ UNCHANGED <<rows, verdict, todo>>
    BY Zenon DEF run_skip, SkipRun, run_fails, RunFails, restart, Restart, Return, EndRun, aaaVars, configVars, runVars
  <1>2. \A k, row : Good(k, row)' = Good(k, row)
    BY <1>1, SameTables, Zenon
  <1>3. RowsTyped'
    BY <1>1 DEF EnforcementInv, RowsTyped, configVars, NoRows, NoVerdict, Verdicts
  <1>4. RunInv' /\ VerdictInv'
    BY <1>1, Zenon DEF EnforcementInv, RunInv, VerdictInv, NoVerdict
  <1>5. JudgedInv'
    <2>1. \A k \in Keys : Good(k, sessions[k])' = Good(k, sessions[k])
      BY <1>1, <1>2, Zenon
    <2> QED
      BY <1>1, <2>1, Zenon DEF EnforcementInv, JudgedInv
  <1> QED
    BY <1>3, <1>4, <1>5, Zenon

\* No session has a decision: there is no verdict that could be wrong.
LEMMA NoSessionsKeeps ==
  ASSUME EnforcementInv, run_no_sessions
  PROVE  RowsTyped' /\ RunInv' /\ VerdictInv' /\ JudgedInv'
  <1>1. /\ UNCHANGED <<configVars, sessions, rows, table, verdict, judged, todo>>
        /\ loop = "tx1" /\ loop' = "wait" /\ Decided = {}
    BY Zenon DEF run_no_sessions, NoSessions, Return, aaaVars, configVars, runVars
  <1>2. \A k \in Keys : judged[k] # "keep"
    BY <1>1, Zenon DEF EnforcementInv, JudgedInv, Decided
  <1>3. RowsTyped'
    BY <1>1, Zenon DEF EnforcementInv, RowsTyped, configVars
  <1>4. RunInv' /\ VerdictInv'
    BY <1>1, Zenon DEF EnforcementInv, RunInv, VerdictInv
  <1>5. JudgedInv'
    BY <1>1, <1>2, Zenon DEF JudgedInv
  <1> QED
    BY <1>3, <1>4, <1>5, Zenon

\* Every step keeps the invariant.
LEMMA EnforcementNextInv == EnforcementInv /\ [Next]_vars => EnforcementInv'
  <1> SUFFICES ASSUME EnforcementInv, [Next]_vars PROVE EnforcementInv'
    BY Zenon
  <1>1. LoopInv'
    BY StepsOfTheLoop, LoopNextInv, Zenon DEF EnforcementInv
  <1> SUFFICES RowsTyped' /\ RunInv' /\ VerdictInv' /\ JudgedInv'
    BY <1>1, Zenon DEF EnforcementInv
  <1>2. CASE change_world \/ change_policies \/ change_nas \/ add_user \/ change_groups
    BY <1>2, ChangeWorldKeeps, ChangePoliciesKeeps, ChangeNasKeeps, AddUserKeeps, ChangeGroupsKeeps, Zenon
  <1>3. CASE run_woken \/ run_take \/ run_read_policies \/ run_read_world \/ run_finish
    BY <1>3, WakeKeeps, ReadPoliciesKeeps, ReadWorldKeeps, FinishKeeps, Zenon
  <1>4. CASE run_skip \/ run_fails \/ restart \/ run_no_sessions
    BY <1>4, GiveUpKeeps, NoSessionsKeeps, Zenon
  <1>5. CASE \E k \in Keys : prune(k) \/ \E req \in Requests : access(k, req)
    BY <1>5, PruneKeeps, AccessKeeps, Zenon
  <1>6. CASE \E rec \in Records : deliver(rec)
    BY <1>6, DeliverKeeps, Zenon
  <1>7. CASE \/ \E c \in Change : schedule(c)
             \/ \E k \in Keys : run_send(k) \/ operator_asks(k) \/ operator_disconnect(k) \/ interim(k) \/ leave(k)
             \/ \E rec \in Records : lose(rec)
             \/ log_ages \/ UNCHANGED vars
    <2>1. /\ UNCHANGED <<configVars, sessions, rows, table, verdict, judged>>
          /\ UNCHANGED <<loop, committed, settled, seen>> /\ todo' \subseteq todo
      <3>1. CASE \E c \in Change : schedule(c)
        BY <3>1, Zenon DEF schedule, Schedule, aaaVars, configVars, runVars
      <3>2. CASE \E k \in Keys : run_send(k) \/ operator_asks(k) \/ operator_disconnect(k) \/ interim(k) \/ leave(k)
        BY <3>2, Zenon DEF run_send, operator_asks, operator_disconnect, interim, leave, aaaVars, configVars, runVars, loopVars
      <3>3. CASE (\E rec \in Records : lose(rec)) \/ log_ages \/ UNCHANGED vars
        BY <3>3, Zenon DEF lose, log_ages, LogAges, vars, aaaVars, configVars, runVars, loopVars
      <3> QED
        BY <1>7, <3>1, <3>2, <3>3, Zenon
    <2> QED
      BY <2>1, QuietKeeps, Zenon
  <1> QED
    BY <1>2, <1>3, <1>4, <1>5, <1>6, <1>7, Zenon DEF Next

\* The inductive invariant of enforcement.
THEOREM EnforcementInvariant == Spec => []EnforcementInv
  BY EnforcementInitInv, EnforcementNextInv, PTL DEF Spec

\* Changes take effect: when the re-evaluation task is at rest, every session the
\* last run kept, and whose row nobody has written since, has the decision that
\* reevaluate() would take now, however many changes, runs and records there were.
\* A change no run is scheduled for takes the verdicts on its sessions along.
THEOREM ChangesTakeEffect == Spec => []KeptSessionsConform
  <1>1. EnforcementInv => KeptSessionsConform
    <2> SUFFICES ASSUME EnforcementInv, AtRest PROVE KeptSessionsConform
      BY Zenon DEF KeptSessionsConform
    <2>1. committed \subseteq settled
      BY Zenon DEF EnforcementInv, LoopInv, WakeIffReasons, AtRest
    <2> QED
      BY <2>1, Zenon DEF EnforcementInv, JudgedInv, Good, KeptSessionsConform
  <1> QED
    BY <1>1, EnforcementInvariant, PTL

\* Nobody is disconnected on behalf of policies that do not load.
THEOREM BrokenPoliciesCutNobody == Spec => []NeverCutsOnBrokenPolicies
  <1>1. EnforcementInv => NeverCutsOnBrokenPolicies
    BY Zenon DEF EnforcementInv, RunInv, NeverCutsOnBrokenPolicies
  <1> QED
    BY <1>1, EnforcementInvariant, PTL

---------------------------------------------------------------------------
(* simulate() and authorize() decide alike.                                *)

\* In whatever state the tables are, POST /policies/simulate shows the decision
\* authorize() takes, for a station NACo has seen behind an enabled client.
THEOREM SimulationIsTheDecision == SimulatorAgrees
  <1> SUFFICES ASSUME NEW req \in Requests, Comparable(req), ClientEnabled(req), StationKnown(req)
               PROVE  simulate(req) = Decision(req)
    BY Zenon DEF SimulatorAgrees
  <1> DEFINE username == Identity(req)
             user == IF username = None THEN None ELSE users[username]
             device == IF req.mac = None THEN None ELSE devices[req.mac]
             ctx == AuthContext(req.method, username, user, req.mac, device, guest_active(req.mac), FindNas(req.ip),
                                req.ssid)
  <1>1. see_device(req) = devices
    BY Zenon DEF see_device, StationKnown
  <1>2. ~Refused(req)
    BY Zenon DEF Refused, Comparable, ClientEnabled
  <1>3. ~(req.method \in PASSWORD_METHODS /\ VerifiedKey(username, req) \notin verified)
    BY Zenon DEF Comparable
  <1>4. Loads(policies)
    BY Zenon DEF Comparable
  <1>5. simulate(req) = IF HardRule(req.method, username, user, device) THEN deny ELSE decide(policies, ctx)
    BY <1>4, Zenon DEF simulate
  <1>6. Decision(req) = IF HardRule(req.method, username, user, device) THEN deny ELSE decide(policies, ctx)
    BY <1>1, <1>2, <1>3, <1>4, Zenon DEF Decision, evaluate
  <1> QED
    BY <1>5, <1>6

---------------------------------------------------------------------------
(* The context of a session.                                               *)

\* A set of numbers that is not empty has a least one.
LEMMA LeastNumber ==
  ASSUME NEW U \in SUBSET Nat, U # {}
  PROVE  \E m \in U : \A n \in U : m <= n
  <1> DEFINE R == OpToRel(<, Nat)
  <1>1. IsWellFoundedOn(R, Nat)
    BY NatLessThanWellFounded, Zenon
  <1>2. \A a, b \in Nat : a < b => <<a, b>> \in R
    BY Zenon DEF OpToRel
  <1> HIDE DEF R
  <1>3. PICK m \in U : \A n \in U : ~(<<n, m>> \in R)
    BY <1>1, WFMin, Zenon
  <1>4. ASSUME NEW n \in U PROVE m <= n
    <2>1. m \in Nat /\ n \in Nat /\ ~(n < m)
      BY <1>2, <1>3, Zenon
    <2> QED
      BY <2>1
  <1> QED
    BY <1>4, Zenon

\* A set of positions of a sequence that is not empty has a last one.
LEMMA LastPosition ==
  ASSUME NEW n \in Nat, NEW S \in SUBSET (1..n), S # {}
  PROVE  \E i \in S : \A j \in S : j <= i
  <1> DEFINE U == {n - i : i \in S}
  <1>1. U \in SUBSET Nat /\ U # {}
    <2>1. \A i \in S : i \in Nat /\ i <= n
      OBVIOUS
    <2>2. \A i \in S : n - i \in Nat
      BY <2>1
    <2> QED
      BY <2>2, Zenon
  <1>2. PICK m \in U : \A u \in U : m <= u
    BY <1>1, LeastNumber, Zenon
  <1>3. PICK i \in S : m = n - i
    BY <1>2, Zenon
  <1>4. ASSUME NEW j \in S PROVE j <= i
    <2>1. n - i <= n - j
      BY <1>2, <1>3, Zenon
    <2>2. i \in Int /\ j \in Int /\ n \in Int
      OBVIOUS
    <2> HIDE DEF U
    <2> QED
      BY <2>1, <2>2
  <1> QED
    BY <1>4, Zenon

\* What find_nas() returns is an entry that covers the address.
LEMMA ClientCovers ==
  ASSUME \A c \in Clients : nas[c] \in NasRows[c] \cup {None}, NEW ip, FindNas(ip) # None
  PROVE  /\ FindNas(ip) \in Clients /\ nas[FindNas(ip)] \in NasRows[FindNas(ip)]
         /\ ip \in nas[FindNas(ip)].addresses
  <1> DEFINE cover == {c \in Clients : nas[c] # None /\ ip \in nas[c].addresses}
             exact == {c \in cover : ~nas[c].network}
             size(c) == Cardinality(nas[c].addresses)
  <1>1. FindNas(ip) \in cover
    <2>1. CASE exact # {}
      BY <2>1, Zenon DEF FindNas
    <2>2. CASE exact = {} /\ cover # {}
      <3>1. FindNas(ip) = CHOOSE c \in cover : \A d \in cover : size(c) <= size(d)
        BY <2>2, Zenon DEF FindNas
      <3>2. \A c \in cover : size(c) \in Nat
        BY NetworksAreFinite, Zenon
      <3>3. PICK m \in {size(c) : c \in cover} : \A n \in {size(c) : c \in cover} : m <= n
        <4> HIDE DEF cover, size
        <4>1. {size(c) : c \in cover} \in SUBSET Nat /\ {size(c) : c \in cover} # {}
          BY <2>2, <3>2, Zenon
        <4> QED
          BY <4>1, LeastNumber, Zenon
      <3>4. \E c \in cover : \A d \in cover : size(c) <= size(d)
        <4> HIDE DEF cover, size
        <4> QED
          BY <3>3, Zenon
      <3> HIDE DEF cover, size
      <3> QED
        BY <3>1, <3>4, Zenon
    <2>3. CASE exact = {} /\ cover = {}
      BY <2>3, Zenon DEF FindNas
    <2> QED
      BY <2>1, <2>2, <2>3, Zenon
  <1> QED
    BY <1>1, Zenon

\* What _latest_accept() returns is an accept of the station, or of the user if
\* the station is unknown, at the address or another one of its network client.
LEMMA LatestIsOwn ==
  ASSUME \A c \in Clients : nas[c] \in NasRows[c] \cup {None}, NEW P, NEW log \in Seq(P),
         NEW ip, NEW mac, NEW username, latest_accept(log, ip, mac, username) # None
  PROVE  LET g == latest_accept(log, ip, mac, username)
         IN  /\ IF mac # None THEN g.mac = mac ELSE username # None /\ g.username = username
             /\ g.ip = ip \/ \E row \in NasRows[g.client] : row.network /\ ip \in row.addresses
  <1> DEFINE client == FindNas(ip)
             SameNas(row) == row.ip = ip \/ (client # None /\ nas[client].network /\ row.client = client)
             hits == {i \in DOMAIN log : /\ SameNas(log[i])
                                         /\ IF mac # None THEN log[i].mac = mac
                                            ELSE username # None /\ log[i].username = username}
             g == latest_accept(log, ip, mac, username)
  <1>1. hits # {} /\ g = log[CHOOSE i \in hits : \A j \in hits : j <= i]
    BY Zenon DEF latest_accept
  <1>2. hits \in SUBSET (1..Len(log)) /\ Len(log) \in Nat
    OBVIOUS
  <1>3. \E i \in hits : \A j \in hits : j <= i
    <2> HIDE DEF hits
    <2> QED
      BY <1>1, <1>2, LastPosition, Zenon
  <1>4. PICK i \in hits : g = log[i]
    <2> HIDE DEF hits, g
    <2> QED
      BY <1>1, <1>3, Zenon
  <1>5. SameNas(g) /\ IF mac # None THEN g.mac = mac ELSE username # None /\ g.username = username
    BY <1>4, Zenon
  <1>6. client # None => client \in Clients /\ nas[client] \in NasRows[client] /\ ip \in nas[client].addresses
    BY ClientCovers, Zenon
  <1>7. g.ip = ip \/ \E row \in NasRows[g.client] : row.network /\ ip \in row.addresses
    <2> HIDE DEF client, g
    <2> QED
      BY <1>5, <1>6, Zenon
  <1> QED
    BY <1>5, <1>7, Zenon

\* The context a row carries is of an accept of its own; the station it names
\* was named by a record of the session.
OwnContext(k, row) ==
    /\ row.mac # None => \E rec \in Records : Key(rec) = k /\ rec.mac = row.mac
    /\ row.digest # None =>
          LET g == row.origin
          IN  /\ \/ g.mac # None /\ g.mac = row.mac
                 \/ g.username # None /\ g.username = row.username
              /\ g.method = row.method /\ g.digest = row.digest
              /\ g.username # None => g.username = row.username
              /\ g.ip = k[1] \/ (\E client \in NasRows[g.client] : client.network /\ k[1] \in client.addresses)

\* The inductive invariant of the AAA service.
ContextInv ==
    /\ nas = [c \in Clients |-> nas[c]] /\ \A c \in Clients : nas[c] \in NasRows[c] \cup {None}
    /\ \E P : auth_logs \in Seq(P)
    /\ sessions = [k \in Keys |-> sessions[k]]
    /\ \A k \in Keys : sessions[k] # None => OwnContext(k, sessions[k])

\* The row a start or an interim update leaves carries a context of its own.
LEMMA UpdatedIsOwn ==
  ASSUME OneStationPerSession, ContextInv, NEW rec \in Records
  PROVE  Key(rec) \in Keys /\ OwnContext(Key(rec), Updated(rec, auth_logs))
  <1> DEFINE k == Key(rec)
             was == Stored(rec)
             mac == Or(rec.mac, was.mac)
             context == latest_accept(auth_logs, rec.ip, mac, rec.user)
             row == Updated(rec, auth_logs)
  <1>1. k \in Keys /\ k[1] = rec.ip
    BY InputsAreWellFormed, Zenon DEF Key, Keys
  <1>2. OwnContext(k, was)
    <2>1. CASE sessions[k] = None
      BY <2>1, Zenon DEF OwnContext, Stored, NewSession
    <2>2. CASE sessions[k] # None
      BY <1>1, <2>2, Zenon DEF ContextInv, Stored
    <2> QED
      BY <2>1, <2>2, Zenon
  <1>3. mac # None => \E r \in Records : Key(r) = k /\ r.mac = mac
    <2> HIDE DEF was
    <2> QED
      BY <1>2, Zenon DEF OwnContext, Or
  <1>4. CASE context # None
    <2>1. /\ row.mac = mac /\ row.method = context.method /\ row.digest = context.digest
          /\ row.origin = context
          /\ row.username = Or(context.username, was.username)
      BY <1>4, Zenon DEF Updated
    <2>2. PICK P : auth_logs \in Seq(P)
      BY Zenon DEF ContextInv
    <2>3. /\ IF mac # None THEN context.mac = mac ELSE rec.user # None /\ context.username = rec.user
          /\ context.ip = rec.ip \/ \E client \in NasRows[context.client] : client.network /\ rec.ip \in client.addresses
      <3>1. \A c \in Clients : nas[c] \in NasRows[c] \cup {None}
        BY Zenon DEF ContextInv
      <3> HIDE DEF mac
      <3> QED
        BY <1>4, <2>2, <3>1, LatestIsOwn, Zenon
    <2> HIDE DEF was, mac, context, row, k
    <2>4. OwnContext(k, row)
      BY <1>1, <1>3, <2>1, <2>3, Zenon DEF OwnContext, Or
    <2> QED
      BY <1>1, <2>4, Zenon DEF k, row
  <1>5. CASE context = None
    <2>1. /\ row.mac = mac /\ row.method = was.method /\ row.digest = was.digest /\ row.origin = was.origin
          /\ row.username = Or(was.username, rec.user)
      BY <1>5, Zenon DEF Updated
    <2>2. was.mac # None => row.mac = was.mac
      <3> HIDE DEF was
      <3> QED
        BY <1>2, <2>1, Zenon DEF OwnContext, OneStationPerSession, Or
    <2>3. was.username # None => row.username = was.username
      BY <2>1, Zenon DEF Or
    <2> HIDE DEF was, mac, context, row, k
    <2>4. OwnContext(k, row)
      BY <1>2, <1>3, <2>1, <2>2, <2>3, Zenon DEF OwnContext
    <2> QED
      BY <1>1, <2>4, Zenon DEF k, row
  <1> QED
    BY <1>4, <1>5, Zenon

\* An accept is added at the end of the log.
LEMMA LoggedEnds ==
  ASSUME NEW P, auth_logs \in Seq(P), NEW row
  PROVE  \E rest \in Seq(P) : Logged(row) = Append(rest, row)
  <1> DEFINE old == {i \in DOMAIN auth_logs : Superseded(auth_logs[i], row)}
             at == CHOOSE i \in old : TRUE
  <1>1. CASE old = {}
    BY <1>1, Zenon DEF Logged
  <1>2. CASE old # {}
    <2>1. at \in old
      <3> HIDE DEF old
      <3> QED
        BY <1>2, Zenon
    <2>2. at \in 1..Len(auth_logs)
      BY <2>1
    <2>3. Logged(row) = Append(SubSeq(auth_logs, 1, at - 1) \o SubSeq(auth_logs, at + 1, Len(auth_logs)), row)
      BY <1>2, Zenon DEF Logged
    <2> HIDE DEF at
    <2>4. SubSeq(auth_logs, 1, at - 1) \in Seq(P) /\ SubSeq(auth_logs, at + 1, Len(auth_logs)) \in Seq(P)
      BY <2>2
    <2>5. SubSeq(auth_logs, 1, at - 1) \o SubSeq(auth_logs, at + 1, Len(auth_logs)) \in Seq(P)
      BY <2>4
    <2> QED
      BY <2>3, <2>5, Zenon
  <1> QED
    BY <1>1, <1>2, Zenon

\* The log stays a sequence when an accept is added.
LEMMA LoggedIsSequence ==
  ASSUME NEW P, auth_logs \in Seq(P), NEW row
  PROVE  Logged(row) \in Seq(P \cup {row})
  <1>1. PICK rest \in Seq(P) : Logged(row) = Append(rest, row)
    BY LoggedEnds, Zenon
  <1>2. PICK Q : Q = P \cup {row}
    BY Zenon
  <1>3. rest \in Seq(Q) /\ row \in Q
    BY <1>2
  <1>4. Append(rest, row) \in Seq(Q)
    BY <1>3
  <1> QED
    BY <1>1, <1>2, <1>4, Zenon

\* A fresh database satisfies the invariant.
LEMMA ContextInitInv == AAAInit => ContextInv
  <1> SUFFICES ASSUME AAAInit PROVE ContextInv
    BY Zenon
  <1>1. nas = [c \in Clients |-> nas[c]] /\ \A c \in Clients : nas[c] \in NasRows[c] \cup {None}
    BY Zenon DEF AAAInit
  <1>2. auth_logs \in Seq({})
    BY DEF AAAInit
  <1> QED
    BY <1>1, <1>2, Zenon DEF AAAInit, ContextInv

\* A record is stored: the row it leaves carries a context of its own.
LEMMA AccountingKeepsContext ==
  ASSUME OneStationPerSession, ContextInv, NEW rec \in Records, accounting(rec)
  PROVE  ContextInv'
  <1>1. UNCHANGED <<nas, auth_logs>>
    BY Zenon DEF accounting, configVars
  <1>2. Key(rec) \in Keys /\ OwnContext(Key(rec), Updated(rec, auth_logs))
    BY UpdatedIsOwn, Zenon
  <1>3. rec.status \in {"update", "stop", "on"}
    BY InputsAreWellFormed, Zenon
  <1>4. /\ sessions = [k \in Keys |-> sessions[k]]
        /\ \A k \in Keys : sessions[k] # None => OwnContext(k, sessions[k])
    BY Zenon DEF ContextInv
  <1>5. /\ sessions' = [k \in Keys |-> sessions'[k]]
        /\ \A k \in Keys : sessions'[k] # None => OwnContext(k, sessions'[k])
    <2>1. CASE rec.status = "update"
      <3>1. sessions' = [sessions EXCEPT ![Key(rec)] = Updated(rec, auth_logs)]
        BY <2>1, Zenon DEF accounting
      <3> QED
        BY <1>2, <1>4, <3>1, Zenon
    <2>2. CASE rec.status = "stop"
      <3>1. sessions' = [sessions EXCEPT ![Key(rec)] = None]
        BY <2>2, Zenon DEF accounting
      <3> QED
        BY <1>2, <1>4, <3>1, Zenon
    <2>3. CASE rec.status = "on"
      <3>1. sessions' = [k \in Keys |-> IF k[1] = rec.ip THEN None ELSE sessions[k]]
        BY <2>3, Zenon DEF accounting
      <3> QED
        BY <1>4, <3>1, Zenon
    <2> QED
      BY <1>3, <2>1, <2>2, <2>3, Zenon
  <1> QED
    BY <1>1, <1>5, Zenon DEF ContextInv

\* Every transaction, and the passing of time, keeps the invariant.
LEMMA ContextNextInv == OneStationPerSession /\ ContextInv /\ [AAANext]_aaaVars => ContextInv'
  <1> SUFFICES ASSUME OneStationPerSession, ContextInv, [AAANext]_aaaVars PROVE ContextInv'
    BY Zenon
  <1>1. CASE \E req \in Requests : authorize(req)
    <2>1. PICK req \in Requests : authorize(req)
      BY <1>1, Zenon
    <2>2. UNCHANGED <<nas, sessions>>
      BY <2>1, Zenon DEF authorize
    <2>3. PICK P : auth_logs \in Seq(P)
      BY Zenon DEF ContextInv
    <2>4. auth_logs' = auth_logs \/ auth_logs' = Logged(LogRow(req, Decision(req)))
      BY <2>1, Zenon DEF authorize
    <2>5. \E Q : auth_logs' \in Seq(Q)
      BY <2>3, <2>4, LoggedIsSequence, Zenon
    <2> QED
      BY <2>2, <2>5, Zenon DEF ContextInv
  <1>2. CASE \E rec \in Records : accounting(rec)
    BY <1>2, AccountingKeepsContext, Zenon
  <1>3. CASE \E k \in Keys : PruneStale(k)
    <2>1. PICK k \in Keys : PruneStale(k)
      BY <1>3, Zenon
    <2>2. UNCHANGED <<nas, auth_logs>> /\ sessions' = [sessions EXCEPT ![k] = None]
      BY <2>1, Zenon DEF PruneStale, configVars
    <2> QED
      BY <2>2, Zenon DEF ContextInv
  <1>4. CASE LogAges
    <2>1. UNCHANGED <<nas, sessions>> /\ auth_logs # <<>> /\ auth_logs' = Tail(auth_logs)
      BY <1>4, Zenon DEF LogAges, configVars
    <2>2. PICK P : auth_logs \in Seq(P)
      BY Zenon DEF ContextInv
    <2>3. auth_logs' \in Seq(P)
      BY <2>1, <2>2
    <2> QED
      BY <2>1, <2>3, Zenon DEF ContextInv
  <1>5. CASE \E c \in Clients : \E row \in NasRows[c] \cup {None} : save_nas(c, row)
    <2>0. PICK c \in Clients : \E row \in NasRows[c] \cup {None} : save_nas(c, row)
      BY <1>5, Zenon
    <2>1. PICK row \in NasRows[c] \cup {None} : save_nas(c, row)
      BY <2>0, Zenon
    <2>2. UNCHANGED <<auth_logs, sessions>> /\ nas' = [nas EXCEPT ![c] = row]
      BY <2>1, Zenon DEF save_nas, logVars
    <2>3. nas' = [d \in Clients |-> nas'[d]] /\ \A d \in Clients : nas'[d] \in NasRows[d] \cup {None}
      BY <2>2, Zenon DEF ContextInv
    <2> QED
      BY <2>2, <2>3, Zenon DEF ContextInv
  <1>6. CASE \/ \E key \in VerifiedKeys : Verify(key) \/ Unverify(key)
             \/ WorldChanges \/ (\E ps \in Tables : save_policies(ps)) \/ UNCHANGED aaaVars
    <2>1. UNCHANGED <<nas, auth_logs, sessions>>
      <3>1. CASE \E key \in VerifiedKeys : Verify(key) \/ Unverify(key)
        BY <3>1, Zenon DEF Verify, Unverify, configVars
      <3>2. CASE WorldChanges
        BY <3>2, Zenon DEF WorldChanges, delete_user, create_user, update_user, refresh_group, delete_group,
           rename_group, regroup, delete_device, add_guest, portal_register, end_guest, save_device, logVars
      <3>3. CASE (\E ps \in Tables : save_policies(ps)) \/ UNCHANGED aaaVars
        BY <3>3, Zenon DEF save_policies, logVars, aaaVars
      <3> QED
        BY <1>6, <3>1, <3>2, <3>3, Zenon
    <2> QED
      BY <2>1, Zenon DEF ContextInv
  <1> QED
    BY <1>1, <1>2, <1>3, <1>4, <1>5, <1>6, Zenon DEF AAANext

\* The context accounting() copies onto a session comes from an accept of the
\* same station or user, by the same method, at the same NAS or another address
\* of its network client, for every order, loss and repetition of the records,
\* as long as the records of one session name one station.
THEOREM ContextIsOwn == OneStationPerSession /\ AAASpec => []ContextFromOwnAccept
  <1>1. ContextInv => ContextFromOwnAccept
    BY Zenon DEF ContextInv, OwnContext, ContextFromOwnAccept
  <1>2. ASSUME OneStationPerSession PROVE AAASpec => []ContextInv
    <2>1. ContextInv /\ [AAANext]_aaaVars => ContextInv'
      BY <1>2, ContextNextInv, Zenon
    <2> QED
      BY <2>1, ContextInitInv, PTL DEF AAASpec
  <1>3. ASSUME OneStationPerSession PROVE AAASpec => []ContextFromOwnAccept
    BY <1>1, <1>2, <1>3, PTL
  <1> QED
    BY <1>3, Zenon

---------------------------------------------------------------------------
(* The types of what the service stores.                                   *)

\* A session has a decision exactly if it has the method it was taken for.
TypedRow(row) ==
    /\ row.mac \in Macs \cup {None} /\ row.ssid \in Ssids \cup {None}
    /\ row.username \in Users \cup Macs \cup {None}
    /\ row.digest = None <=> row.method = None

TablesTyped ==
    /\ users \in [Users -> UserRows \cup {None}]
    /\ devices \in [Macs -> DeviceStatus \cup {None}]
    /\ guests \in [Macs -> 0..MaxGuests]
    /\ policies \in Tables
    /\ nas = [c \in Clients |-> nas[c]] /\ \A c \in Clients : nas[c] \in NasRows[c] \cup {None}

ServiceInv ==
    /\ TablesTyped
    /\ auth_logs \in Seq(LogRows)
    /\ sessions = [k \in Keys |-> sessions[k]] /\ \A k \in Keys : sessions[k] # None => TypedRow(sessions[k])
    /\ verified \subseteq VerifiedKeys

\* Of the policies that match one comes first: ORDER BY priority, id is total.
LEMMA FirstExists ==
  ASSUME NEW ps \in Tables, NEW hits \in SUBSET ps, hits # {}
  PROVE  \E p \in hits : \A q \in hits \ {p} : Before(p, q)
  <1>1. \A p \in hits : p.priority \in Nat /\ p.id \in Nat
    BY PoliciesAreOrdered, Zenon
  <1>2. PICK U : U = {p.priority : p \in hits}
    BY Zenon
  <1>3. PICK least \in U : \A n \in U : least <= n
    <2>1. U \in SUBSET Nat /\ U # {}
      BY <1>1, <1>2, Zenon
    <2> QED
      BY <2>1, LeastNumber, Zenon
  <1>4. PICK V : V = {p.id : p \in {q \in hits : q.priority = least}}
    BY Zenon
  <1>5. PICK id \in V : \A n \in V : id <= n
    <2>1. PICK p \in hits : p.priority = least
      BY <1>2, <1>3, Zenon
    <2>2. V \in SUBSET Nat /\ p.id \in V
      BY <1>1, <1>4, <2>1, Zenon
    <2> QED
      BY <2>2, LeastNumber, Zenon
  <1>6. PICK p \in hits : p.priority = least /\ p.id = id
    BY <1>4, <1>5, Zenon
  <1>7. ASSUME NEW q \in hits \ {p} PROVE Before(p, q)
    <2>1. /\ q.priority \in Nat /\ q.id \in Nat /\ q.id # p.id /\ p.priority \in Nat /\ p.id \in Nat
          /\ p.priority <= q.priority
      BY <1>1, <1>2, <1>3, <1>6, PoliciesAreOrdered, Zenon
    <2>2. q.priority = p.priority => p.id <= q.id
      BY <1>4, <1>5, <1>6, Zenon
    <2> QED
      BY <2>1, <2>2 DEF Before
  <1> QED
    BY <1>7, Zenon

\* An accept comes from a policy of the table, and from a request that was not
\* refused before.
LEMMA AcceptTyped ==
  ASSUME policies \in Tables, NEW req, accepted(Decision(req))
  PROVE  digest(Decision(req)) \in Digests /\ ~Refused(req)
  <1>1. ~accepted(deny)
    BY DEF accepted, deny
  <1>2. PICK ctx : ~Refused(req) /\ Decision(req) = decide(policies, ctx)
    BY <1>1, Zenon DEF Decision, evaluate
  <1>3. PICK hits \in SUBSET policies : hits = {p \in enabled(policies) : matches(p, ctx)}
    BY Zenon DEF enabled
  <1>4. PICK first : first = CHOOSE p \in hits : \A q \in hits \ {p} : Before(p, q)
    BY Zenon
  <1>5. hits # {} /\ Decision(req) = permit(first.reply)
    BY <1>1, <1>2, <1>3, <1>4, Zenon DEF decide
  <1>6. first \in hits
    <2>1. PICK ps \in Tables : ps = policies
      BY Zenon
    <2>2. hits \in SUBSET ps /\ hits # {}
      BY <1>3, <1>5, <2>1, Zenon
    <2>3. \E p \in hits : \A q \in hits \ {p} : Before(p, q)
      BY <2>2, FirstExists
    <2> QED
      BY <1>4, <2>3, Zenon
  <1>7. digest(Decision(req)) = <<"PERMIT", first.reply>>
    BY <1>5 DEF digest, permit
  <1>8. first \in UNION Tables
    BY <1>6, Zenon
  <1> QED
    BY <1>2, <1>7, <1>8, Zenon DEF Digests

\* The row authorize() logs for an accept.
LEMMA LogRowTyped ==
  ASSUME TablesTyped, NEW req \in Requests, accepted(Decision(req))
  PROVE  LogRow(req, Decision(req)) \in LogRows
  <1>1. digest(Decision(req)) \in Digests /\ ~Refused(req)
    BY AcceptTyped, Zenon DEF TablesTyped
  <1>2. /\ req.method \in Methods \cup {None} /\ req.ip \in Ips /\ req.mac \in Macs \cup {None}
        /\ req.name \in Users \cup Macs \cup {None} /\ req.ssid \in Ssids \cup {None}
    BY InputsAreWellFormed
  <1>3. req.method \in Methods /\ FindNas(req.ip) # None
    BY <1>1, <1>2, Zenon DEF Refused
  <1>4. FindNas(req.ip) \in Clients
    BY <1>3, ClientCovers, Zenon DEF TablesTyped
  <1>5. Identity(req) \in Users \cup {None}
    BY Zenon DEF Identity
  <1> QED
    BY <1>1, <1>2, <1>3, <1>4, <1>5 DEF LogRow, LogRows

\* What _latest_accept() returns is in the log.
LEMMA LatestIsLogged ==
  ASSUME NEW P, NEW log \in Seq(P), NEW ip, NEW mac, NEW username, latest_accept(log, ip, mac, username) # None
  PROVE  latest_accept(log, ip, mac, username) \in P
  <1>1. PICK hits \in SUBSET DOMAIN log :
           hits # {} /\ latest_accept(log, ip, mac, username) = log[CHOOSE i \in hits : \A j \in hits : j <= i]
    BY Zenon DEF latest_accept
  <1>2. hits \in SUBSET (1..Len(log)) /\ Len(log) \in Nat
    BY <1>1
  <1>3. PICK i \in hits : latest_accept(log, ip, mac, username) = log[i]
    <2>1. \E i \in hits : \A j \in hits : j <= i
      BY <1>1, <1>2, LastPosition, Zenon
    <2> QED
      BY <1>1, <2>1, Zenon
  <1>4. log[i] \in P
    BY <1>2, <1>3
  <1> QED
    BY <1>3, <1>4, Zenon

\* The row a start or an interim update leaves.
LEMMA UpdatedTyped ==
  ASSUME ServiceInv, NEW rec \in Records
  PROVE  Key(rec) \in Keys /\ TypedRow(Updated(rec, auth_logs))
  <1>1. /\ rec.ip \in Ips /\ rec.sid \in Sids /\ rec.mac \in Macs \cup {None}
        /\ rec.user \in Users \cup Macs \cup {None} /\ rec.ssid \in Ssids \cup {None}
    BY InputsAreWellFormed
  <1>2. Key(rec) \in Keys
    BY <1>1, Zenon DEF Keys, Key
  <1>3. PICK was : was = Stored(rec)
    BY Zenon
  <1>4. TypedRow(was)
    <2>1. TypedRow(NewSession)
      BY Zenon DEF TypedRow, NewSession
    <2> QED
      BY <1>2, <1>3, <2>1, Zenon DEF ServiceInv, Stored
  <1>5. PICK mac \in Macs \cup {None} : mac = Or(rec.mac, was.mac)
    BY <1>1, <1>4, Zenon DEF TypedRow, Or
  <1>6. PICK ssid \in Ssids \cup {None} : ssid = Or(rec.ssid, was.ssid)
    BY <1>1, <1>4, Zenon DEF TypedRow, Or
  <1>7. PICK context : context = latest_accept(auth_logs, rec.ip, mac, rec.user)
    BY Zenon
  <1>8. PICK row : row = Updated(rec, auth_logs)
    BY Zenon
  <1>9. CASE context # None
    <2>1. context \in LogRows
      BY <1>7, <1>9, LatestIsLogged, Zenon DEF ServiceInv
    <2>2. /\ context.username \in Users \cup {None} /\ context.method \in Methods /\ context.digest \in Digests
          /\ context.ssid \in Ssids \cup {None}
      BY <2>1 DEF LogRows
    <2>3. context.method # None /\ context.digest # None
      BY <2>2, NoneAssumption, Zenon
    <2>4. PICK name \in Users \cup Macs \cup {None} : name = Or(context.username, was.username)
      BY <1>4, <2>2, Zenon DEF TypedRow, Or
    <2>5. PICK network \in Ssids \cup {None} : network = Or(ssid, context.ssid)
      BY <2>2, Zenon DEF Or
    <2>6. row = [mac |-> mac, ssid |-> network, method |-> context.method, digest |-> context.digest,
                 origin |-> context, username |-> name]
      BY <1>3, <1>5, <1>6, <1>7, <1>8, <1>9, <2>4, <2>5, Zenon DEF Updated
    <2>7. /\ row.mac = mac /\ row.ssid = network /\ row.username = name
          /\ row.method = context.method /\ row.digest = context.digest
      BY <2>6
    <2>8. TypedRow(row)
      BY <2>3, <2>7, Zenon DEF TypedRow
    <2> QED
      BY <1>2, <1>8, <2>8, Zenon
  <1>10. CASE context = None
    <2>1. PICK name \in Users \cup Macs \cup {None} : name = Or(was.username, rec.user)
      BY <1>1, <1>4, Zenon DEF TypedRow, Or
    <2>2. row = [mac |-> mac, ssid |-> ssid, method |-> was.method, digest |-> was.digest, origin |-> was.origin,
                 username |-> name]
      BY <1>3, <1>5, <1>6, <1>7, <1>8, <1>10, <2>1, Zenon DEF Updated
    <2>3. /\ row.mac = mac /\ row.ssid = ssid /\ row.username = name
          /\ row.method = was.method /\ row.digest = was.digest
      BY <2>2
    <2>4. TypedRow(row)
      BY <1>4, <2>3, Zenon DEF TypedRow
    <2> QED
      BY <1>2, <1>8, <2>4, Zenon
  <1> QED
    BY <1>9, <1>10, Zenon

\* A fresh database is typed.
LEMMA ServiceInitInv == AAAInit => ServiceInv
  <1> SUFFICES ASSUME AAAInit PROVE ServiceInv
    BY Zenon
  <1>1. nas = [c \in Clients |-> nas[c]] /\ \A c \in Clients : nas[c] \in NasRows[c] \cup {None}
    BY Zenon DEF AAAInit
  <1>2. auth_logs \in Seq(LogRows)
    BY DEF AAAInit
  <1>3. 0 \in 0..MaxGuests
    BY GuestsAreBounded
  <1> QED
    BY <1>1, <1>2, <1>3, Zenon DEF AAAInit, ServiceInv, TablesTyped

\* authorize(): the station is recorded, the accept is logged.
LEMMA AuthorizeTyped ==
  ASSUME ServiceInv, NEW req \in Requests, authorize(req)
  PROVE  ServiceInv'
  <1>1. UNCHANGED <<users, guests, policies, nas, sessions, verified>> /\ devices' = see_device(req)
    BY Zenon DEF authorize
  <1>2. devices' \in [Macs -> DeviceStatus \cup {None}]
    <2>1. devices' = devices \/ devices' = [devices EXCEPT ![req.mac] = "PENDING"]
      BY <1>1, Zenon DEF see_device
    <2>2. "PENDING" \in DeviceStatus
      BY DEF DeviceStatus
    <2> QED
      BY <2>1, <2>2, Zenon DEF ServiceInv, TablesTyped
  <1>3. auth_logs' \in Seq(LogRows)
    <2>1. CASE ~accepted(Decision(req))
      <3>1. auth_logs' = auth_logs
        BY <2>1, Zenon DEF authorize
      <3> QED
        BY <3>1, Zenon DEF ServiceInv
    <2>2. CASE accepted(Decision(req))
      <3>1. PICK row : row = LogRow(req, Decision(req)) /\ row \in LogRows
        BY <2>2, LogRowTyped, Zenon DEF ServiceInv
      <3>2. auth_logs' = Logged(row)
        BY <2>2, <3>1, Zenon DEF authorize
      <3>3. LogRows \cup {row} = LogRows
        BY <3>1
      <3>4. Logged(row) \in Seq(LogRows \cup {row})
        BY LoggedIsSequence, Zenon DEF ServiceInv
      <3> QED
        BY <3>2, <3>3, <3>4, Zenon
    <2> QED
      BY <2>1, <2>2, Zenon
  <1>4. TablesTyped'
    BY <1>1, <1>2, Zenon DEF ServiceInv, TablesTyped
  <1> QED
    BY <1>1, <1>3, <1>4, Zenon DEF ServiceInv

\* accounting() and the pruning of stale sessions.
LEMMA SessionsTyped ==
  ASSUME ServiceInv, (\E rec \in Records : accounting(rec)) \/ (\E k \in Keys : PruneStale(k))
  PROVE  ServiceInv'
  <1>1. UNCHANGED <<users, devices, guests, policies, nas, auth_logs, verified>>
    BY Zenon DEF accounting, PruneStale, configVars
  <1>2. /\ sessions = [k \in Keys |-> sessions[k]]
        /\ \A k \in Keys : sessions[k] # None => TypedRow(sessions[k])
    BY Zenon DEF ServiceInv
  <1>3. /\ sessions' = [k \in Keys |-> sessions'[k]]
        /\ \A k \in Keys : sessions'[k] # None => TypedRow(sessions'[k])
    <2>1. CASE \E k \in Keys : PruneStale(k)
      <3>1. PICK k \in Keys : sessions' = [sessions EXCEPT ![k] = None]
        BY <2>1, Zenon DEF PruneStale
      <3> QED
        BY <1>2, <3>1, Zenon
    <2>2. CASE \E rec \in Records : accounting(rec)
      <3>1. PICK rec \in Records : accounting(rec)
        BY <2>2, Zenon
      <3>2. Key(rec) \in Keys /\ TypedRow(Updated(rec, auth_logs))
        BY UpdatedTyped, Zenon
      <3>3. rec.status \in {"update", "stop", "on"}
        BY InputsAreWellFormed, Zenon
      <3>4. CASE rec.status = "update"
        <4>1. sessions' = [sessions EXCEPT ![Key(rec)] = Updated(rec, auth_logs)]
          BY <3>1, <3>4, Zenon DEF accounting
        <4> QED
          BY <1>2, <3>2, <4>1, Zenon
      <3>5. CASE rec.status = "stop"
        <4>1. sessions' = [sessions EXCEPT ![Key(rec)] = None]
          BY <3>1, <3>5, Zenon DEF accounting
        <4> QED
          BY <1>2, <3>2, <4>1, Zenon
      <3>6. CASE rec.status = "on"
        <4>1. sessions' = [k \in Keys |-> IF k[1] = rec.ip THEN None ELSE sessions[k]]
          BY <3>1, <3>6, Zenon DEF accounting
        <4> QED
          BY <1>2, <4>1, Zenon
      <3> QED
        BY <3>3, <3>4, <3>5, <3>6, Zenon
    <2> QED
      BY <2>1, <2>2, Zenon
  <1>4. TablesTyped'
    BY <1>1, Zenon DEF ServiceInv, TablesTyped
  <1> QED
    BY <1>1, <1>3, <1>4, Zenon DEF ServiceInv

\* Users, devices and guests change.
LEMMA WorldTyped ==
  ASSUME ServiceInv, WorldChanges
  PROVE  ServiceInv'
  <1>1. /\ users \in [Users -> UserRows \cup {None}] /\ devices \in [Macs -> DeviceStatus \cup {None}]
        /\ guests \in [Macs -> 0..MaxGuests]
    BY Zenon DEF ServiceInv, TablesTyped
  <1>2. CASE \E u \in Users :
               delete_user(u) \/ \E row \in UserRows : create_user(u, row) \/ update_user(u, row) \/ refresh_group(u, row)
    <2>1. PICK u \in Users, row \in UserRows \cup {None} :
             users' = [users EXCEPT ![u] = row] /\ UNCHANGED <<devices, guests, policies, nas, logVars>>
      BY <1>2, Zenon DEF delete_user, create_user, update_user, refresh_group
    <2>2. users' \in [Users -> UserRows \cup {None}]
      BY <1>1, <2>1, Zenon
    <2> QED
      BY <2>1, <2>2, Zenon DEF ServiceInv, TablesTyped, logVars
  <1>3. CASE \E m \in Macs : \/ delete_device(m) \/ add_guest(m) \/ portal_register(m) \/ end_guest(m)
                              \/ \E status \in DeviceStatus : save_device(m, status)
    <2>1. PICK m \in Macs : \/ delete_device(m) \/ add_guest(m) \/ portal_register(m) \/ end_guest(m)
                            \/ \E status \in DeviceStatus : save_device(m, status)
      BY <1>3, Zenon
    <2>2. UNCHANGED <<users, policies, nas, logVars>>
      BY <2>1, Zenon DEF delete_device, add_guest, portal_register, end_guest, save_device
    <2>3. devices' \in [Macs -> DeviceStatus \cup {None}]
      <3>1. \/ devices' = devices
            \/ \E status \in DeviceStatus \cup {None} : devices' = [devices EXCEPT ![m] = status]
        <4>1. CASE portal_register(m)
          <5>1. PICK status : status = IF devices[m] = None THEN "PENDING" ELSE devices[m]
            BY Zenon
          <5>2. devices' = [devices EXCEPT ![m] = status]
            BY <4>1, <5>1, Zenon DEF portal_register
          <5>3. status \in DeviceStatus \cup {None}
            BY <1>1, <5>1 DEF DeviceStatus
          <5> QED
            BY <5>2, <5>3, Zenon
        <4>2. CASE ~portal_register(m)
          BY <2>1, <4>2, Zenon DEF delete_device, add_guest, end_guest, save_device
        <4> QED
          BY <4>1, <4>2, Zenon
      <3> QED
        BY <1>1, <3>1, Zenon
    <2>4. guests' \in [Macs -> 0..MaxGuests]
      <3>1. guests[m] \in 0..MaxGuests
        BY <1>1, Zenon
      <3>2. \/ guests' = guests
            \/ \E n \in 0..MaxGuests : guests' = [guests EXCEPT ![m] = n]
        <4>1. CASE add_guest(m) \/ portal_register(m)
          <5>1. guests[m] < MaxGuests /\ guests' = [guests EXCEPT ![m] = guests[m] + 1]
            BY <4>1, Zenon DEF add_guest, portal_register
          <5>2. guests[m] + 1 \in 0..MaxGuests
            BY <3>1, <5>1, GuestsAreBounded
          <5> QED
            BY <5>1, <5>2, Zenon
        <4>2. CASE end_guest(m)
          <5>1. guests[m] > 0 /\ guests' = [guests EXCEPT ![m] = guests[m] - 1]
            BY <4>2, Zenon DEF end_guest
          <5>2. guests[m] - 1 \in 0..MaxGuests
            BY <3>1, <5>1, GuestsAreBounded
          <5> QED
            BY <5>1, <5>2, Zenon
        <4>3. CASE delete_device(m) \/ \E status \in DeviceStatus : save_device(m, status)
          BY <4>3, Zenon DEF delete_device, save_device
        <4> QED
          BY <2>1, <4>1, <4>2, <4>3, Zenon
      <3> QED
        BY <1>1, <3>2, Zenon
    <2> QED
      BY <2>2, <2>3, <2>4, Zenon DEF ServiceInv, TablesTyped, logVars
  <1>4. CASE \E g \in Groups : delete_group(g) \/ \E h \in Groups : rename_group(g, h)
    <2>1. users' \in [Users -> UserRows \cup {None}] /\ UNCHANGED <<devices, guests, policies, nas, logVars>>
      BY <1>4, Zenon DEF delete_group, rename_group, regroup
    <2> QED
      BY <2>1, Zenon DEF ServiceInv, TablesTyped, logVars
  <1> QED
    BY <1>2, <1>3, <1>4, Zenon DEF WorldChanges

\* Every transaction keeps what is stored typed, and so does a restart.
LEMMA ServiceNextInv ==
  ASSUME ServiceInv,
         [AAANext]_aaaVars \/ (UNCHANGED <<configVars, auth_logs, sessions>> /\ verified' = {})
  PROVE  ServiceInv'
  <1>1. CASE \E req \in Requests : authorize(req)
    BY <1>1, AuthorizeTyped, Zenon
  <1>2. CASE (\E rec \in Records : accounting(rec)) \/ (\E k \in Keys : PruneStale(k))
    BY <1>2, SessionsTyped, Zenon
  <1>3. CASE LogAges
    <2>1. UNCHANGED <<users, devices, guests, policies, nas, sessions, verified>> /\ auth_logs # <<>> /\ auth_logs' = Tail(auth_logs)
      BY <1>3, Zenon DEF LogAges, configVars
    <2>2. auth_logs \in Seq(LogRows)
      BY Zenon DEF ServiceInv
    <2>3. auth_logs' \in Seq(LogRows)
      BY <2>1, <2>2
    <2> QED
      BY <2>1, <2>3, Zenon DEF ServiceInv, TablesTyped
  <1>4. CASE \/ \E key \in VerifiedKeys : Verify(key) \/ Unverify(key)
             \/ UNCHANGED <<configVars, auth_logs, sessions>> /\ verified' = {}
             \/ UNCHANGED aaaVars
    <2>1. UNCHANGED <<users, devices, guests, policies, nas, auth_logs, sessions>> /\ verified' \subseteq VerifiedKeys
      BY <1>4, Zenon DEF Verify, Unverify, configVars, aaaVars, ServiceInv
    <2> QED
      BY <2>1, Zenon DEF ServiceInv, TablesTyped
  <1>5. CASE WorldChanges
    BY <1>5, WorldTyped, Zenon
  <1>6. CASE \E ps \in Tables : save_policies(ps)
    <2>1. UNCHANGED <<users, devices, guests, nas, auth_logs, sessions, verified>> /\ policies' \in Tables
      BY <1>6, Zenon DEF save_policies, logVars
    <2> QED
      BY <2>1, Zenon DEF ServiceInv, TablesTyped
  <1>7. CASE \E c \in Clients : \E row \in NasRows[c] \cup {None} : save_nas(c, row)
    <2>0. PICK c \in Clients : \E row \in NasRows[c] \cup {None} : save_nas(c, row)
      BY <1>7, Zenon
    <2>1. PICK row \in NasRows[c] \cup {None} : save_nas(c, row)
      BY <2>0, Zenon
    <2>2. UNCHANGED <<users, devices, guests, policies, auth_logs, sessions, verified>> /\ nas' = [nas EXCEPT ![c] = row]
      BY <2>1, Zenon DEF save_nas, logVars
    <2>3. nas' = [d \in Clients |-> nas'[d]] /\ \A d \in Clients : nas'[d] \in NasRows[d] \cup {None}
      BY <2>2, Zenon DEF ServiceInv, TablesTyped
    <2> QED
      BY <2>2, <2>3, Zenon DEF ServiceInv, TablesTyped
  <1> QED
    BY <1>1, <1>2, <1>3, <1>4, <1>5, <1>6, <1>7, Zenon DEF AAANext

\* The invariant implies the type invariant.
LEMMA ServiceTypes == ServiceInv => AAATypeOK
  <1> SUFFICES ASSUME ServiceInv PROVE AAATypeOK
    BY Zenon
  <1>1. DOMAIN sessions = Keys
    BY Zenon DEF ServiceInv
  <1> QED
    BY <1>1, Zenon DEF ServiceInv, TablesTyped, TypedRow, AAATypeOK

\* What authorize() and accounting() store, whatever arrives in which order: only
\* accepts of known clients and methods are looked up later, and a session has a
\* decision exactly if it has the method the decision was taken for.
THEOREM ServiceTyped == AAASpec => []AAATypeOK
  <1>1. ServiceInv /\ [AAANext]_aaaVars => ServiceInv'
    BY ServiceNextInv, Zenon
  <1> QED
    BY <1>1, ServiceInitInv, ServiceTypes, PTL DEF AAASpec

---------------------------------------------------------------------------
(* authorize() and reevaluate() decide alike.                              *)

\* The last element of a sequence is the one appended to it.
LEMMA AppendedIsLast ==
  ASSUME NEW P, NEW rest \in Seq(P), NEW new \in P
  PROVE  LET log == Append(rest, new)
         IN  DOMAIN log = 1..Len(log) /\ Len(log) \in Nat /\ Len(log) \in DOMAIN log /\ log[Len(log)] = new
  OBVIOUS

\* The accept is of the station, or of the user if the station is unknown, at the
\* address or its network client.
Answers(accept, ip, mac, username) ==
    /\ accept.ip = ip \/ (FindNas(ip) # None /\ nas[FindNas(ip)].network /\ accept.client = FindNas(ip))
    /\ IF mac # None THEN accept.mac = mac ELSE username # None /\ accept.username = username

\* _latest_accept() returns the newest accept, if it answers.
LEMMA NewestIsFound ==
  ASSUME NEW rest \in Seq(LogRows), NEW new \in LogRows, NEW ip, NEW mac, NEW username, Answers(new, ip, mac, username)
  PROVE  latest_accept(Append(rest, new), ip, mac, username) = new
  <1>1. PICK log : log = Append(rest, new)
    BY Zenon
  <1>2. DOMAIN log = 1..Len(log) /\ Len(log) \in Nat /\ Len(log) \in DOMAIN log /\ log[Len(log)] = new
    BY <1>1, AppendedIsLast
  <1>3. PICK hits : hits = {i \in DOMAIN log : Answers(log[i], ip, mac, username)}
    BY Zenon
  <1>4. Len(log) \in hits /\ hits \in SUBSET (1..Len(log))
    BY <1>2, <1>3
  <1>5. PICK last : last = CHOOSE i \in hits : \A j \in hits : j <= i
    BY Zenon
  <1>6. last = Len(log)
    <2>1. \A j \in hits : j <= Len(log)
      BY <1>2, <1>4
    <2>2. last \in hits /\ \A j \in hits : j <= last
      BY <1>4, <1>5, <2>1, Zenon
    <2>3. last \in Int /\ Len(log) \in Int /\ last <= Len(log) /\ Len(log) <= last
      BY <1>2, <1>4, <2>1, <2>2
    <2>4. \A m, n \in Int : m <= n /\ n <= m => m = n
      OBVIOUS
    <2> QED
      BY <2>3, <2>4, Zenon
  <1>7. latest_accept(log, ip, mac, username) = log[last]
    BY <1>3, <1>4, <1>5, Zenon DEF latest_accept, Answers
  <1> QED
    BY <1>1, <1>2, <1>6, <1>7, Zenon

\* The row a record of the session leaves right after an accept: the method, the
\* decision and the name are the accept's.
LEMMA FreshRow ==
  ASSUME ServiceInv, NEW req \in Requests, NEW rec \in Records, accepted(Decision(req)), NEW row,
         row = Updated(rec, Logged(LogRow(req, Decision(req)))), SessionOf(rec, req, row)
  PROVE  /\ row.mac = req.mac /\ row.ssid = req.ssid /\ row.method = req.method
         /\ row.digest = digest(Decision(req)) /\ FindNas(rec.ip) = FindNas(req.ip)
         /\ Identity(req) # None => row.username = Identity(req)
  <1>1. PICK new : new = LogRow(req, Decision(req)) /\ new \in LogRows
    BY LogRowTyped, Zenon DEF ServiceInv
  <1>2. /\ new.ip = req.ip /\ new.client = FindNas(req.ip) /\ new.mac = req.mac /\ new.username = Identity(req)
        /\ new.method = req.method /\ new.digest = digest(Decision(req)) /\ new.client \in Clients
    BY <1>1 DEF LogRow, LogRows
  <1>3. PICK rest \in Seq(LogRows) : Logged(new) = Append(rest, new)
    BY LoggedEnds, Zenon DEF ServiceInv
  <1>4. PICK mac : mac = Or(rec.mac, Stored(rec).mac)
    BY Zenon
  <1>5. row.mac = mac
    BY <1>4, Zenon DEF Updated
  <1>6. mac = req.mac /\ (mac = None => rec.user = Identity(req)) /\ row.mac = req.mac /\ row.ssid = req.ssid
    BY <1>5, Zenon DEF SessionOf
  <1>7. FindNas(req.ip) # None /\ (req.method = "MAB" => req.mac # None)
    BY AcceptTyped, Zenon DEF ServiceInv, TablesTyped, Refused
  <1>8. /\ rec.ip = req.ip \/ (FindNas(rec.ip) = FindNas(req.ip) /\ nas[FindNas(req.ip)].network)
        /\ FindNas(rec.ip) = FindNas(req.ip)
    BY Zenon DEF SessionOf
  <1>9. Identity(req) # None \/ req.method = "MAB"
    <2>1. ~accepted(deny)
      BY DEF accepted, deny
    <2>2. ~HardRule(req.method, Identity(req), IF Identity(req) = None THEN None ELSE users[Identity(req)],
                    IF req.mac = None THEN None ELSE see_device(req)[req.mac])
      BY <2>1, Zenon DEF Decision
    <2> QED
      BY <2>2, Zenon DEF HardRule
  <1>10. Answers(new, rec.ip, mac, rec.user)
    BY <1>2, <1>6, <1>7, <1>8, <1>9, Zenon DEF Answers
  <1>11. latest_accept(Logged(new), rec.ip, mac, rec.user) = new
    <2>1. new \in LogRows
      BY <1>1, Zenon
    <2>2. latest_accept(Append(rest, new), rec.ip, mac, rec.user) = new
      BY <1>10, <2>1, NewestIsFound
    <2> QED
      BY <1>3, <2>2, Zenon
  <1>12. new # None
    BY <1>1, NoneAssumption, Zenon
  <1>13. row.method = new.method /\ row.digest = new.digest /\ row.username = Or(new.username, Stored(rec).username)
    BY <1>1, <1>4, <1>11, <1>12, Zenon DEF Updated
  <1> QED
    BY <1>2, <1>6, <1>8, <1>13, Zenon DEF Or

\* What authorize() accepts, reevaluate() accepts with the same reply on the row
\* that accounting() stores for it, in whatever state the tables are.
LEMMA AcceptedAgain == ServiceInv => FreshAcceptStays
  <1> SUFFICES ASSUME ServiceInv, Loads(policies), NEW req \in Requests, NEW rec \in Records, accepted(Decision(req)),
                      NEW row, row = Updated(rec, Logged(LogRow(req, Decision(req)))), SessionOf(rec, req, row),
                      req.method = "MAB" => row.username \notin Users \/ users[row.username] = None
               PROVE  ~changed(Redecide(Key(rec), row, policies, users, see_device(req), guests), row.digest)
    BY Zenon DEF FreshAcceptStays
  <1>1. PICK username, user, device :
           /\ username = Identity(req) /\ user = IF username = None THEN None ELSE users[username]
           /\ device = IF req.mac = None THEN None ELSE see_device(req)[req.mac]
    BY Zenon
  <1>2. PICK ctx : ctx = AuthContext(req.method, username, user, req.mac, device, guest_active(req.mac),
                                     FindNas(req.ip), req.ssid)
    BY Zenon
  <1>3. ~HardRule(req.method, username, user, device) /\ Decision(req) = decide(policies, ctx)
    <2>1. ~accepted(deny)
      BY DEF accepted, deny
    <2> QED
      BY <1>1, <1>2, <2>1, Zenon DEF Decision, evaluate
  <1>4. /\ row.mac = req.mac /\ row.ssid = req.ssid /\ row.method = req.method
        /\ row.digest = digest(Decision(req)) /\ FindNas(rec.ip) = FindNas(req.ip)
        /\ username # None => row.username = username
    BY <1>1, FreshRow, Zenon
  <1>5. Key(rec)[1] = rec.ip
    BY DEF Key
  <1>6. PICK owner : owner = IF row.username \in Users THEN users[row.username] ELSE None
    BY Zenon
  <1>7. owner = user
    <2>1. CASE req.method = "MAB"
      BY <1>1, <1>6, <2>1, Zenon DEF Identity
    <2>2. CASE req.method # "MAB"
      <3>1. username # None
        BY <1>3, <2>2, Zenon DEF HardRule
      <3> QED
        BY <1>1, <1>4, <1>6, <3>1, Zenon DEF Identity
    <2> QED
      BY <2>1, <2>2, Zenon
  <1>8. AuthContext(row.method, row.username, owner, row.mac, device, guest_active(req.mac), FindNas(rec.ip), row.ssid) = ctx
    <2>1. req.method # "MAB" => row.username = username
      BY <1>3, <1>4, Zenon DEF HardRule
    <2> QED
      BY <1>2, <1>4, <1>7, <2>1, Zenon DEF AuthContext
  <1>9. ~HardRule(row.method, row.username, owner, device)
    BY <1>3, <1>4, <1>7, Zenon DEF HardRule
  <1>10. Redecide(Key(rec), row, policies, users, see_device(req), guests) = decide(policies, ctx)
    BY <1>1, <1>4, <1>5, <1>6, <1>8, <1>9, Zenon DEF Redecide, guest_active
  <1> QED
    BY <1>3, <1>4, <1>10, Zenon DEF changed

\* Re-evaluation disconnects no session just accepted: for all tables, requests
\* and records, whatever row the session had before.
THEOREM NothingJustAcceptedIsCut == AAASpec => []FreshAcceptStays
  <1>1. ServiceInv /\ [AAANext]_aaaVars => ServiceInv'
    BY ServiceNextInv, Zenon
  <1> QED
    BY <1>1, ServiceInitInv, AcceptedAgain, PTL DEF AAASpec

---------------------------------------------------------------------------
(* The service inside Enforcement.                                         *)

\* Every step of Enforcement is a transaction of the service, or leaves its tables
\* alone; a restart forgets the verified passwords besides.
LEMMA StepsOfTheService ==
  ASSUME [Next]_vars
  PROVE  [AAANext]_aaaVars \/ (UNCHANGED <<configVars, auth_logs, sessions>> /\ verified' = {})
  <1>1. CASE change_world
    BY <1>1, Zenon DEF change_world, AAANext, WorldChanges
  <1>2. CASE change_policies \/ change_nas \/ add_user \/ change_groups \/ log_ages
    BY <1>2, Zenon DEF change_policies, change_nas, add_user, change_groups, log_ages, AAANext, WorldChanges
  <1>3. CASE restart
    BY <1>3, Zenon DEF restart
  <1>4. CASE \/ \E c \in Change : schedule(c)
             \/ run_woken \/ run_take \/ run_read_policies \/ run_skip \/ run_no_sessions
             \/ run_read_world \/ run_finish \/ run_fails
    BY <1>4, Zenon DEF schedule, run_woken, run_take, run_read_policies, run_skip, run_no_sessions, run_read_world,
       run_finish, run_fails
  <1>5. CASE \E k \in Keys : \/ run_send(k) \/ operator_asks(k) \/ operator_disconnect(k)
                             \/ interim(k) \/ leave(k)
    BY <1>5, Zenon DEF run_send, operator_asks, operator_disconnect, interim, leave
  <1>6. CASE \E k \in Keys : prune(k) \/ \E req \in Requests : access(k, req)
    BY <1>6, Zenon DEF prune, access, AAANext
  <1>7. CASE \E rec \in Records : deliver(rec) \/ lose(rec)
    BY <1>7, Zenon DEF deliver, lose, AAANext
  <1>8. CASE UNCHANGED vars
    BY <1>8, Zenon DEF vars
  <1> QED
    BY <1>1, <1>2, <1>3, <1>4, <1>5, <1>6, <1>7, <1>8, Zenon DEF Next

\* A session that is up was opened by a request at its NAS.
Opened(k, session) ==
    \E req \in Requests :
        req.ip = k[1] /\ session.mac = req.mac /\ session.name = req.name /\ session.ssid = req.ssid

RunTyped ==
    /\ rows = [k \in Keys |-> rows[k]] /\ verdict = [k \in Keys |-> verdict[k]]
    /\ todo \subseteq {k \in Keys : verdict[k] = "cut"} /\ asked \subseteq Keys

NasTyped ==
    /\ live = [k \in Keys |-> live[k]] /\ \A k \in Keys : Up(k) => Opened(k, live[k])
    /\ acct \subseteq Records

\* The records of a session that is up are among those the service expects.
LEMMA RecordTyped ==
  ASSUME NasTyped, NEW k \in Keys, Up(k)
  PROVE  Record("stop", k) \in Records /\ Record("update", k) \in Records
  <1>1. PICK req \in Requests :
           req.ip = k[1] /\ live[k].mac = req.mac /\ live[k].name = req.name /\ live[k].ssid = req.ssid
    BY Zenon DEF NasTyped, Opened
  <1>2. k[2] \in Sids
    BY DEF Keys
  <1>3. "stop" \in {"update", "stop"} /\ "update" \in {"update", "stop"}
    BY Zenon
  <1> QED
    BY <1>1, <1>2, <1>3, RecordsOfSessions, Zenon DEF Record

\* A session ends and its stop is on its way.
LEMMA EndedTyped ==
  ASSUME NasTyped, NEW k \in Keys, Up(k), live' = [live EXCEPT ![k] = Closed], acct' = acct \cup {Record("stop", k)}
  PROVE  NasTyped'
  <1>1. Record("stop", k) \in Records
    BY RecordTyped, Zenon
  <1>2. live' = [j \in Keys |-> live'[j]] /\ \A j \in Keys : live'[j] = IF j = k THEN Closed ELSE live[j]
    BY Zenon DEF NasTyped
  <1> QED
    BY <1>1, <1>2, Zenon DEF NasTyped, Up

\* A station asks to join: the session follows the answer, unless it is lost.
LEMMA AccessTyped ==
  ASSUME NasTyped, NEW k \in Keys, NEW req \in Requests, access(k, req)
  PROVE  NasTyped'
  <1>1. CASE UNCHANGED nasVars
    BY <1>1, Zenon DEF nasVars, NasTyped, Up
  <1>2. CASE Up(k) /\ live' = [live EXCEPT ![k] = Closed] /\ acct' = acct \cup {Record("stop", k)}
    BY <1>2, EndedTyped, Zenon
  <1>3. CASE /\ live' = [live EXCEPT ![k] = [mac |-> req.mac, name |-> req.name, ssid |-> req.ssid,
                                             method |-> req.method, digest |-> digest(Decision(req))]]
             /\ acct' = acct \cup {[status |-> "update", ip |-> k[1], sid |-> k[2], mac |-> req.mac, user |-> req.name,
                                    ssid |-> req.ssid]}
    <2>1. PICK session : session = [mac |-> req.mac, name |-> req.name, ssid |-> req.ssid, method |-> req.method,
                                    digest |-> digest(Decision(req))]
      BY Zenon
    <2>2. session.mac = req.mac /\ session.name = req.name /\ session.ssid = req.ssid
      BY <2>1
    <2>3. k[1] = req.ip /\ k[2] \in Sids
      BY DEF access, Keys
    <2>4. Opened(k, session)
      BY <2>2, <2>3, Zenon DEF Opened
    <2>5. live' = [j \in Keys |-> live'[j]] /\ \A j \in Keys : live'[j] = IF j = k THEN session ELSE live[j]
      BY <1>3, <2>1, Zenon DEF NasTyped
    <2>6. acct' \subseteq Records
      <3>1. "update" \in {"update", "stop"}
        BY Zenon
      <3> QED
        BY <1>3, <2>3, <3>1, RecordsOfSessions, Zenon DEF NasTyped
    <2> QED
      BY <2>4, <2>5, <2>6, Zenon DEF NasTyped, Up
  <1> QED
    BY <1>1, <1>2, <1>3, Zenon DEF access

\* NASes: sessions open, report, end; records arrive and get lost.
LEMMA NasNextTyped ==
  ASSUME NasTyped, [Next]_vars
  PROVE  NasTyped'
  <1>1. CASE UNCHANGED nasVars
    BY <1>1, Zenon DEF nasVars, NasTyped, Up
  <1>2. CASE \E k \in Keys : run_send(k) \/ operator_disconnect(k) \/ leave(k)
    <2>1. PICK k \in Keys : Disconnect(k)
      BY <1>2, Zenon DEF run_send, operator_disconnect, leave, Disconnect
    <2> QED
      BY <1>1, <2>1, EndedTyped, Zenon DEF Disconnect
  <1>3. CASE \E k \in Keys : interim(k)
    <2>1. PICK k \in Keys : Up(k) /\ acct' = acct \cup {Record("update", k)} /\ live' = live
      BY <1>3, Zenon DEF interim
    <2>2. Record("update", k) \in Records
      BY <2>1, RecordTyped, Zenon
    <2> QED
      BY <2>1, <2>2, Zenon DEF NasTyped, Up
  <1>4. CASE \E rec \in Records : deliver(rec) \/ lose(rec)
    <2>1. live' = live /\ acct' \subseteq acct
      BY <1>4, Zenon DEF deliver, lose
    <2> QED
      BY <2>1, Zenon DEF NasTyped, Up
  <1>5. CASE \E k \in Keys : \E req \in Requests : access(k, req)
    BY <1>5, AccessTyped, Zenon
  <1>6. CASE change_world \/ change_policies \/ change_nas \/ add_user \/ change_groups \/ log_ages \/ restart
    BY <1>1, <1>6, Zenon DEF change_world, change_policies, change_nas, add_user, change_groups, log_ages, restart
  <1>7. CASE \/ \E c \in Change : schedule(c)
             \/ run_woken \/ run_take \/ run_read_policies \/ run_skip \/ run_no_sessions
             \/ run_read_world \/ run_finish \/ run_fails
    BY <1>1, <1>7, Zenon DEF schedule, run_woken, run_take, run_read_policies, run_skip, run_no_sessions,
       run_read_world, run_finish, run_fails
  <1>8. CASE (\E k \in Keys : operator_asks(k) \/ prune(k)) \/ UNCHANGED vars
    BY <1>1, <1>8, Zenon DEF operator_asks, prune, vars
  <1> QED
    BY <1>2, <1>3, <1>4, <1>5, <1>6, <1>7, <1>8, Zenon DEF Next

\* A run's targets are sessions it has decided to disconnect.
LEMMA RunNextTyped ==
  ASSUME RunTyped, [Next]_vars
  PROVE  RunTyped'
  <1>1. CASE UNCHANGED <<rows, verdict>> /\ todo' \subseteq todo /\ asked' \subseteq Keys
    BY <1>1, Zenon DEF RunTyped
  <1>2. CASE UNCHANGED <<rows, todo, asked>> /\ \E ks : Outdate(ks)
    <2>1. /\ verdict' = [k \in Keys |-> verdict'[k]]
          /\ \A k \in Keys : verdict[k] = "cut" => verdict'[k] = "cut"
      <3>1. "cut" # "keep"
        OBVIOUS
      <3> QED
        BY <1>2, <3>1, Zenon DEF Outdate
    <2> QED
      BY <1>2, <2>1, Zenon DEF RunTyped
  <1>3. CASE run_read_policies
    BY <1>3, Zenon DEF run_read_policies, RunTyped
  <1>4. CASE run_read_world
    BY <1>4, Zenon DEF run_read_world, RunTyped
  <1>5. CASE run_finish \/ run_fails \/ restart
    <2>1. EndRun /\ asked' \subseteq asked
      BY <1>5, Zenon DEF run_finish, run_fails, restart
    <2> QED
      BY <2>1, Zenon DEF EndRun, NoRows, NoVerdict, RunTyped
  <1>6. CASE change_nas \/ add_user \/ change_groups \/ \E k \in Keys : \E req \in Requests : access(k, req)
    BY <1>2, <1>6, Zenon DEF change_nas, add_user, change_groups, access
  <1>7. CASE change_world \/ change_policies \/ (\E c \in Change : schedule(c))
             \/ run_woken \/ run_take \/ run_skip \/ run_no_sessions \/ log_ages \/ UNCHANGED vars
    <2>1. UNCHANGED runVars
      BY <1>7, Zenon DEF change_world, change_policies, schedule, run_woken, run_take, run_skip, run_no_sessions,
         log_ages, vars
    <2> QED
      BY <1>1, <2>1, Zenon DEF runVars, RunTyped
  <1>8. CASE \E k \in Keys : run_send(k) \/ operator_asks(k) \/ operator_disconnect(k)
    <2>1. UNCHANGED <<rows, verdict>> /\ todo' \subseteq todo /\ asked' \subseteq asked \cup Keys
      BY <1>8, Zenon DEF run_send, operator_asks, operator_disconnect
    <2> QED
      BY <1>1, <2>1, Zenon DEF RunTyped
  <1>9. CASE \/ \E k \in Keys : interim(k) \/ leave(k) \/ prune(k)
             \/ \E rec \in Records : deliver(rec) \/ lose(rec)
    <2>1. UNCHANGED <<rows, verdict, todo, asked>>
      BY <1>9, Zenon DEF interim, leave, prune, deliver, lose, runVars
    <2> QED
      BY <1>1, <2>1, Zenon DEF RunTyped
  <1> QED
    BY <1>3, <1>4, <1>5, <1>6, <1>7, <1>8, <1>9, Zenon DEF Next

\* The composition keeps the types of its parts: a run's targets are sessions it
\* has decided on, and NASes send only records accounting() can read.
THEOREM EnforcementTyped == Spec => []EnforcementTypeOK
  <1>1. Init => ServiceInv /\ RunTyped /\ NasTyped
    <2> SUFFICES ASSUME Init PROVE ServiceInv /\ RunTyped /\ NasTyped
      BY Zenon
    <2>1. ServiceInv
      BY ServiceInitInv, Zenon DEF Init
    <2>2. RunTyped
      BY Zenon DEF Init, RunTyped, NoRows, NoVerdict
    <2>3. NasTyped
      BY Zenon DEF Init, NasTyped, NoRows, Up
    <2> QED
      BY <2>1, <2>2, <2>3, Zenon
  <1>2. ServiceInv /\ RunTyped /\ NasTyped /\ [Next]_vars => (ServiceInv /\ RunTyped /\ NasTyped)'
    BY StepsOfTheService, ServiceNextInv, RunNextTyped, NasNextTyped, Zenon
  <1>3. EnforcementInv /\ ServiceInv /\ RunTyped /\ NasTyped => EnforcementTypeOK
    <2> SUFFICES ASSUME EnforcementInv, ServiceInv, RunTyped, NasTyped PROVE EnforcementTypeOK
      BY Zenon
    <2>1. AAATypeOK
      BY ServiceTypes, Zenon
    <2>2. LoopTypeOK /\ verdict \in [Keys -> Verdicts] /\ judged \in [Keys -> Verdicts]
      BY Zenon DEF EnforcementInv, LoopInv, RowsTyped
    <2>3. DOMAIN rows = Keys /\ DOMAIN live = Keys
      BY Zenon DEF RunTyped, NasTyped
    <2> QED
      BY <2>1, <2>2, <2>3, Zenon DEF RunTyped, NasTyped, EnforcementTypeOK
  <1> QED
    BY <1>1, <1>2, <1>3, EnforcementInvariant, PTL DEF Spec

\* Nor does it while changes are enforced and NASes report.
THEOREM NothingJustAcceptedIsCutWhileEnforcing == Spec => []FreshAcceptStays
  <1>1. Init => ServiceInv
    BY ServiceInitInv, Zenon DEF Init
  <1>2. ServiceInv /\ [Next]_vars => ServiceInv'
    BY StepsOfTheService, ServiceNextInv, Zenon
  <1> QED
    BY <1>1, <1>2, AcceptedAgain, PTL DEF Spec

\* The context of a session is its own also while changes are enforced.
THEOREM ContextIsOwnWhileEnforcing == OneStationPerSession /\ Spec => []ContextFromOwnAccept
  <1>1. ContextInv => ContextFromOwnAccept
    BY Zenon DEF ContextInv, OwnContext, ContextFromOwnAccept
  <1>2. ASSUME OneStationPerSession PROVE Spec => []ContextInv
    <2>1. ASSUME ContextInv, [Next]_vars PROVE ContextInv'
      <3>1. CASE [AAANext]_aaaVars
        BY <1>2, <2>1, <3>1, ContextNextInv, Zenon
      <3>2. CASE UNCHANGED <<configVars, auth_logs, sessions>>
        BY <2>1, <3>2, Zenon DEF configVars, ContextInv
      <3> QED
        BY <2>1, <3>1, <3>2, StepsOfTheService, Zenon
    <2>2. Init => ContextInv
      BY ContextInitInv, Zenon DEF Init
    <2> QED
      BY <2>1, <2>2, PTL DEF Spec
  <1>3. ASSUME OneStationPerSession PROVE Spec => []ContextFromOwnAccept
    BY <1>1, <1>2, <1>3, PTL
  <1> QED
    BY <1>3, Zenon
============================================================================
