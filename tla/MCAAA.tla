------------------------------- MODULE MCAAA -------------------------------
(***************************************************************************)
(* AAA with two access points that share one network client and a switch   *)
(* with an entry of its own, two wireless networks, a user with two        *)
(* devices, and accounting records that may be late, repeated, out of      *)
(* order or without a station and its network.                             *)
(***************************************************************************)
EXTENDS AAA

CONSTANTS MaxLog  \* bound on the accepts of the last 24 hours

MCUsers == {"alice"}
MCMacs == {"m1", "m2"}
MCClients == {"aps", "switch"}
MCIps == {"ap1", "ap2", "sw"}
MCSids == {1}
MCSsids == {"corp", "lab"}
MCUserRows == {[enabled |-> e, group |-> "staff"] : e \in BOOLEAN}
MCNasRows == [c \in MCClients |->
    IF c = "aps" THEN {[addresses |-> {"ap1", "ap2"}, network |-> TRUE, enabled |-> TRUE]}
    ELSE {[addresses |-> {"sw"}, network |-> FALSE, enabled |-> TRUE]}]

Row(id, field, values, reply) ==
    [id |-> id, priority |-> 10, enabled |-> TRUE, valid |-> TRUE, action |-> "PERMIT", reply |-> reply,
     conditions |-> {[op |-> "in", field |-> field, values |-> values]}]

MCTables == {{Row(1, "ssid", {"lab"}, "v40"), Row(2, "group", {"staff"}, "v20"),
              Row(3, "device_status", {"pending", "approved"}, "v99")}}

MCRequests ==
    {[method |-> "EAP-TLS", ip |-> at[1], mac |-> at[2], name |-> "alice", ssid |-> at[3]] :
        at \in {<<"ap1", "m1", "corp">>, <<"ap1", "m2", "lab">>, <<"sw", "m1", None>>}}
    \cup {[method |-> "MAB", ip |-> at[1], mac |-> "m1", name |-> "m1", ssid |-> at[2]] :
        at \in {<<"ap2", "corp">>, <<"sw", None>>}}
    \cup {[method |-> "PEAP", ip |-> "ap1", mac |-> None, name |-> "alice", ssid |-> "lab"],
          [method |-> "MAB", ip |-> "sw", mac |-> "m1", name |-> "m2", ssid |-> None],
          [method |-> None, ip |-> "sw", mac |-> "m2", name |-> None, ssid |-> None]}

\* The station of the session is m1; a record may leave it out, or its network.
MCRecords ==
    {[status |-> "update", ip |-> at[1], sid |-> 1, mac |-> at[2], user |-> "alice", ssid |-> at[3]] :
        at \in {<<"ap1", "m1", None>>, <<"ap1", None, None>>, <<"ap2", "m1", "corp">>, <<"sw", "m1", None>>,
                <<"sw", None, None>>}}
    \cup [status : {"stop"}, ip : {"ap2", "sw"}, sid : {1}, mac : {"m1"}, user : {"alice"}, ssid : {None}]
    \cup [status : {"on"}, ip : {"ap1"}, sid : {1}, mac : {None}, user : {None}, ssid : {None}]

ASSUME StationsAssumption == OneStationPerSession

MCInit == AAAInit

\* The steps of the AAA service alone, on tables that hold still.
ServiceSteps ==
    \/ \E req \in Requests : authorize(req)
    \/ \E rec \in Records : accounting(rec)
    \/ \E k \in Keys : PruneStale(k)
    \/ LogAges
    \/ \E key \in {<<"alice", "ap1", None>>} : Verify(key) \/ Unverify(key)
    \/ \E row \in UserRows : create_user("alice", row)

MCNext ==
    /\ ServiceSteps
    /\ Len(auth_logs') <= MaxLog

MCSpec == MCInit /\ [][MCNext]_aaaVars
============================================================================
