---------------------------- MODULE MCSimulator ----------------------------
(***************************************************************************)
(* One user, one station, one RADIUS client that may be disabled or gone,  *)
(* and policies for staff, pending devices, guests and a wireless network. *)
(***************************************************************************)
EXTENDS Simulator

MCUsers == {"alice"}
MCMacs == {"m1"}
MCClients == {"switch"}
MCIps == {"sw"}
MCSsids == {"corp"}
MCUserRows == {[enabled |-> TRUE, group |-> "staff"], [enabled |-> FALSE, group |-> "staff"],
               [enabled |-> TRUE, group |-> "visitors"], [enabled |-> TRUE, group |-> None]}
MCNasRows == [c \in MCClients |-> {[addresses |-> {"sw"}, network |-> FALSE, enabled |-> e] : e \in BOOLEAN}]

Rule(id, priority, op, field, values, action, reply, ok) ==
    [id |-> id, priority |-> priority, enabled |-> TRUE, valid |-> ok, action |-> action, reply |-> reply,
     conditions |-> {[op |-> op, field |-> field, values |-> values]}]

Staff == Rule(1, 10, "in", "group", {"staff"}, "PERMIT", "v20", TRUE)
Pending == Rule(2, 20, "in", "device_status", {"pending"}, "PERMIT", "v99", TRUE)
Guests == Rule(3, 10, "in", "device_status", {"guest"}, "PERMIT", "v50", TRUE)
NoStrangers == Rule(4, 5, "not_in", "group", {"staff"}, "DENY", None, TRUE)
Corp == Rule(6, 30, "in", "ssid", {"corp"}, "PERMIT", "v60", TRUE)
Broken == Rule(5, 1, "always", "mac", {}, "PERMIT", "v1", FALSE)

MCTables == {{Staff, Pending, Guests, Corp}, {Staff, Guests, NoStrangers}, {Staff, Broken}}

MCRequests ==
    {[method |-> m, ip |-> "sw", mac |-> mac, name |-> "alice", ssid |-> "corp"] : m \in {"PEAP", "EAP-TLS"}, mac \in {"m1", None}}
    \cup {[method |-> "MAB", ip |-> "sw", mac |-> "m1", name |-> "m1", ssid |-> None]}
MCRecords == [status : {"update", "stop", "on"}, ip : MCIps, sid : {1}, mac : MCMacs, user : MCUsers,
              ssid : {None}]

\* Requests and records come in while the tables change; at most one accept
\* is within the 24 hours the records look back.
SimNext == AAANext /\ Len(auth_logs') <= 1
SimSpec == AAAInit /\ [][SimNext]_aaaVars
============================================================================
