--------------------------- MODULE MCEnforcement ---------------------------
(***************************************************************************)
(* Enforcement with one station and one user behind one NAS.               *)
(***************************************************************************)
EXTENDS Enforcement

MCUsers == {"alice"}
MCMacs == {"m1"}
MCClients == {"switch"}
MCIps == {"sw"}
MCSsids == {"corp"}
MCUserRows == {[enabled |-> TRUE, group |-> "staff"], [enabled |-> FALSE, group |-> "staff"],
               [enabled |-> TRUE, group |-> "visitors"], [enabled |-> TRUE, group |-> None]}
MCNasRows == [c \in MCClients |-> {[addresses |-> {"sw"}, network |-> FALSE, enabled |-> TRUE]}]

Permit(id, priority, field, values, reply, ok) ==
    [id |-> id, priority |-> priority, enabled |-> TRUE, valid |-> ok, action |-> "PERMIT", reply |-> reply,
     conditions |-> {[op |-> "in", field |-> field, values |-> values]}]

Staff == Permit(1, 10, "group", {"staff"}, "v20", TRUE)
Approved == Permit(2, 20, "device_status", {"approved"}, "v30", TRUE)
ApprovedFirst == Permit(2, 5, "device_status", {"approved"}, "v30", TRUE)
PendingFirst == Permit(4, 4, "device_status", {"pending"}, "v99", TRUE)
Broken == Permit(3, 30, "device_status", {"guest"}, "v99", FALSE)

MCTables == {{Staff, Approved}, {Staff, ApprovedFirst, PendingFirst}, {Staff, Broken}}

MCRequests == {[method |-> "EAP-TLS", ip |-> "sw", mac |-> "m1", name |-> "alice", ssid |-> "corp"]}
MCRecords == [status : {"update", "stop"}, ip : MCIps, sid : Sids, mac : MCMacs, user : MCUsers, ssid : MCSsids]

\* The operator disconnects sessions while the re-evaluation task waits.  The user
\* leaves the staff only while there is no operator and no guest, the client is
\* there and the policies are those of the start.
StaffOnly == \A u \in Users : users[u] # None => users[u].group = "staff"
Bound ==
    /\ asked # {} => loop = "wait"
    /\ StaffOnly \/ (/\ asked = {} /\ committed \cap PolicyChange = {} /\ Loads(policies)
                    /\ \A c \in Clients : nas[c] # None
                    /\ \A m \in Macs : guests[m] = 0)
MCNext == Next /\ Bound'
MCSpec == Init /\ [][MCNext]_vars
============================================================================
