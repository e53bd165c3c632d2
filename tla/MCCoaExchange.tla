--------------------------- MODULE MCCoaExchange ---------------------------
(***************************************************************************)
(* Two exchanges with a NAS where a station has joined twice.  The gate    *)
(* lets one in at a time: the second waits for it, opens the port of the   *)
(* first again and hears its late answers.                                 *)
(***************************************************************************)
EXTENDS CoaExchange

Joined(n) ==
    [acct_session_id |-> n, user_name |-> "alice", calling_station_id |-> "m1", audit_session_id |-> n,
     nas_ip_address |-> "sw", nas_identifier |-> "switch"]
MCSessionIds == [s \in Sessions |-> Joined(s)]
MCReported == {"acct_session_id", "user_name", "calling_station_id", "nas_ip_address"}
============================================================================
