----------------------------- MODULE Simulator -----------------------------
(***************************************************************************)
(* POST /policies/simulate (naco/api/routes/policies.py) beside the real   *)
(* authorization, on the same tables.                                      *)
(***************************************************************************)
EXTENDS AAA

\* Mutant of simulate: registrations are left out of the imagined request.
simulate_without_guests(req) ==
    LET username == Identity(req)
        user == IF username = None THEN None ELSE users[username]
        device == IF req.mac = None THEN None ELSE devices[req.mac]
    IN  CASE ~Loads(policies) -> None
          [] Loads(policies) /\ HardRule(req.method, username, user, device) -> deny
          [] OTHER -> decide(policies, AuthContext(req.method, username, user, req.mac, device,
                                                   FALSE, FindNas(req.ip), req.ssid))

\* The answer for the imagined request: None when the policies do not load
\* (409), else the decision on what the tables say of it, writing nothing.
simulate(req) ==
    LET username == Identity(req)
        user == IF username = None THEN None ELSE users[username]
        device == IF req.mac = None THEN None ELSE devices[req.mac]
    IN  CASE ~Loads(policies) -> None
          [] Loads(policies) /\ HardRule(req.method, username, user, device) -> deny
          [] OTHER -> decide(policies, AuthContext(req.method, username, user, req.mac, device,
                                                   guest_active(req.mac), FindNas(req.ip), req.ssid))

---------------------------------------------------------------------------
\* What a simulation can be compared with: policies that load, a well-formed
\* request and, for a password method, a password that has been verified.
Comparable(req) ==
    /\ req.method # None /\ FindNas(req.ip) # None /\ Loads(policies)
    /\ req.method = "MAB" => req.mac # None /\ req.name = req.mac
    /\ req.method \in PASSWORD_METHODS => VerifiedKey(Identity(req), req) \in verified

ClientEnabled(req) == nas[FindNas(req.ip)].enabled
StationKnown(req) == req.mac # None => devices[req.mac] # None

\* "What would happen if this request arrived now (read-only)", where it holds:
\* for a station NACo has seen, behind an enabled client, simulate() gives the
\* decision authorize() takes, though the two are written apart, one reading and
\* one writing the tables.
SimulatorAgrees ==
    \A req \in Requests :
        Comparable(req) /\ ClientEnabled(req) /\ StationKnown(req) => simulate(req) = Decision(req)
============================================================================
