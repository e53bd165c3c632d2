----------------------------- MODULE Disconnect -----------------------------
(***************************************************************************)
(* What disconnecting sessions promises to its callers, whatever becomes   *)
(* of the packets: a NAS ends only sessions it was asked to end, every     *)
(* request comes back with one outcome, and an ACK tells the truth.        *)
(***************************************************************************)
EXTENDS FiniteSets

CONSTANTS
    Exchanges,  \* requests to disconnect
    Sessions,   \* sessions of the NAS
    Outcomes,   \* what a request can come back with, "ack" among them
    None

VARIABLES
    up,       \* sessions that are up
    ended,    \* sessions the NAS has ended on request
    meant,    \* for each request, the sessions it asks to end
    outcome   \* for each request: None, then "pending", then what it came back with

promiseVars == <<up, ended, meant, outcome>>

PromiseInit ==
    /\ up = {} /\ ended = {}
    /\ meant = [x \in Exchanges |-> {}]
    /\ outcome = [x \in Exchanges |-> None]

\* A station joins or leaves.
Opens(s) == up' = up \cup {s} /\ UNCHANGED <<ended, meant, outcome>>
Leaves(s) == s \in up /\ up' = up \ {s} /\ UNCHANGED <<ended, meant, outcome>>

Asks(x) ==
    /\ outcome[x] = None
    /\ outcome' = [outcome EXCEPT ![x] = "pending"]
    /\ \E asked \in SUBSET Sessions : meant' = [meant EXCEPT ![x] = asked]
    /\ UNCHANGED <<up, ended>>

\* The NAS does as it is told, at any time from then on.
Ends(x) ==
    /\ meant[x] \cap up # {}
    /\ up' = up \ meant[x]
    /\ ended' = ended \cup (meant[x] \cap up)
    /\ UNCHANGED <<meant, outcome>>

Returns(x) ==
    /\ outcome[x] = "pending"
    /\ \E o \in Outcomes :
          /\ o = "ack" => meant[x] \cap ended # {}
          /\ outcome' = [outcome EXCEPT ![x] = o]
    /\ UNCHANGED <<up, ended, meant>>

PromiseNext ==
    \/ \E s \in Sessions : Opens(s) \/ Leaves(s)
    \/ \E x \in Exchanges : Asks(x) \/ Ends(x) \/ Returns(x)

PromiseSafety == PromiseInit /\ [][PromiseNext]_promiseVars

Promise ==
    /\ PromiseSafety
    /\ \A x \in Exchanges : WF_promiseVars(Returns(x))
=============================================================================
