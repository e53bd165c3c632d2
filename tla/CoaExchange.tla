---------------------------- MODULE CoaExchange ----------------------------
(***************************************************************************)
(* The disconnects of a re-evaluation as packets (naco/radius/coa.py, with *)
(* the vendors of naco/radius/vendors.py and the gate of reevaluate()).    *)
(*                                                                         *)
(* Each exchange has a socket of its own, whose port is free again when it *)
(* is closed.  A request is sent up to Retries times, unchanged.  `net`    *)
(* holds every datagram ever sent: it may arrive at any later time, more   *)
(* than once, or never.  The bytes of a request are its identifier, its    *)
(* attributes and its timestamp; a Response Authenticator is the request   *)
(* it was computed over.                                                   *)
(***************************************************************************)
EXTENDS Naturals, FiniteSets

CONSTANTS
    None,
    Exchanges,    \* the targets of a run
    Sessions,     \* sessions of the NAS
    SessionIds,   \* what it reports of each
    Reported,     \* the fields that reach NACo's row of a session
    Vendor,       \* the vendors the NAS may be of
    Ports,        \* local ports
    Identifiers,  \* RADIUS identifiers (one random byte)
    Seconds,      \* values of time.time() a request may be built at
    Retries,      \* radius.coa_retries
    Concurrency   \* reevaluate(concurrency)

ASSUME Bounds == Retries \in Nat \ {0} /\ Concurrency \in Nat \ {0}
ASSUME NoneAssumption == None \notin {"ack", "nak", "timeout", "error", "pending"}

\* A NAS has an id for every session it reports one of, and never the same for two.
ASSUME SessionIdsDiffer ==
    \A f \in {"acct_session_id", "audit_session_id"} \cap Reported, s, t \in Sessions :
        SessionIds[s][f] # None /\ (SessionIds[s][f] = SessionIds[t][f] => s = t)

Outcomes == {"ack", "nak", "timeout", "error"}
SessionFields == {"acct_session_id", "user_name", "calling_station_id", "audit_session_id"}
NasFields == {"nas_ip_address", "nas_identifier"}

\* VENDORS: the attributes each kind of NAS accepts, and whether it takes an
\* Event-Timestamp.
VENDORS ==
    LET standard == [identify |-> {"acct_session_id", "user_name", "calling_station_id"} \cup NasFields,
                     event_timestamp |-> TRUE]
        station == [identify |-> {"calling_station_id", "nas_ip_address"}, event_timestamp |-> FALSE]
    IN  [standard |-> standard,
         cisco |-> [standard EXCEPT !.identify = SessionFields \ {"user_name"}],
         meraki |-> [station EXCEPT !.identify = @ \cup {"audit_session_id"}],
         aruba |-> [standard EXCEPT !.event_timestamp = FALSE],
         juniper |-> [identify |-> standard.identify \ {"nas_identifier"}, event_timestamp |-> FALSE],
         fortinet |-> [identify |-> station.identify \cup {"user_name"}, event_timestamp |-> TRUE],
         extreme |-> station,
         ruckus_icx |-> station]

VARIABLES
    nas,      \* the vendor of the NAS
    up,       \* NAS: sessions that are up
    ended,    \* NAS: sessions ended by a Disconnect-Request
    unused,   \* NAS: sessions yet to come
    ex,       \* the exchanges
    net       \* the datagrams sent so far

coaVars == <<nas, up, ended, unused, ex, net>>

\* An exchange: where disconnect() is, the packet and the port it goes out
\* from, the times it was sent, the future of _Exchange and the result.  The
\* sessions the packet speaks of (`meant`) are kept as history.
Idle == [st |-> "idle", session |-> None, packet |-> None, meant |-> {}, port |-> None, tries |-> 0,
         answer |-> None, outcome |-> None]

Open(x) == ex[x].st \in {"send", "wait"}
InGate(x) == ex[x].st = "open" \/ Open(x)

CoaTypeOK ==
    /\ nas \in Vendor
    /\ up \subseteq Sessions /\ ended \subseteq Sessions /\ unused \subseteq Sessions
    /\ \A x \in Exchanges :
          /\ ex[x].st \in {"idle", "open", "send", "wait", "done"}
          /\ ex[x].tries \in 0..Retries
          /\ ex[x].answer \in {None, "ack", "nak", "error"}
          /\ ex[x].outcome \in Outcomes \cup {None}
          /\ ex[x].st = "done" <=> ex[x].outcome # None
          /\ Open(x) => ex[x].port \in Ports
    /\ \A x, y \in Exchanges : Open(x) /\ Open(y) /\ ex[x].port = ex[y].port => x = y

CoaInit ==
    /\ nas \in Vendor
    /\ up = {} /\ ended = {} /\ unused = Sessions
    /\ ex = [x \in Exchanges |-> Idle]
    /\ net = {}

---------------------------------------------------------------------------
(* Requests and answers.                                                   *)

\* What NACo's row says of a session; a NAS address other than IPv4 counts as empty.
Row(s) == [f \in SessionFields \cup NasFields |-> IF f \in Reported THEN SessionIds[s][f] ELSE None]

\* Mutant of identity: the session id is left to the attributes of the station.
identity_of_station(row, wanted) ==
    [f \in {f \in wanted \ {"acct_session_id"} : row[f] # None} |-> row[f]]

\* _identity(): the attributes the vendor wants; empty ones are never sent.
identity(row, wanted) == [f \in {f \in wanted : row[f] # None} |-> row[f]]

\* build_disconnect()
build_disconnect(identifier, row, v, time) ==
    [id |-> identifier, attrs |-> identity(row, v.identify), stamp |-> IF v.event_timestamp THEN time ELSE None]

\* The sessions a request speaks of: all it carries agrees with what the NAS
\* itself reported of them.
Matching(packet) ==
    IF DOMAIN packet.attrs \cap SessionFields = {} THEN {}
    ELSE {s \in Sessions : \A f \in DOMAIN packet.attrs : SessionIds[s][f] = packet.attrs[f]}

\* Mutant of verify_response: the authenticator is not computed.
verify_response_by_identifier(request, response) == response.to.id = request.id

\* verify_response(): the identifier is the request's and the authenticator was
\* computed over this very request.
verify_response(request, response) == response.to.id = request.id /\ response.to = request

Request(x) == [kind |-> "request", to |-> ex[x].packet, port |-> ex[x].port, code |-> None]
Answer(m, code) == [kind |-> "answer", to |-> m.to, port |-> m.port, code |-> code]

---------------------------------------------------------------------------
(* disconnect(), one exchange.                                             *)

Set(x, new) == ex' = [ex EXCEPT ![x] = new] /\ UNCHANGED <<nas, up, ended, unused>>
\* disconnect() returns and closes its socket.
End(x, result) == Set(x, [ex[x] EXCEPT !.st = "done", !.outcome = result,
                                       !.port = None, !.tries = 0, !.answer = None])

\* Mutant of GateOpen: the slot of an exchange that failed is not given back.
GateOpenAfterAnswers ==
    Cardinality({y \in Exchanges : InGate(y) \/ ex[y].outcome \in {"timeout", "error"}}) < Concurrency

\* async with gate: a slot of the semaphore is free.
GateOpen == Cardinality({y \in Exchanges : InGate(y)}) < Concurrency

\* one(): the gate is passed and the packet is built.
begin(x) ==
    /\ ex[x].st = "idle" /\ GateOpen
    /\ \E s \in Sessions \ unused, i \in Identifiers, t \in Seconds :
          LET packet == build_disconnect(i, Row(s), VENDORS[nas], t)
          IN  Set(x, [ex[x] EXCEPT !.st = "open", !.session = s, !.packet = packet, !.meant = Matching(packet)])
    /\ UNCHANGED net

\* create_datagram_endpoint() gives the exchange a socket, or raises OSError; a
\* NAS address that is none has no packet either, and the same outcome.
opened(x) ==
    /\ ex[x].st = "open"
    /\ \E p \in Ports \ {ex[y].port : y \in {y \in Exchanges : Open(y)}} :
          Set(x, [ex[x] EXCEPT !.st = "send", !.port = p])
    /\ UNCHANGED net

open_fails(x) == ex[x].st = "open" /\ End(x, "error") /\ UNCHANGED net

\* Mutant of transmit: range(retries + 1).
transmit_once_more(x) ==
    /\ ex[x].st = "send" /\ ex[x].tries <= Retries
    /\ net' = net \cup {Request(x)}
    /\ Set(x, [ex[x] EXCEPT !.st = "wait", !.tries = @ + 1])

\* transport.sendto(packet), and the wait for an answer begins.
transmit(x) ==
    /\ ex[x].st = "send" /\ ex[x].tries < Retries
    /\ net' = net \cup {Request(x)}
    /\ Set(x, [ex[x] EXCEPT !.st = "wait", !.tries = @ + 1])

\* datagram_received(): an answer to the request settles the future, once.
datagram_received(x, m) ==
    /\ Open(x) /\ ex[x].answer = None
    /\ m.kind = "answer" /\ m.port = ex[x].port
    /\ verify_response(ex[x].packet, m)
    /\ Set(x, [ex[x] EXCEPT !.answer = m.code])
    /\ UNCHANGED net

\* error_received(): the port of the NAS is closed.
error_received(x) ==
    /\ Open(x) /\ ex[x].tries > 0 /\ ex[x].answer = None
    /\ Set(x, [ex[x] EXCEPT !.answer = "error"])
    /\ UNCHANGED net

\* wait_for() times out.  It may do so although the future has just been settled,
\* before the task has run: the answer is then found after the next sending,
\* and not at all if there is none.
wait_times_out(x) ==
    /\ ex[x].st = "wait"
    /\ Set(x, [ex[x] EXCEPT !.st = "send"])
    /\ UNCHANGED net

\* wait_for() returns the answer, or raises the error.
answered(x) ==
    /\ ex[x].st = "wait" /\ ex[x].answer # None
    /\ End(x, ex[x].answer)
    /\ UNCHANGED net

\* No attempt is left.
give_up(x) ==
    /\ ex[x].st = "send" /\ ex[x].tries = Retries
    /\ End(x, "timeout")
    /\ UNCHANGED net

Proceed(x) == opened(x) \/ open_fails(x) \/ transmit(x) \/ wait_times_out(x) \/ answered(x) \/ give_up(x)

---------------------------------------------------------------------------
(* The NAS, as the code and RFC 5176 take it to be.                        *)

join(s) ==
    /\ s \in unused
    /\ up' = up \cup {s} /\ unused' = unused \ {s}
    /\ UNCHANGED <<nas, ended, ex, net>>

leave(s) ==
    /\ s \in up
    /\ up' = up \ {s}
    /\ UNCHANGED <<nas, ended, unused, ex, net>>

\* A request arrives, the first time or again: the NAS ends the sessions it
\* speaks of, or refuses, which it always does when it finds none.
nas_ends(m) ==
    /\ m \in net /\ m.kind = "request"
    /\ Matching(m.to) \cap up # {}
    /\ up' = up \ Matching(m.to)
    /\ ended' = ended \cup (Matching(m.to) \cap up)
    /\ net' = net \cup {Answer(m, "ack")}
    /\ UNCHANGED <<nas, unused, ex>>

nas_refuses(m) ==
    /\ m \in net /\ m.kind = "request"
    /\ net' = net \cup {Answer(m, "nak")}
    /\ UNCHANGED <<nas, up, ended, unused, ex>>

---------------------------------------------------------------------------
CoaNext ==
    \/ \E x \in Exchanges :
          \/ begin(x) \/ Proceed(x) \/ error_received(x)
          \/ \E m \in net : datagram_received(x, m)
    \/ \E s \in Sessions : join(s) \/ leave(s)
    \/ \E m \in net : nas_ends(m) \/ nas_refuses(m)

\* The event loop runs what is ready, and its timers fire; nothing is assumed of
\* the network or the NAS.
CoaFairness == \A x \in Exchanges : WF_coaVars(Proceed(x)) /\ WF_coaVars(begin(x))

CoaSpec == CoaInit /\ [][CoaNext]_coaVars /\ CoaFairness

---------------------------------------------------------------------------
(* Properties.                                                             *)

\* What a caller of disconnect() knows of its request.
Result(x) ==
    CASE ex[x].st = "idle" -> None
      [] InGate(x) -> "pending"
      [] OTHER -> ex[x].outcome

\* The exchanges, whatever is lost, late or repeated, keep the promise made to
\* send_disconnect()'s callers: see Disconnect.
Promised == INSTANCE Disconnect WITH
    meant <- [x \in Exchanges |-> ex[x].meant],
    outcome <- [x \in Exchanges |-> Result(x)]

\* disconnect() always returns one outcome, and ACK only if a session its request
\* speaks of has been ended by request: an answer to another exchange, even one
\* with the same identifier on the same port, is never taken for its own.
KeepsPromise == Promised!Promise

\* Where the vendor takes a session id that the NAS has reported, no session is
\* ended other than those reevaluate() chose, although requests arrive late, are
\* repeated and meet newer sessions of the same station. (A request to a vendor
\* that takes the station only ends whichever session the station has.)
OnlyChosenEnd ==
    VENDORS[nas].identify \cap {"acct_session_id", "audit_session_id"} \cap Reported # {} =>
        ended \subseteq {ex[x].session : x \in Exchanges}

\* gather() ends: every target gets through the gate, also those that find it
\* full, and has an outcome, though those before it fail and the NAS is silent.
EveryTargetTried == <>(up # {}) => <>(\A x \in Exchanges : ex[x].st = "done")
============================================================================
