----------------------------- MODULE CoaProofs -----------------------------
(***************************************************************************)
(* Proofs about CoaExchange: any number of exchanges, sessions, ports and  *)
(* retries, over a network that loses, delays and repeats.                 *)
(***************************************************************************)
EXTENDS CoaExchange, TLAPS

---------------------------------------------------------------------------
(* The inductive invariant.                                                *)

Packets ==
    {build_disconnect(i, Row(s), VENDORS[v], t) : i \in Identifiers, s \in Sessions, v \in Vendor, t \in Seconds}

Records ==
    [st : {"idle", "open", "send", "wait", "done"}, session : Sessions \cup {None}, packet : Packets \cup {None},
     meant : SUBSET Sessions, port : Ports \cup {None}, tries : 0..Retries,
     answer : {None, "ack", "nak", "error"}, outcome : Outcomes \cup {None}]

\* The vendor takes a session id, and the NAS reports it.
Identifying == VENDORS[nas].identify \cap {"acct_session_id", "audit_session_id"} \cap Reported # {}

\* A session that a request of the exchange speaks of has been ended.
Carried(meant) == meant \cap ended # {}

CoaTyped ==
    /\ nas \in Vendor
    /\ up \subseteq Sessions /\ ended \subseteq Sessions /\ unused \subseteq Sessions
    /\ ex \in [Exchanges -> Records]

\* What an exchange knows: its outcome and its port belong to its state, its
\* packet means what it meant when it was built, and an ACK it holds is true.
ExchangeInv(x) ==
    /\ ex[x].st = "done" <=> ex[x].outcome # None
    /\ Open(x) => ex[x].port \in Ports
    /\ ex[x].answer # None => Open(x)
    /\ ex[x].st # "idle" => ex[x].meant = Matching(ex[x].packet)
    /\ ex[x].answer = "ack" => Carried(ex[x].meant)
    /\ Identifying /\ ex[x].st # "idle" => ex[x].meant \subseteq {ex[x].session}

\* No two sockets have the same port.
PortsDiffer == \A x, y \in Exchanges : Open(x) /\ Open(y) /\ ex[x].port = ex[y].port => x = y

\* A datagram, however late, carries the packet of an exchange, and an ACK is the
\* answer to a request that has ended a session.
DatagramInv(m) ==
    /\ \E x \in Exchanges : ex[x].st # "idle" /\ m.to = ex[x].packet
    /\ m.kind = "answer" => m.code \in {"ack", "nak"}
    /\ m.kind = "answer" /\ m.code = "ack" => Carried(Matching(m.to))

EndedInv == Identifying => \A s \in ended : \E x \in Exchanges : ex[x].st # "idle" /\ ex[x].session = s

CoaInv ==
    /\ CoaTyped /\ PortsDiffer /\ EndedInv
    /\ \A x \in Exchanges : ExchangeInv(x)
    /\ \A m \in net : DatagramInv(m)

---------------------------------------------------------------------------
(* Requests.                                                               *)

\* Where the vendor takes a session id, build_disconnect() makes a packet that
\* speaks of the one session whose row it was built from.
LEMMA PacketMeansItsSession ==
    ASSUME NEW s \in Sessions, NEW i, NEW t, Identifying
    PROVE  Matching(build_disconnect(i, Row(s), VENDORS[nas], t)) \subseteq {s}
<1> DEFINE packet == build_disconnect(i, Row(s), VENDORS[nas], t)
<1>1. PICK f \in {"acct_session_id", "audit_session_id"} \cap Reported : f \in VENDORS[nas].identify
  BY Zenon DEF Identifying
<1>2. f \in SessionFields /\ Row(s)[f] = SessionIds[s][f]
  BY <1>1, Zenon DEF Row, SessionFields
<1>3. Row(s)[f] # None
  BY <1>1, <1>2, SessionIdsDiffer, Zenon
<1>4. f \in DOMAIN packet.attrs /\ packet.attrs[f] = SessionIds[s][f]
  BY <1>1, <1>2, <1>3, Zenon DEF build_disconnect, identity
<1> HIDE DEF packet
<1>5. SUFFICES ASSUME NEW r \in Matching(packet) PROVE r = s
  BY Zenon DEF packet
<1>6. r \in Sessions /\ SessionIds[r][f] = packet.attrs[f]
  BY <1>4, <1>5, Zenon DEF Matching
<1>7. QED
  BY <1>1, <1>4, <1>6, SessionIdsDiffer, Zenon

\* A packet speaks of sessions of the NAS.
LEMMA MatchingTyped == \A packet : Matching(packet) \subseteq Sessions
BY Zenon DEF Matching

\* An exchange changes, and no other does.
LEMMA SetFacts ==
    ASSUME CoaTyped, NEW x \in Exchanges, NEW new \in Records, Set(x, new)
    PROVE  /\ CoaTyped' /\ UNCHANGED <<nas, up, ended, unused>>
           /\ ex'[x] = new /\ \A y \in Exchanges \ {x} : ex'[y] = ex[y]
BY Zenon DEF CoaTyped, Set

---------------------------------------------------------------------------
(* The exchanges.                                                          *)

\* What a step of disconnect() has to see to: it keeps the packet, it takes a
\* free port, and it holds an ACK only of a request that was carried out.
LEMMA ExchangeStepInv ==
    ASSUME CoaInv, NEW x \in Exchanges, NEW new \in Records, Set(x, new),
           ex[x].st # "idle", new.st # "idle",
           new.session = ex[x].session, new.packet = ex[x].packet, new.meant = ex[x].meant,
           new.st = "done" <=> new.outcome # None,
           new.st \in {"send", "wait"} => /\ new.port \in Ports
                                          /\ \A y \in Exchanges \ {x} : Open(y) => ex[y].port # new.port,
           new.answer # None => new.st \in {"send", "wait"},
           new.answer = "ack" => Carried(new.meant),
           net' = net \/ net' = net \cup {Request(x)}
    PROVE  CoaInv'
<1> USE DEF CoaInv
<1>1. /\ CoaTyped' /\ UNCHANGED <<nas, up, ended, unused>>
      /\ ex'[x] = new /\ \A y \in Exchanges \ {x} : ex'[y] = ex[y]
  BY SetFacts, Zenon
<1>2. Identifying' = Identifying /\ \A A : Carried(A)' = Carried(A)
  BY <1>1, Zenon DEF Identifying, Carried
<1>3. PortsDiffer'
  BY <1>1 DEF PortsDiffer, Open
<1>4. EndedInv'
  BY <1>1, <1>2 DEF EndedInv
<1>5. ASSUME NEW y \in Exchanges PROVE ExchangeInv(y)'
  <2>1. CASE y = x
    BY <1>1, <1>2, <2>1, Zenon DEF ExchangeInv, Open, Carried
  <2>2. CASE y # x
    BY <1>1, <1>2, <2>2 DEF ExchangeInv, Open, Carried
  <2>3. QED
    BY <2>1, <2>2, Zenon
<1>6. ASSUME NEW m \in net' PROVE DatagramInv(m)'
  <2>1. CASE m \in net
    <3>1. PICK y \in Exchanges : ex[y].st # "idle" /\ m.to = ex[y].packet
      BY <2>1, Zenon DEF DatagramInv
    <3>2. ex'[y].st # "idle" /\ m.to = ex'[y].packet
      BY <1>1, <3>1, Zenon
    <3>3. QED
      BY <1>1, <2>1, <3>2, Zenon DEF DatagramInv, Carried
  <2>2. CASE m = Request(x)
    <3>1. m.kind = "request" /\ m.to = ex[x].packet
      BY <2>2, Zenon DEF Request
    <3>2. QED
      BY <1>1, <3>1, Zenon DEF DatagramInv
  <2>3. QED
    BY <1>6, <2>1, <2>2, Zenon
<1>7. QED
  BY <1>1, <1>3, <1>4, <1>5, <1>6, Zenon

\* The gate is passed: the packet is built from the row of a session.
LEMMA BeginInv == ASSUME CoaInv, NEW x \in Exchanges, begin(x) PROVE CoaInv'
<1> USE DEF CoaInv
<1>1. PICK s \in Sessions \ unused, i \in Identifiers, t \in Seconds :
        LET packet == build_disconnect(i, Row(s), VENDORS[nas], t)
        IN  Set(x, [ex[x] EXCEPT !.st = "open", !.session = s, !.packet = packet, !.meant = Matching(packet)])
  BY Zenon DEF begin
<1> DEFINE packet == build_disconnect(i, Row(s), VENDORS[nas], t)
           new == [ex[x] EXCEPT !.st = "open", !.session = s, !.packet = packet, !.meant = Matching(packet)]
<1>2. packet \in Packets /\ Matching(packet) \in SUBSET Sessions
  BY MatchingTyped DEF Packets, CoaTyped
<1>3. Identifying => Matching(packet) \subseteq {s}
  BY PacketMeansItsSession, Zenon
<1>4. Set(x, new)
  BY <1>1, Zenon
<1> HIDE DEF packet
<1>5. /\ new \in Records /\ new.st = "open" /\ new.session = s /\ new.packet = packet /\ new.meant = Matching(packet)
      /\ new.outcome = ex[x].outcome /\ new.answer = ex[x].answer
  BY <1>2, ZenonT(60) DEF CoaTyped, Records
<1> HIDE DEF new
<1>6. /\ CoaTyped' /\ UNCHANGED <<nas, up, ended, unused>>
      /\ ex'[x] = new /\ \A y \in Exchanges \ {x} : ex'[y] = ex[y]
  BY <1>4, <1>5, SetFacts, Zenon
<1>7. UNCHANGED net /\ ex[x].st = "idle"
  BY Zenon DEF begin
<1>8. PortsDiffer'
  BY <1>5, <1>6, Zenon DEF PortsDiffer, Open
<1>9. EndedInv'
  BY <1>5, <1>6, <1>7 DEF EndedInv, Identifying
<1>10. ASSUME NEW y \in Exchanges PROVE ExchangeInv(y)'
  <2>1. CASE y = x
    <3>1. ex[x].answer = None /\ ex[x].outcome = None
      BY <1>7, Zenon DEF ExchangeInv, Open
    <3>2. QED
      BY <1>3, <1>5, <1>6, <2>1, <3>1, NoneAssumption, Zenon DEF ExchangeInv, Open, Identifying
  <2>2. CASE y # x
    BY <1>6, <2>2, Zenon DEF ExchangeInv, Open, Carried, Identifying
  <2>3. QED
    BY <2>1, <2>2, Zenon
<1>11. ASSUME NEW m \in net' PROVE DatagramInv(m)'
  BY <1>5, <1>6, <1>7 DEF DatagramInv, Carried
<1>12. QED
  BY <1>6, <1>8, <1>9, <1>10, <1>11, Zenon

\* The socket is opened on a port that no open one has.
LEMMA OpenedInv == ASSUME CoaInv, NEW x \in Exchanges, opened(x) PROVE CoaInv'
<1> USE DEF CoaInv
<1>1. PICK p \in Ports \ {ex[y].port : y \in {y \in Exchanges : Open(y)}} :
        Set(x, [ex[x] EXCEPT !.st = "send", !.port = p])
  BY Zenon DEF opened
<1> DEFINE new == [ex[x] EXCEPT !.st = "send", !.port = p]
<1>2. ex[x].st = "open" /\ net' = net /\ ex[x] \in Records
  BY Zenon DEF opened, CoaTyped
<1>3. /\ new \in Records /\ new.st = "send" /\ new.port = p /\ new.session = ex[x].session
      /\ new.packet = ex[x].packet /\ new.meant = ex[x].meant
      /\ new.outcome = ex[x].outcome /\ new.answer = ex[x].answer
  BY <1>2, Zenon DEF Records
<1> HIDE DEF new
<1>4. ex[x].outcome = None /\ ex[x].answer = None
  BY <1>2, Zenon DEF ExchangeInv, Open
<1>5. \A y \in Exchanges \ {x} : Open(y) => ex[y].port # p
  BY <1>1, Zenon
<1>6. Set(x, new)
  BY <1>1, Zenon DEF new
<1>7. QED
  BY <1>2, <1>3, <1>4, <1>5, <1>6, NoneAssumption, ExchangeStepInv, Zenon

\* disconnect() returns an outcome and closes its socket.
LEMMA EndInv ==
    ASSUME CoaInv, NEW x \in Exchanges, NEW o \in Outcomes, InGate(x), End(x, o), UNCHANGED net
    PROVE  CoaInv'
<1> USE DEF CoaInv
<1> DEFINE new == [ex[x] EXCEPT !.st = "done", !.outcome = o, !.port = None, !.tries = 0, !.answer = None]
<1>1. ex[x] \in Records /\ ex[x].st # "idle" /\ 0 \in 0..Retries
  BY Bounds DEF CoaTyped, InGate, Open
<1>2. /\ new \in Records /\ new.st = "done" /\ new.session = ex[x].session
      /\ new.packet = ex[x].packet /\ new.meant = ex[x].meant
      /\ new.outcome = o /\ new.answer = None
  BY <1>1, Zenon DEF Records
<1>3. Set(x, new)
  BY Zenon DEF End
<1> HIDE DEF new
<1>4. o # None
  BY NoneAssumption, Zenon DEF Outcomes
<1>5. QED
  BY <1>1, <1>2, <1>3, <1>4, NoneAssumption, ExchangeStepInv, Zenon

\* The task goes on from an await with its socket open.
LEMMA SocketStepInv ==
    ASSUME CoaInv, NEW x \in Exchanges, transmit(x) \/ wait_times_out(x) \/ error_received(x)
    PROVE  CoaInv'
<1> USE DEF CoaInv
<1>1. ex[x] \in Records /\ Open(x) /\ ex[x].outcome = None
  BY Zenon DEF CoaTyped, transmit, wait_times_out, error_received, Open, ExchangeInv
<1>2. PICK st \in {"send", "wait"}, tries \in 0..Retries, answer \in {ex[x].answer, "error"} :
        Set(x, [ex[x] EXCEPT !.st = st, !.tries = tries, !.answer = answer])
  <2>1. CASE transmit(x)
    <3>1. ex[x].tries + 1 \in 0..Retries
      BY <1>1, <2>1, Bounds DEF transmit, Records
    <3>2. [ex[x] EXCEPT !.st = "wait", !.tries = @ + 1]
            = [ex[x] EXCEPT !.st = "wait", !.tries = ex[x].tries + 1, !.answer = ex[x].answer]
      BY <1>1, Zenon DEF Records
    <3>3. QED
      BY <2>1, <3>1, <3>2, Zenon DEF transmit
  <2>2. CASE wait_times_out(x)
    <3>1. ex[x].tries \in 0..Retries
      BY <1>1, Zenon DEF Records
    <3>2. [ex[x] EXCEPT !.st = "send"]
            = [ex[x] EXCEPT !.st = "send", !.tries = ex[x].tries, !.answer = ex[x].answer]
      BY <1>1, Zenon DEF Records
    <3>3. QED
      BY <2>2, <3>1, <3>2, Zenon DEF wait_times_out
  <2>3. CASE error_received(x)
    <3>1. ex[x].tries \in 0..Retries /\ ex[x].st \in {"send", "wait"}
      BY <1>1, Zenon DEF Records, Open
    <3>2. [ex[x] EXCEPT !.answer = "error"]
            = [ex[x] EXCEPT !.st = ex[x].st, !.tries = ex[x].tries, !.answer = "error"]
      BY <1>1, Zenon DEF Records
    <3>3. QED
      BY <2>3, <3>1, <3>2, Zenon DEF error_received
  <2>4. QED
    BY <2>1, <2>2, <2>3, Zenon
<1> DEFINE new == [ex[x] EXCEPT !.st = st, !.tries = tries, !.answer = answer]
<1>3. /\ new \in Records /\ new.st = st /\ new.session = ex[x].session /\ new.port = ex[x].port
      /\ new.packet = ex[x].packet /\ new.meant = ex[x].meant
      /\ new.outcome = ex[x].outcome /\ new.answer = answer
  BY <1>1, <1>2, ZenonT(60) DEF Records
<1>4. Set(x, new)
  BY <1>2, Zenon
<1> HIDE DEF new
<1>5. /\ ex[x].st # "idle" /\ ex[x].port \in Ports
      /\ \A y \in Exchanges \ {x} : Open(y) => ex[y].port # ex[x].port
  BY <1>1, Zenon DEF ExchangeInv, PortsDiffer, Open
<1>6. answer = "ack" => Carried(ex[x].meant)
  BY <1>2, Zenon DEF ExchangeInv
<1>7. net' = net \/ net' = net \cup {Request(x)}
  BY Zenon DEF transmit, wait_times_out, error_received
<1>8. QED
  BY <1>1, <1>3, <1>4, <1>5, <1>6, <1>7, NoneAssumption, ExchangeStepInv, Zenon

\* verify_response() accepts an ACK only of the exchange's own packet.
LEMMA DatagramReceivedInv ==
    ASSUME CoaInv, NEW x \in Exchanges, NEW m \in net, datagram_received(x, m)
    PROVE  CoaInv'
<1> USE DEF CoaInv
<1> DEFINE new == [ex[x] EXCEPT !.answer = m.code]
<1>1. /\ ex[x] \in Records /\ Open(x) /\ ex[x].outcome = None /\ ex[x].st # "idle"
      /\ m.kind = "answer" /\ m.to = ex[x].packet /\ net' = net
  BY Zenon DEF CoaTyped, datagram_received, verify_response, Open, ExchangeInv
<1>2. m.code \in {"ack", "nak"} /\ (m.code = "ack" => Carried(ex[x].meant))
  BY <1>1, Zenon DEF DatagramInv, ExchangeInv
<1>3. /\ new \in Records /\ new.st = ex[x].st /\ new.session = ex[x].session /\ new.port = ex[x].port
      /\ new.packet = ex[x].packet /\ new.meant = ex[x].meant
      /\ new.outcome = ex[x].outcome /\ new.answer = m.code
  BY <1>1, <1>2 DEF Records
<1>4. Set(x, new)
  BY Zenon DEF datagram_received
<1> HIDE DEF new
<1>5. /\ ex[x].port \in Ports /\ \A y \in Exchanges \ {x} : Open(y) => ex[y].port # ex[x].port
  BY <1>1, Zenon DEF ExchangeInv, PortsDiffer
<1>6. QED
  BY <1>1, <1>2, <1>3, <1>4, <1>5, NoneAssumption, ExchangeStepInv, Zenon DEF Open

---------------------------------------------------------------------------
(* The NAS.                                                                *)

\* Stations come and go.
LEMMA StationInv == ASSUME CoaInv, NEW s \in Sessions, join(s) \/ leave(s) PROVE CoaInv'
<1>1. UNCHANGED <<nas, ended, ex, net>> /\ up' \subseteq Sessions /\ unused' \subseteq Sessions
  BY Zenon DEF CoaInv, CoaTyped, join, leave
<1>2. CoaTyped' /\ PortsDiffer' /\ EndedInv'
  BY <1>1, Zenon DEF CoaInv, CoaTyped, PortsDiffer, EndedInv, Identifying, Open
<1>3. (\A x \in Exchanges : ExchangeInv(x))' /\ (\A m \in net : DatagramInv(m))'
  BY <1>1, Zenon DEF CoaInv, ExchangeInv, DatagramInv, Identifying, Open, Carried
<1>4. QED
  BY <1>2, <1>3, Zenon DEF CoaInv

\* The NAS ends sessions a request speaks of, and only then says so.
LEMMA NasEndsInv == ASSUME CoaInv, NEW m \in net, nas_ends(m) PROVE CoaInv'
<1> USE DEF CoaInv
<1>1. /\ Matching(m.to) \cap up # {} /\ up' = up \ Matching(m.to)
      /\ ended' = ended \cup (Matching(m.to) \cap up)
      /\ net' = net \cup {Answer(m, "ack")} /\ UNCHANGED <<nas, unused, ex>>
  BY Zenon DEF nas_ends
<1>2. PICK x \in Exchanges : ex[x].st # "idle" /\ m.to = ex[x].packet
  BY Zenon DEF DatagramInv
<1>3. CoaTyped' /\ PortsDiffer'
  BY <1>1, MatchingTyped, Zenon DEF CoaTyped, PortsDiffer, Open
<1>4. EndedInv'
  <2>1. Identifying => Matching(m.to) \subseteq {ex[x].session}
    BY <1>2, Zenon DEF ExchangeInv
  <2>2. QED
    BY <1>1, <1>2, <2>1, Zenon DEF EndedInv, Identifying
<1>5. \A A : Carried(A) => Carried(A)'
  BY <1>1, Zenon DEF Carried
<1>6. (\A y \in Exchanges : ExchangeInv(y))'
  BY <1>1, <1>5, Zenon DEF ExchangeInv, Identifying, Open, Carried
<1>7. ASSUME NEW d \in net' PROVE DatagramInv(d)'
  <2>1. CASE d \in net
    BY <1>1, <1>5, <2>1, Zenon DEF DatagramInv, Carried
  <2>2. CASE d = Answer(m, "ack")
    <3>1. d.to = m.to /\ d.kind = "answer" /\ d.code = "ack"
      BY <2>2, Zenon DEF Answer
    <3>2. (Carried(Matching(m.to)))'
      BY <1>1, Zenon DEF Carried
    <3>3. QED
      BY <1>1, <1>2, <3>1, <3>2, Zenon DEF DatagramInv, Carried
  <2>3. QED
    BY <1>1, <1>7, <2>1, <2>2, Zenon
<1>8. QED
  BY <1>3, <1>4, <1>6, <1>7, Zenon

\* The NAS refuses.
LEMMA NasRefusesInv == ASSUME CoaInv, NEW m \in net, nas_refuses(m) PROVE CoaInv'
<1> USE DEF CoaInv
<1>1. net' = net \cup {Answer(m, "nak")} /\ UNCHANGED <<nas, up, ended, unused, ex>>
  BY Zenon DEF nas_refuses
<1>2. CoaTyped' /\ PortsDiffer' /\ EndedInv'
  BY <1>1, Zenon DEF CoaTyped, PortsDiffer, EndedInv, Identifying, Open
<1>3. (\A y \in Exchanges : ExchangeInv(y))'
  BY <1>1, Zenon DEF ExchangeInv, Identifying, Open, Carried
<1>4. ASSUME NEW d \in net' PROVE DatagramInv(d)'
  <2>1. CASE d \in net
    BY <1>1, <2>1, Zenon DEF DatagramInv, Carried
  <2>2. CASE d = Answer(m, "nak")
    <3>1. d.to = m.to /\ d.kind = "answer" /\ d.code = "nak"
      BY <2>2, Zenon DEF Answer
    <3>2. QED
      BY <1>1, <3>1, Zenon DEF DatagramInv
  <2>3. QED
    BY <1>1, <1>4, <2>1, <2>2, Zenon
<1>5. QED
  BY <1>2, <1>3, <1>4, Zenon

---------------------------------------------------------------------------
(* The theorems.                                                           *)

\* Before the first exchange nothing has been sent.
LEMMA CoaInitInv == CoaInit => CoaInv
<1> SUFFICES ASSUME CoaInit PROVE CoaInv
  BY Zenon
<1>1. Idle \in Records /\ \A x \in Exchanges : ex[x] = Idle
  BY Bounds DEF CoaInit, Idle, Records
<1>2. CoaTyped
  BY <1>1, Zenon DEF CoaInit, CoaTyped
<1>3. \A x \in Exchanges : ExchangeInv(x) /\ ~Open(x)
  BY <1>1, NoneAssumption DEF Idle, ExchangeInv, Open
<1>4. QED
  BY <1>2, <1>3, Zenon DEF CoaInit, CoaInv, PortsDiffer, EndedInv

\* No step of an exchange, of the NAS or of the network leaves the invariant.
LEMMA CoaNextInv == CoaInv /\ [CoaNext]_coaVars => CoaInv'
<1> SUFFICES ASSUME CoaInv, [CoaNext]_coaVars PROVE CoaInv'
  BY Zenon
<1>1. ASSUME NEW x \in Exchanges, begin(x) \/ Proceed(x) \/ error_received(x) PROVE CoaInv'
  <2>1. CASE open_fails(x)
    BY <2>1, EndInv, Zenon DEF open_fails, InGate, Outcomes
  <2>2. CASE answered(x)
    <3>1. ex[x].answer \in Outcomes /\ InGate(x)
      BY <2>2, Zenon DEF answered, CoaInv, CoaTyped, Records, Outcomes, InGate, Open
    <3>2. QED
      BY <2>2, <3>1, EndInv, Zenon DEF answered
  <2>3. CASE give_up(x)
    BY <2>3, EndInv, Zenon DEF give_up, InGate, Open, Outcomes
  <2>4. QED
    BY <1>1, <2>1, <2>2, <2>3, BeginInv, OpenedInv, SocketStepInv, Zenon DEF Proceed
<1>2. ASSUME NEW x \in Exchanges, NEW m \in net, datagram_received(x, m) PROVE CoaInv'
  BY <1>2, DatagramReceivedInv, Zenon
<1>3. ASSUME NEW s \in Sessions, join(s) \/ leave(s) PROVE CoaInv'
  BY <1>3, StationInv, Zenon
<1>4. ASSUME NEW m \in net, nas_ends(m) \/ nas_refuses(m) PROVE CoaInv'
  BY <1>4, NasEndsInv, NasRefusesInv, Zenon
<1>5. CASE UNCHANGED coaVars
  <2>1. CoaTyped' /\ PortsDiffer' /\ EndedInv'
    BY <1>5, Zenon DEF coaVars, CoaInv, CoaTyped, PortsDiffer, EndedInv, Identifying, Open
  <2>2. (\A x \in Exchanges : ExchangeInv(x))' /\ (\A m \in net : DatagramInv(m))'
    BY <1>5, Zenon DEF coaVars, CoaInv, ExchangeInv, DatagramInv, Identifying, Open, Carried
  <2>3. QED
    BY <2>1, <2>2, Zenon DEF CoaInv
<1>6. QED
  BY <1>1, <1>2, <1>3, <1>4, <1>5, Zenon DEF CoaNext

\* What the exchanges know of each other's packets is right, whatever the network does.
THEOREM CoaInvariant == CoaSpec => []CoaInv
BY CoaInitInv, CoaNextInv, PTL DEF CoaSpec

\* disconnect() has one outcome when it is over and none before, sends no more
\* often than radius.coa_retries, and no two sockets share a port.
THEOREM CoaTypeCorrect == CoaSpec => []CoaTypeOK
<1>1. CoaInv => CoaTypeOK
  BY Zenon DEF CoaInv, CoaTyped, Records, ExchangeInv, PortsDiffer, CoaTypeOK
<1>2. QED
  BY <1>1, CoaInvariant, PTL

\* With a vendor whose requests carry a session id the NAS reports, only sessions
\* that reevaluate() chose are ended, for any number of late and repeated requests.
THEOREM OnlyChosenSessionsEnd == CoaSpec => []OnlyChosenEnd
<1>1. CoaInv => OnlyChosenEnd
  BY Zenon DEF CoaInv, EndedInv, Identifying, OnlyChosenEnd
<1>2. QED
  BY <1>1, CoaInvariant, PTL

---------------------------------------------------------------------------
(* The refinement of Disconnect: every step is one of the promise, or none *)
(* that its callers can see.                                               *)

\* A step that changes neither what an exchange means nor its result.
LEMMA ExchangeStutters ==
    ASSUME CoaTyped, NEW x \in Exchanges, NEW new, Set(x, new),
           new.meant = ex[x].meant, ex[x].st \in {"open", "send", "wait"}, new.st \in {"open", "send", "wait"}
    PROVE  UNCHANGED Promised!promiseVars
<1>1. /\ UNCHANGED <<up, ended>>
      /\ ex'[x] = new /\ \A y \in Exchanges \ {x} : ex'[y] = ex[y]
  BY Zenon DEF CoaTyped, Set
<1>2. \A y \in Exchanges : ex'[y].meant = ex[y].meant
  BY <1>1, Zenon
<1>3. \A y \in Exchanges : Result(y)' = Result(y)
  <2>1. Result(x)' = "pending" /\ Result(x) = "pending"
    BY <1>1, Zenon DEF Result, InGate, Open
  <2>2. \A y \in Exchanges \ {x} : Result(y)' = Result(y)
    BY <1>1, Zenon DEF Result, InGate, Open
  <2>3. QED
    BY <2>1, <2>2, Zenon
<1>4. QED
  BY <1>1, <1>2, <1>3, Zenon DEF Promised!promiseVars

\* Passing the gate is the request the callers made.
LEMMA BeginAsks == ASSUME CoaInv, NEW x \in Exchanges, begin(x) PROVE Promised!Asks(x)
<1>1. PICK s \in Sessions \ unused, i \in Identifiers, t \in Seconds :
        LET packet == build_disconnect(i, Row(s), VENDORS[nas], t)
        IN  Set(x, [ex[x] EXCEPT !.st = "open", !.session = s, !.packet = packet, !.meant = Matching(packet)])
  BY Zenon DEF begin
<1> DEFINE packet == build_disconnect(i, Row(s), VENDORS[nas], t)
           asked == Matching(packet)
           new == [ex[x] EXCEPT !.st = "open", !.session = s, !.packet = packet, !.meant = asked]
<1>2. Set(x, new) /\ asked \in SUBSET Sessions
  BY <1>1, MatchingTyped, Zenon
<1> HIDE DEF packet, asked
<1>3. /\ ex' = [ex EXCEPT ![x] = new] /\ UNCHANGED <<up, ended>> /\ ex \in [Exchanges -> Records]
      /\ new.st = "open" /\ new.meant = asked
  BY <1>2, Zenon DEF Set, CoaInv, CoaTyped, Records
<1> HIDE DEF new
<1>4. Result(x) = None /\ Result(x)' = "pending" /\ \A y \in Exchanges \ {x} : Result(y)' = Result(y)
  BY <1>3, Zenon DEF begin, Result, InGate, Open
<1>5. [y \in Exchanges |-> Result(y)]' = [[y \in Exchanges |-> Result(y)] EXCEPT ![x] = "pending"]
  BY <1>4, Zenon
<1>6. [y \in Exchanges |-> ex[y].meant]' = [[y \in Exchanges |-> ex[y].meant] EXCEPT ![x] = asked]
  BY <1>3, Zenon
<1>7. QED
  BY <1>2, <1>3, <1>4, <1>5, <1>6, Zenon DEF Promised!Asks

\* An outcome is what the callers get, and ACK only when it is true.
LEMMA EndReturns ==
    ASSUME CoaInv, NEW x \in Exchanges, NEW o \in Outcomes, InGate(x), End(x, o),
           o = "ack" => ex[x].answer = "ack"
    PROVE  Promised!Returns(x)
<1> DEFINE new == [ex[x] EXCEPT !.st = "done", !.outcome = o, !.port = None, !.tries = 0, !.answer = None]
<1>1. /\ ex' = [ex EXCEPT ![x] = new] /\ UNCHANGED <<up, ended>> /\ ex \in [Exchanges -> Records]
      /\ new.st = "done" /\ new.meant = ex[x].meant /\ new.outcome = o
  BY Zenon DEF End, Set, CoaInv, CoaTyped, Records
<1> HIDE DEF new
<1>2. Result(x) = "pending" /\ Result(x)' = o /\ \A y \in Exchanges \ {x} : Result(y)' = Result(y)
  BY <1>1, Zenon DEF Result, InGate, Open
<1>3. [y \in Exchanges |-> Result(y)]' = [[y \in Exchanges |-> Result(y)] EXCEPT ![x] = o]
  BY <1>2, Zenon
<1>4. [y \in Exchanges |-> ex[y].meant]' = [y \in Exchanges |-> ex[y].meant]
  BY <1>1, Zenon
<1>5. o = "ack" => ex[x].meant \cap ended # {}
  BY Zenon DEF CoaInv, ExchangeInv, Carried
<1>6. QED
  BY <1>1, <1>2, <1>3, <1>4, <1>5, Zenon DEF Promised!Returns

\* The NAS does as an exchange asked, however late the request arrives.
LEMMA NasEndsIsEnds ==
    ASSUME CoaInv, NEW m \in net, nas_ends(m)
    PROVE  \E x \in Exchanges : Promised!Ends(x)
<1>1. PICK x \in Exchanges : ex[x].st # "idle" /\ m.to = ex[x].packet
  BY Zenon DEF CoaInv, DatagramInv
<1>2. ex[x].meant = Matching(m.to)
  BY <1>1, Zenon DEF CoaInv, ExchangeInv
<1>3. UNCHANGED ex
  BY Zenon DEF nas_ends
<1>4. \A y \in Exchanges : Result(y)' = Result(y)
  BY <1>3, Zenon DEF Result, InGate, Open
<1>5. Promised!Ends(x)
  BY <1>2, <1>3, <1>4, Zenon DEF nas_ends, Promised!Ends
<1>6. QED
  BY <1>5, Zenon

\* Every step of the exchanges, the network and the NAS is one that Disconnect allows.
LEMMA CoaStepIsPromised ==
    CoaInv /\ [CoaNext]_coaVars => [Promised!PromiseNext]_Promised!promiseVars
<1> SUFFICES ASSUME CoaInv, [CoaNext]_coaVars
             PROVE  [Promised!PromiseNext]_Promised!promiseVars
  BY Zenon
<1>1. ASSUME UNCHANGED ex, UNCHANGED <<up, ended>> PROVE UNCHANGED Promised!promiseVars
  <2>1. \A y \in Exchanges : Result(y)' = Result(y)
    BY <1>1, Zenon DEF Result, InGate, Open
  <2>2. QED
    BY <1>1, <2>1, Zenon DEF Promised!promiseVars
<1>2. ASSUME NEW x \in Exchanges, begin(x) PROVE Promised!PromiseNext
  BY <1>2, BeginAsks, Zenon DEF Promised!PromiseNext
<1>3. ASSUME NEW x \in Exchanges, open_fails(x) \/ answered(x) \/ give_up(x) PROVE Promised!PromiseNext
  <2>1. ex[x] \in Records
    BY Zenon DEF CoaInv, CoaTyped
  <2>2. PICK o \in Outcomes : End(x, o) /\ InGate(x) /\ (o = "ack" => ex[x].answer = "ack")
    BY <1>3, <2>1, Zenon DEF open_fails, answered, give_up, Outcomes, Records, InGate, Open
  <2>3. QED
    BY <2>2, EndReturns, Zenon DEF Promised!PromiseNext
<1>4. ASSUME NEW x \in Exchanges, opened(x) \/ transmit(x) \/ wait_times_out(x) \/ error_received(x)
      PROVE  UNCHANGED Promised!promiseVars
  <2>1. ex[x] \in Records /\ CoaTyped
    BY Zenon DEF CoaInv, CoaTyped
  <2>2. ex[x].st \in {"open", "send", "wait"}
    BY <1>4, Zenon DEF opened, transmit, wait_times_out, error_received, Open
  <2>3. CASE opened(x)
    <3>1. PICK p : Set(x, [ex[x] EXCEPT !.st = "send", !.port = p])
      BY <2>3, Zenon DEF opened
    <3>2. LET new == [ex[x] EXCEPT !.st = "send", !.port = p]
          IN  new.st = "send" /\ new.meant = ex[x].meant
      BY <2>1, Zenon DEF Records
    <3>3. QED
      BY <2>1, <2>2, <3>1, <3>2, ExchangeStutters, Zenon
  <2>4. CASE transmit(x)
    <3>1. LET new == [ex[x] EXCEPT !.st = "wait", !.tries = @ + 1]
          IN  new.st = "wait" /\ new.meant = ex[x].meant
      BY <2>1, Zenon DEF Records
    <3>2. QED
      BY <2>1, <2>2, <2>4, <3>1, ExchangeStutters, Zenon DEF transmit
  <2>5. CASE wait_times_out(x)
    <3>1. LET new == [ex[x] EXCEPT !.st = "send"]
          IN  new.st = "send" /\ new.meant = ex[x].meant
      BY <2>1, Zenon DEF Records
    <3>2. QED
      BY <2>1, <2>2, <2>5, <3>1, ExchangeStutters, Zenon DEF wait_times_out
  <2>6. CASE error_received(x)
    <3>1. LET new == [ex[x] EXCEPT !.answer = "error"]
          IN  new.st = ex[x].st /\ new.meant = ex[x].meant
      BY <2>1, Zenon DEF Records
    <3>2. QED
      BY <2>1, <2>2, <2>6, <3>1, ExchangeStutters, Zenon DEF error_received
  <2>7. QED
    BY <1>4, <2>3, <2>4, <2>5, <2>6, Zenon
<1>5. ASSUME NEW x \in Exchanges, NEW m \in net, datagram_received(x, m)
      PROVE  UNCHANGED Promised!promiseVars
  <2>1. ex[x] \in Records /\ CoaTyped /\ ex[x].st \in {"open", "send", "wait"}
    BY <1>5, Zenon DEF CoaInv, CoaTyped, datagram_received, Open
  <2>2. LET new == [ex[x] EXCEPT !.answer = m.code]
        IN  new.st = ex[x].st /\ new.meant = ex[x].meant
    BY <2>1, Zenon DEF Records
  <2>3. QED
    BY <1>5, <2>1, <2>2, ExchangeStutters, Zenon DEF datagram_received
<1>6. ASSUME NEW s \in Sessions, join(s) \/ leave(s) PROVE Promised!PromiseNext
  <2>1. UNCHANGED ex
    BY <1>6, Zenon DEF join, leave
  <2>2. \A y \in Exchanges : Result(y)' = Result(y)
    BY <2>1, Zenon DEF Result, InGate, Open
  <2>3. Promised!Opens(s) \/ Promised!Leaves(s)
    BY <1>6, <2>1, <2>2, Zenon DEF join, leave, Promised!Opens, Promised!Leaves
  <2>4. QED
    BY <2>3, Zenon DEF Promised!PromiseNext
<1>7. ASSUME NEW m \in net, nas_ends(m) \/ nas_refuses(m)
      PROVE  Promised!PromiseNext \/ UNCHANGED Promised!promiseVars
  BY <1>1, <1>7, NasEndsIsEnds, Zenon DEF nas_refuses, Promised!PromiseNext
<1>8. CASE UNCHANGED coaVars
  BY <1>1, <1>8, Zenon DEF coaVars
<1>9. QED
  BY <1>2, <1>3, <1>4, <1>5, <1>6, <1>7, <1>8, Zenon DEF CoaNext, Proceed

\* disconnect() keeps the promise of Disconnect, whatever is lost, late, repeated
\* or meant for another exchange: what is left to the model checker is that every
\* request returns.
THEOREM CoaImplementsDisconnect == CoaSpec => Promised!PromiseSafety
<1>1. CoaInit => Promised!PromiseInit
  <2>1. SUFFICES ASSUME CoaInit PROVE Promised!PromiseInit
    BY Zenon
  <2>2. \A x \in Exchanges : ex[x].meant = {} /\ Result(x) = None
    BY <2>1, Zenon DEF CoaInit, Idle, Result, InGate, Open
  <2>3. QED
    BY <2>1, <2>2, Zenon DEF CoaInit, Promised!PromiseInit
<1>2. QED
  BY <1>1, CoaInvariant, CoaStepIsPromised, PTL DEF CoaSpec, Promised!PromiseSafety
============================================================================
