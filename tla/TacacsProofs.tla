---------------------------- MODULE TacacsProofs ----------------------------
(***************************************************************************)
(* Proofs about the TACACS+ server of Tacacs, for any number of devices,   *)
(* connections and session ids, any limits and any tables.                 *)
(***************************************************************************)
EXTENDS Tacacs, FiniteSetTheorems, TLAPS

\* A login being asked for was started by an ASCII START, and its session has
\* said so far exactly what the login holds; the packet it waits for is the next.
Follows(login, said) ==
    /\ Len(said) \in {1, 2} /\ said[1] = [start |-> login.start] /\ login.start.type = "ASCII"
    /\ login.next_seq = 2 * Len(said) + 1
    /\ login.start.user # None => Len(said) = 1 /\ login.awaiting = "pass" /\ login.user = login.start.user
    /\ login.start.user = None =>
          \/ Len(said) = 1 /\ login.awaiting = "user"
          \/ Len(said) = 2 /\ login.awaiting = "pass" /\ said[2] = [answer |-> login.user]

\* What is being checked is what the session said.
FromDialogue(job, said) ==
    /\ said # <<>> /\ said[1] = [start |-> job.start]
    /\ job.start.type = "PAP" => Len(said) = 1 /\ job.user = job.start.user
    /\ job.start.type # "PAP" /\ job.start.user # None => Len(said) = 2 /\ job.user = job.start.user
    /\ job.start.type # "PAP" /\ job.start.user = None => Len(said) = 3 /\ said[2] = [answer |-> job.user]

\* The job of a connection is of the kind its place in the code needs.
Busy(x) ==
    /\ x.pc \in {"lookup", "read"} => x.job = NoJob
    /\ x.pc = "verify" => x.job \in PasswordJobs
    /\ x.pc = "command" => x.job \in CommandJobs
    /\ x.pc = "record" => x.job \in RecordJobs

Sound(x) ==
    /\ x \in Connections /\ Busy(x)
    /\ \A sid \in Sids : x.logins[sid] # None => Follows(x.logins[sid], x.said[sid])
    /\ x.pc = "verify" => FromDialogue(x.job, x.said[x.job.sid])

Tables(us, gs, ss) ==
    /\ us \in [Users -> UserRows \cup {None}]
    /\ gs \in [Groups -> GroupRows \cup {None}]
    /\ ss \in [Sets -> SetRows \cup {None}]
    /\ \A g \in Groups : gs[g] # None /\ gs[g].set # None => ss[gs[g].set] # None
    /\ \A u \in Users : us[u] # None /\ us[u].group # None => gs[us[u].group] # None

Slots ==
    /\ total \in Nat /\ per_client \in [Addresses -> Nat] /\ IsFiniteSet(Open)
    /\ SlotsMatchConnections

TacacsInv ==
    /\ Tables(users, groups, sets) /\ clients \subseteq Addresses
    /\ DOMAIN conns = Conns /\ conns = [c \in Conns |-> conns[c]]
    /\ \A c \in Conns : conns[c] # None => Sound(conns[c])
    /\ Slots

\* A dialogue goes on by one packet.
LEMMA DialogueGrows ==
    ASSUME NEW P, NEW so \in Seq(P), Len(so) \in {1, 2}, NEW what \in P
    PROVE  /\ so # <<>> /\ Len(so) < 3 /\ 2 * Len(so) + 1 # 1
           /\ Append(so, what) # <<>> /\ Append(so, what)[1] = so[1]
           /\ Len(so) = 1 => Len(Append(so, what)) = 2 /\ Append(so, what)[2] = what
           /\ Len(so) = 2 => Len(Append(so, what)) = 3 /\ Append(so, what)[2] = so[2]
<1>1. Len(so) \in Nat /\ (Len(so) = 1 \/ Len(so) = 2)
  OBVIOUS
<1>2. Len(so) < 3 /\ 2 * Len(so) + 1 # 1
  OBVIOUS
<1>0. Len(<<>>) = 0 /\ 0 # 1 /\ 0 # 2
  OBVIOUS
<1>3. so # <<>>
  BY <1>0, <1>1, Zenon
<1>4. Append(so, what) \in Seq(P) /\ Len(Append(so, what)) = Len(so) + 1
  OBVIOUS
<1>5. Append(so, what) # <<>>
  <2>1. Len(so) + 1 # 0
    BY <1>1
  <2>2. QED
    BY <1>0, <1>4, <2>1, Zenon
<1>6. (\A i \in 1..Len(so) : Append(so, what)[i] = so[i]) /\ Append(so, what)[Len(so) + 1] = what
  OBVIOUS
<1>7. CASE Len(so) = 1
  <2>1. Len(Append(so, what)) = 2 /\ Append(so, what)[1] = so[1] /\ Append(so, what)[2] = what
    BY <1>4, <1>6, <1>7
  <2>2. QED
    BY <1>2, <1>3, <1>5, <1>7, <2>1, Zenon
<1>8. CASE Len(so) = 2
  <2>1. Len(Append(so, what)) = 3 /\ Append(so, what)[1] = so[1] /\ Append(so, what)[2] = so[2]
    BY <1>4, <1>6, <1>8
  <2>2. QED
    BY <1>2, <1>3, <1>5, <1>8, <2>1
<1>9. QED
  BY <1>1, <1>7, <1>8, Zenon

---------------------------------------------------------------------------
(* Connections.                                                            *)

\* A task that goes on keeps its slot: _handle() changes the counters on the way
\* in and on the way out only.
LEMMA GotoKeeps ==
    ASSUME TacacsInv, NEW c \in Conns, conns[c] # None,
           NEW x, Sound(x), x.ip = conns[c].ip, Goto(c, x)
    PROVE  TacacsInv'
<1>1. /\ conns' = [conns EXCEPT ![c] = x]
      /\ UNCHANGED <<users, groups, sets, clients, total, per_client>>
  BY Zenon DEF Goto, Keep, configVars, slotVars
<1>2. x # None
  BY NoneAssumption, Zenon DEF Sound
<1>3. /\ DOMAIN conns' = Conns /\ conns' = [d \in Conns |-> conns'[d]]
      /\ conns'[c] = x /\ \A d \in Conns : d # c => conns'[d] = conns[d]
  BY <1>1, Zenon DEF TacacsInv
<1>4. \A d \in Conns : conns'[d] # None => Sound(conns'[d])
  BY <1>3, Zenon DEF TacacsInv
<1>5. Open' = Open /\ \A d \in Open : conns'[d].ip = conns[d].ip
  BY <1>2, <1>3, Zenon DEF Open
<1>6. \A ip \in Addresses : {d \in Open : conns[d].ip = ip}' = {d \in Open : conns[d].ip = ip}
  BY <1>5, Zenon
<1>7. Slots'
  BY <1>1, <1>5, <1>6, Zenon DEF TacacsInv, Slots, SlotsMatchConnections
<1>8. QED
  BY <1>1, <1>3, <1>4, <1>7, Zenon DEF TacacsInv, Sound, Busy

\* The finally clause gives back both counts.
LEMMA CloseKeeps ==
    ASSUME TacacsInv, NEW c \in Conns, conns[c] # None, Close(c)
    PROVE  TacacsInv'
<1> DEFINE Of(ip) == {d \in Open : conns[d].ip = ip}
<1>1. /\ conns' = [conns EXCEPT ![c] = None] /\ total' = total - 1
      /\ per_client' = [per_client EXCEPT ![conns[c].ip] = @ - 1]
      /\ UNCHANGED <<users, groups, sets, clients>>
  BY Zenon DEF Close, configVars
<1>2. /\ DOMAIN conns' = Conns /\ conns' = [d \in Conns |-> conns'[d]]
      /\ conns'[c] = None /\ \A d \in Conns : d # c => conns'[d] = conns[d]
  BY <1>1, Zenon DEF TacacsInv
<1>3. \A d \in Conns : conns'[d] # None => Sound(conns'[d])
  BY <1>2, Zenon DEF TacacsInv
<1>4. c \in Open /\ conns[c].ip \in Addresses
  BY Zenon DEF Open, TacacsInv, Sound, Connections
<1>5. Open' = Open \ {c}
  BY <1>2, Zenon DEF Open
<1>6. /\ IsFiniteSet(Open) /\ IsFiniteSet(Open') /\ Cardinality(Open') = Cardinality(Open) - 1
      /\ Cardinality(Open) \in Nat /\ Cardinality(Open') \in Nat
  BY <1>4, <1>5, FS_RemoveElement, FS_CardinalityType, Zenon DEF TacacsInv, Slots
<1>7. \A ip \in Addresses : IsFiniteSet(Of(ip)) /\ Cardinality(Of(ip)) \in Nat
  BY <1>6, FS_Subset, FS_CardinalityType, Zenon
<1>8. ASSUME NEW ip \in Addresses, ip # conns[c].ip PROVE Of(ip)' = Of(ip)
  BY <1>2, <1>5, <1>8, ZenonT(60) DEF Open
<1>9. Of(conns[c].ip) = {d \in Open : conns[d].ip = conns[c].ip} /\ c \in Of(conns[c].ip)
  BY <1>4, Zenon
<1>10. ASSUME NEW ip \in Addresses, ip = conns[c].ip
       PROVE  Of(ip)' = Of(ip) \ {c} /\ Cardinality(Of(ip)') = Cardinality(Of(ip)) - 1 /\ Cardinality(Of(ip)') \in Nat
  <2>1. Of(ip)' = Of(ip) \ {c}
    BY <1>2, <1>5, Zenon DEF Open
  <2>2. c \in Of(ip) /\ IsFiniteSet(Of(ip))
    BY <1>4, <1>7, <1>10, Zenon
  <2>3. IsFiniteSet(Of(ip)')
    BY <2>1, <2>2, FS_RemoveElement, Zenon
  <2>4. QED
    BY <2>1, <2>2, <2>3, FS_RemoveElement, FS_CardinalityType, ZenonT(60)
<1>11. \A ip \in Addresses : per_client[ip] \in Nat /\ per_client[ip] = Cardinality(Of(ip))
          /\ per_client[ip] <= max_connections_per_client
  BY Zenon DEF TacacsInv, Slots, SlotsMatchConnections
<1>12. per_client' \in [Addresses -> Nat]
       /\ \A ip \in Addresses : per_client'[ip] = Cardinality(Of(ip)') /\ per_client'[ip] <= max_connections_per_client
  <2>1. ASSUME NEW ip \in Addresses
        PROVE  per_client'[ip] \in Nat /\ per_client'[ip] = Cardinality(Of(ip)')
               /\ per_client'[ip] <= max_connections_per_client
    <3>1. CASE ip = conns[c].ip
      <4>1. per_client'[ip] = per_client[ip] - 1
        BY <1>1, <3>1, Zenon DEF TacacsInv, Slots
      <4>2. Cardinality(Of(ip)') = per_client[ip] - 1 /\ per_client[ip] - 1 \in Nat
        BY <1>10, <1>11, <3>1, Zenon
      <4>3. per_client[ip] \in Nat /\ per_client[ip] <= max_connections_per_client
        BY <1>11, Zenon
      <4>4. QED
        BY <4>1, <4>2, <4>3, LimitAssumption
    <3>2. CASE ip # conns[c].ip
      <4>1. per_client'[ip] = per_client[ip]
        BY <1>1, <3>2, Zenon DEF TacacsInv, Slots
      <4>2. QED
        BY <1>8, <1>11, <3>2, <4>1, Zenon
    <3>3. QED
      BY <3>1, <3>2, Zenon
  <2>2. DOMAIN per_client' = Addresses /\ per_client' = [ip \in Addresses |-> per_client'[ip]]
    BY <1>1, Zenon DEF TacacsInv, Slots
  <2>3. QED
    BY <2>1, <2>2, Zenon
<1>13. total' \in Nat /\ total' = Cardinality(Open') /\ total' <= max_connections
  <2>1. total = Cardinality(Open) /\ total <= max_connections
    BY Zenon DEF TacacsInv, Slots, SlotsMatchConnections
  <2>2. QED
    BY <1>1, <1>6, <2>1, LimitAssumption
<1>14. Slots'
  BY <1>6, <1>12, <1>13, Zenon DEF Slots, SlotsMatchConnections
<1>15. QED
  BY <1>1, <1>2, <1>3, <1>14, Zenon DEF TacacsInv, Sound, Busy

\* _handle() counts a connection it takes on, within both limits.
LEMMA AcceptKeeps ==
    ASSUME TacacsInv, NEW c \in Conns, NEW ip \in Addresses, accept(c, ip)
    PROVE  TacacsInv'
<1> DEFINE Of(a) == {d \in Open : conns[d].ip = a}
<1>1. PICK x : x = [ip |-> ip, pc |-> "lookup", logins |-> NoLogins, said |-> NoDialogue, job |-> NoJob]
  BY Zenon
<1>2. /\ conns' = [conns EXCEPT ![c] = x] /\ conns[c] = None /\ total' = total + 1
      /\ per_client' = [per_client EXCEPT ![ip] = @ + 1]
      /\ total < max_connections /\ per_client[ip] < max_connections_per_client
      /\ UNCHANGED <<users, groups, sets, clients>>
  BY <1>1, Zenon DEF accept, configVars
<1>3. x \in Connections
  BY <1>1 DEF Connections, NoLogins, NoDialogue
<1>4. Sound(x) /\ x # None /\ x.ip = ip
  BY <1>1, <1>3, NoneAssumption, Zenon DEF Sound, Busy, NoLogins
<1>5. /\ DOMAIN conns' = Conns /\ conns' = [d \in Conns |-> conns'[d]]
      /\ conns'[c] = x /\ \A d \in Conns : d # c => conns'[d] = conns[d]
  BY <1>2, Zenon DEF TacacsInv
<1>6. \A d \in Conns : conns'[d] # None => Sound(conns'[d])
  BY <1>4, <1>5, Zenon DEF TacacsInv
<1>7. c \notin Open /\ Open' = Open \cup {c}
  BY <1>2, <1>4, <1>5, Zenon DEF Open
<1>8. /\ IsFiniteSet(Open) /\ IsFiniteSet(Open') /\ Cardinality(Open') = Cardinality(Open) + 1
      /\ Cardinality(Open) \in Nat
  BY <1>7, FS_AddElement, FS_CardinalityType, Zenon DEF TacacsInv, Slots
<1>9. \A a \in Addresses : IsFiniteSet(Of(a)) /\ Cardinality(Of(a)) \in Nat
  BY <1>8, FS_Subset, FS_CardinalityType, Zenon
<1>10. ASSUME NEW a \in Addresses, a # ip PROVE Of(a)' = Of(a)
  BY <1>4, <1>5, <1>7, <1>10, Zenon DEF Open
<1>11. Cardinality(Of(ip)') = Cardinality(Of(ip)) + 1
  <2>1. Of(ip)' = Of(ip) \cup {c} /\ c \notin Of(ip)
    BY <1>4, <1>5, <1>7 DEF Open
  <2>2. IsFiniteSet(Of(ip))
    BY <1>9, Zenon
  <2>3. QED
    BY <2>1, <2>2, FS_AddElement, Zenon
<1>12. \A a \in Addresses : per_client[a] \in Nat /\ per_client[a] = Cardinality(Of(a))
          /\ per_client[a] <= max_connections_per_client
  BY Zenon DEF TacacsInv, Slots, SlotsMatchConnections
<1>13. per_client' \in [Addresses -> Nat]
       /\ \A a \in Addresses : per_client'[a] = Cardinality(Of(a)') /\ per_client'[a] <= max_connections_per_client
  <2>1. ASSUME NEW a \in Addresses
        PROVE  per_client'[a] \in Nat /\ per_client'[a] = Cardinality(Of(a)')
               /\ per_client'[a] <= max_connections_per_client
    <3>1. CASE a = ip
      <4>1. per_client'[a] = per_client[a] + 1
        BY <1>2, <3>1, Zenon DEF TacacsInv, Slots
      <4>2. Cardinality(Of(a)') = per_client[a] + 1
        BY <1>11, <1>12, <3>1, Zenon
      <4>3. per_client[a] \in Nat /\ per_client[a] < max_connections_per_client
        BY <1>2, <1>12, <3>1, Zenon
      <4>4. QED
        BY <4>1, <4>2, <4>3, LimitAssumption
    <3>2. CASE a # ip
      <4>1. per_client'[a] = per_client[a]
        BY <1>2, <3>2, Zenon DEF TacacsInv, Slots
      <4>2. QED
        BY <1>10, <1>12, <3>2, <4>1, Zenon
    <3>3. QED
      BY <3>1, <3>2, Zenon
  <2>2. DOMAIN per_client' = Addresses /\ per_client' = [a \in Addresses |-> per_client'[a]]
    BY <1>2, Zenon DEF TacacsInv, Slots
  <2>3. QED
    BY <2>1, <2>2, Zenon
<1>14. total' \in Nat /\ total' = Cardinality(Open') /\ total' <= max_connections
  <2>1. total = Cardinality(Open)
    BY Zenon DEF TacacsInv, Slots, SlotsMatchConnections
  <2>2. QED
    BY <1>2, <1>8, <2>1, LimitAssumption
<1>15. Slots'
  BY <1>8, <1>13, <1>14, Zenon DEF Slots, SlotsMatchConnections
<1>16. QED
  BY <1>2, <1>5, <1>6, <1>15, Zenon DEF TacacsInv, Sound, Busy

\* A packet of one session changes what is known of that session alone.
LEMMA SessionMoves ==
    ASSUME NEW old, Sound(old), NEW sid \in Sids, NEW x \in Connections,
           \A s \in Sids : s # sid => x.logins[s] = old.logins[s] /\ x.said[s] = old.said[s],
           x.logins[sid] # None => Follows(x.logins[sid], x.said[sid]),
           Busy(x), x.pc = "verify" => x.job.sid = sid /\ FromDialogue(x.job, x.said[sid])
    PROVE  Sound(x)
  BY Zenon DEF Sound

\* load_user() finds the group of every account that names one: the foreign keys
\* hold.
LEMMA LoadTyped ==
    ASSUME TacacsInv, NEW u PROVE load_user(users, groups, u) \in Infos \cup {None}
<1>1. CASE u \notin Users \/ users[u] = None
  BY <1>1, Zenon DEF load_user
<1>2. CASE u \in Users /\ users[u] # None
  <2>1. users[u] \in UserRows
    BY <1>2, Zenon DEF TacacsInv, Tables
  <2>2. users[u].enabled \in BOOLEAN /\ users[u].group \in Groups \cup {None}
    BY <2>1, Zenon DEF UserRows
  <2>3. CASE users[u].group = None
    <3>1. load_user(users, groups, u) = [enabled |-> users[u].enabled, privilege |-> None, set |-> None, services |-> {}]
      BY <1>2, <2>3, Zenon DEF load_user
    <3>2. QED
      BY <2>2, <3>1 DEF Infos
  <2>4. CASE users[u].group # None
    <3>1. PICK row : row = groups[users[u].group]
      BY Zenon
    <3>2. row \in GroupRows
      BY <1>2, <2>2, <2>4, <3>1, Zenon DEF TacacsInv, Tables
    <3>3. row.set \in Sets \cup {None}
      BY <3>2, RowAssumption, Zenon
    <3>4. load_user(users, groups, u) =
              [enabled |-> users[u].enabled, privilege |-> row.privilege, set |-> row.set, services |-> row.services]
      BY <1>2, <2>4, <3>1, Zenon DEF load_user
    <3>5. QED
      BY <2>2, <3>2, <3>3, <3>4 DEF Infos
  <2>5. QED
    BY <2>3, <2>4, Zenon
<1>3. QED
  BY <1>1, <1>2, Zenon

\* A START forgets the login its session had, and begins another.
LEMMA StartKeeps ==
    ASSUME TacacsInv, NEW c \in Conns, NEW sid \in Sids, NEW start \in Starts, authen_start(c, sid, start)
    PROVE  TacacsInv'
<1> DEFINE said == <<[start |-> start]>>
<1>1. PICK old : old = conns[c]
  BY Zenon
<1>2. PICK heard : heard = Heard(old, sid, 1, [start |-> start])
  BY Zenon
<1>3. PICK conn : conn = [heard EXCEPT !.logins[sid] = None]
  BY Zenon
<1>4. conns[c] # None /\ old.pc = "read"
  BY <1>1, Zenon DEF authen_start, At
<1>5. Sound(old) /\ old \in Connections /\ old.job = NoJob
  BY <1>1, <1>4, Zenon DEF TacacsInv, Sound, Busy
<1>6. /\ said \in Seq(Packets) /\ Len(said) = 1 /\ said[1] = [start |-> start] /\ said # <<>>
  BY DEF Packets
<1>7. heard = [old EXCEPT !.said[sid] = said]
  BY <1>2, Zenon DEF Heard
<1>8. /\ heard \in Connections /\ heard.ip = old.ip /\ heard.pc = old.pc /\ heard.logins = old.logins
      /\ heard.job = old.job /\ heard.said[sid] = said /\ \A s \in Sids : s # sid => heard.said[s] = old.said[s]
  BY <1>5, <1>6, <1>7, Zenon DEF Connections
<1>9. /\ conn \in Connections /\ conn.ip = old.ip /\ conn.pc = "read" /\ conn.job = NoJob
      /\ conn.said[sid] = said /\ conn.logins[sid] = None
      /\ \A s \in Sids : s # sid => conn.said[s] = old.said[s] /\ conn.logins[s] = old.logins[s]
  BY <1>3, <1>4, <1>5, <1>8, Zenon DEF Connections
<1>10. start.user \in Answers
  BY RowAssumption, Zenon DEF Answers
<1>11. CASE start.type = "PAP"
  <2>1. PICK job : job = [kind |-> "authen", sid |-> sid, start |-> start, user |-> start.user,
                          info |-> load_user(users, groups, start.user)]
    BY Zenon
  <2>2. job \in PasswordJobs /\ job.sid = sid /\ job.start = start /\ job.user = start.user
    BY <1>10, <2>1, LoadTyped, Zenon DEF PasswordJobs
  <2>3. FromDialogue(job, said)
    BY <1>6, <1>11, <2>2, Zenon DEF FromDialogue
  <2>4. PICK x : x = [conn EXCEPT !.pc = "verify", !.job = job]
    BY Zenon
  <2>5. /\ x \in Connections /\ x.ip = old.ip /\ x.pc = "verify" /\ x.job = job
        /\ x.logins = conn.logins /\ x.said = conn.said
    BY <1>9, <2>2, <2>4, Zenon DEF Connections
  <2>6. Goto(c, x)
    BY <1>1, <1>2, <1>3, <1>11, <2>1, <2>4, Zenon DEF authen_start, Verify
  <2>7. Sound(x)
    BY <1>5, <1>9, <2>2, <2>3, <2>5, SessionMoves DEF Busy
  <2>8. QED
    BY <1>1, <1>4, <2>5, <2>6, <2>7, GotoKeeps, Zenon
<1>12. CASE start.type = "ASCII"
  <2>1. PICK l : l = [start |-> start, user |-> start.user,
                      awaiting |-> IF start.user # None THEN "pass" ELSE "user", next_seq |-> 3]
    BY Zenon
  <2>2. l \in Logins
    BY <1>10, <2>1, Zenon DEF Logins
  <2>3. Follows(l, said)
    BY <1>6, <1>12, <2>1 DEF Follows
  <2>4. PICK x : x = [conn EXCEPT !.logins[sid] = l]
    BY Zenon
  <2>5. /\ x \in Connections /\ x.ip = old.ip /\ x.pc = "read" /\ x.job = NoJob /\ x.said = conn.said
        /\ x.logins[sid] = l /\ \A s \in Sids : s # sid => x.logins[s] = old.logins[s]
    BY <1>9, <2>2, <2>4, Zenon DEF Connections
  <2>6. Goto(c, x)
    BY <1>1, <1>2, <1>3, <1>12, <2>1, <2>4, Zenon DEF authen_start
  <2>7. Sound(x)
    BY <1>5, <1>9, <2>3, <2>5, SessionMoves DEF Busy
  <2>8. QED
    BY <1>1, <1>4, <2>5, <2>6, <2>7, GotoKeeps, Zenon
<1>13. CASE start.type # "PAP" /\ start.type # "ASCII"
  <2>1. PICK job : job = [kind |-> "authen", result |-> "FAIL", ever |-> TRUE]
    BY Zenon
  <2>2. job \in RecordJobs
    BY <2>1, Zenon DEF RecordJobs
  <2>3. PICK x : x = [conn EXCEPT !.pc = "record", !.job = job]
    BY Zenon
  <2>4. /\ x \in Connections /\ x.ip = old.ip /\ x.pc = "record" /\ x.job = job
        /\ x.logins = conn.logins /\ x.said = conn.said
    BY <1>9, <2>2, <2>3, Zenon DEF Connections
  <2>5. Goto(c, x)
    BY <1>1, <1>2, <1>3, <1>13, <2>1, <2>3, Zenon DEF authen_start, Record
  <2>6. Sound(x)
    BY <1>5, <1>9, <2>2, <2>4, SessionMoves DEF Busy
  <2>7. QED
    BY <1>1, <1>4, <2>4, <2>5, <2>6, GotoKeeps, Zenon
<1>14. QED
  BY <1>11, <1>12, <1>13, Zenon

\* A CONTINUE goes on with the login of its session if it is the packet awaited,
\* and ends it otherwise.
LEMMA ContinueKeeps ==
    ASSUME TacacsInv, NEW c \in Conns, NEW sid \in Sids, NEW seq \in Seqs, NEW answer \in Answers,
           authen_continue(c, sid, seq, answer)
    PROVE  TacacsInv'
<1>1. PICK old : old = conns[c]
  BY Zenon
<1>2. PICK so : so = old.said[sid]
  BY Zenon
<1>3. PICK what : what = [answer |-> answer]
  BY Zenon
<1>4. PICK said : said = IF seq = 1 THEN <<what>>
                         ELSE IF so # <<>> /\ seq = 2 * Len(so) + 1 /\ Len(so) < 3 THEN Append(so, what)
                         ELSE <<>>
  BY Zenon
<1>5. PICK conn : conn = Heard(old, sid, seq, what)
  BY Zenon
<1>6. PICK login : login = old.logins[sid]
  BY Zenon
<1>7. PICK done : done = [conn EXCEPT !.logins[sid] = None]
  BY Zenon
<1>8. conns[c] # None /\ old.pc = "read"
  BY <1>1, Zenon DEF authen_continue, At
<1>9. /\ Sound(old) /\ old \in Connections /\ old.job = NoJob
      /\ login # None => Follows(login, so)
  BY <1>1, <1>2, <1>6, <1>8, Zenon DEF TacacsInv, Sound, Busy
<1>10. so \in Seq(Packets) /\ what \in Packets /\ login \in Logins \cup {None} /\ seq \in Nat
  BY <1>2, <1>3, <1>6, <1>9 DEF Connections, Packets, Seqs
<1>11. said \in Seq(Packets)
  BY <1>4, <1>10
<1>12. conn = [old EXCEPT !.said[sid] = said]
  BY <1>2, <1>4, <1>5, Zenon DEF Heard
<1>13. /\ conn \in Connections /\ conn.ip = old.ip /\ conn.pc = "read" /\ conn.logins = old.logins
       /\ conn.job = NoJob /\ conn.said[sid] = said /\ \A s \in Sids : s # sid => conn.said[s] = old.said[s]
  BY <1>8, <1>9, <1>11, <1>12, Zenon DEF Connections
<1>14. /\ done \in Connections /\ done.ip = old.ip /\ done.pc = "read" /\ done.job = NoJob
       /\ done.said[sid] = said /\ done.logins[sid] = None
       /\ \A s \in Sids : s # sid => done.said[s] = old.said[s] /\ done.logins[s] = old.logins[s]
  BY <1>7, <1>13, Zenon DEF Connections
<1>15. Goto(c, IF login = None \/ seq # login.next_seq \/ answer = "abort" THEN done
               ELSE IF login.awaiting = "user"
               THEN [conn EXCEPT !.logins[sid] = [@ EXCEPT !.user = answer, !.awaiting = "pass", !.next_seq = seq + 2]]
               ELSE Verify(done, sid, login.start, login.user))
  BY <1>1, <1>3, <1>5, <1>6, <1>7, <1>13, Zenon DEF authen_continue
<1>16. CASE login = None \/ seq # login.next_seq \/ answer = "abort"
  <2>1. Goto(c, done)
    BY <1>15, <1>16, Zenon
  <2>2. Sound(done)
    BY <1>9, <1>14, SessionMoves DEF Busy
  <2>3. QED
    BY <1>1, <1>8, <1>14, <2>1, <2>2, GotoKeeps, Zenon
<1>17. ASSUME login # None, seq = login.next_seq, answer # "abort"
       PROVE  /\ login \in Logins /\ Follows(login, so) /\ Len(so) \in {1, 2} /\ seq = 2 * Len(so) + 1
              /\ said = Append(so, what)
  <2>1. login \in Logins /\ Follows(login, so) /\ Len(so) \in {1, 2} /\ seq = 2 * Len(so) + 1
    BY <1>9, <1>10, <1>17, Zenon DEF Follows
  <2>2. so # <<>> /\ Len(so) < 3 /\ seq # 1
    BY <1>10, <2>1, DialogueGrows, ZenonT(60)
  <2>3. QED
    BY <1>4, <2>1, <2>2, Zenon
<1>18. CASE login # None /\ seq = login.next_seq /\ answer # "abort" /\ login.awaiting = "user"
  <2>1. PICK l : l = [login EXCEPT !.user = answer, !.awaiting = "pass", !.next_seq = seq + 2]
    BY Zenon
  <2>2. login \in Logins /\ Follows(login, so) /\ Len(so) = 1
    BY <1>17, <1>18, Zenon DEF Follows
  <2>3. l \in Logins /\ l.user = answer /\ l.awaiting = "pass" /\ l.next_seq = seq + 2 /\ l.start = login.start
    <3>1. seq + 2 \in Nat
      BY <1>10
    <3>2. login \in Logins
      BY <2>2, Zenon
    <3>3. QED
      BY <2>1, <3>1, <3>2, Zenon DEF Logins
  <2>4. Len(said) = 2 /\ said[2] = what /\ said[1] = so[1] /\ seq = 3
    <3>1. said = Append(so, what) /\ Len(so) = 1 /\ seq = 2 * Len(so) + 1
      BY <1>17, <1>18, <2>2, Zenon
    <3>2. QED
      BY <1>10, <3>1, DialogueGrows
  <2>5. Follows(l, said)
    <3>1. login.start.user = None /\ login.start.type = "ASCII" /\ so[1] = [start |-> login.start]
      BY <1>18, <2>2, Zenon DEF Follows
    <3>2. l.next_seq = 2 * Len(said) + 1
      BY <2>3, <2>4
    <3>3. QED
      BY <1>3, <2>3, <2>4, <3>1, <3>2, Zenon DEF Follows
  <2>6. PICK x : x = [conn EXCEPT !.logins[sid] = l]
    BY Zenon
  <2>7. /\ x \in Connections /\ x.ip = old.ip /\ x.pc = "read" /\ x.job = NoJob /\ x.said = conn.said
        /\ x.logins[sid] = l /\ \A s \in Sids : s # sid => x.logins[s] = old.logins[s]
    BY <1>13, <2>3, <2>6, Zenon DEF Connections
  <2>8. conn.logins[sid] = login
    BY <1>6, <1>13, Zenon
  <2>9. [conn EXCEPT !.logins[sid] = [@ EXCEPT !.user = answer, !.awaiting = "pass", !.next_seq = seq + 2]] = x
    BY <2>1, <2>6, <2>8, Zenon
  <2>10. Goto(c, x)
    BY <1>15, <1>18, <2>9, Zenon
  <2>11. Sound(x)
    BY <1>9, <1>13, <2>5, <2>7, SessionMoves DEF Busy
  <2>12. QED
    BY <1>1, <1>8, <2>7, <2>10, <2>11, GotoKeeps, Zenon
<1>19. CASE login # None /\ seq = login.next_seq /\ answer # "abort" /\ login.awaiting # "user"
  <2>1. PICK job : job = [kind |-> "authen", sid |-> sid, start |-> login.start, user |-> login.user,
                          info |-> load_user(users, groups, login.user)]
    BY Zenon
  <2>2. login \in Logins /\ Follows(login, so) /\ login.start \in Starts /\ login.user \in Answers
    BY <1>17, <1>19, Zenon DEF Logins
  <2>3. job \in PasswordJobs /\ job.sid = sid /\ job.start = login.start /\ job.user = login.user
    BY <2>1, <2>2, LoadTyped, Zenon DEF PasswordJobs
  <2>4. FromDialogue(job, said)
    <3>1. /\ login.start.type = "ASCII" /\ so[1] = [start |-> login.start] /\ Len(so) \in {1, 2}
          /\ login.start.user # None => Len(so) = 1 /\ login.user = login.start.user
          /\ login.start.user = None => Len(so) = 2 /\ so[2] = [answer |-> login.user]
      BY <1>19, <2>2, Zenon DEF Follows
    <3>2. said = Append(so, what)
      BY <1>17, <1>19, Zenon
    <3>3. said # <<>> /\ said[1] = so[1]
      BY <1>10, <3>1, <3>2, DialogueGrows
    <3>4. /\ login.start.user # None => Len(said) = 2 /\ job.user = job.start.user
          /\ login.start.user = None => Len(said) = 3 /\ said[2] = [answer |-> job.user]
      BY <1>10, <2>3, <3>1, <3>2, DialogueGrows
    <3>5. job.start.type # "PAP" /\ said[1] = [start |-> job.start]
      BY <2>3, <3>1, <3>3, Zenon
    <3>6. QED
      BY <2>3, <3>3, <3>4, <3>5, Zenon DEF FromDialogue
  <2>5. PICK x : x = [done EXCEPT !.pc = "verify", !.job = job]
    BY Zenon
  <2>6. /\ x \in Connections /\ x.ip = old.ip /\ x.pc = "verify" /\ x.job = job
        /\ x.logins = done.logins /\ x.said = done.said
    BY <1>14, <2>3, <2>5, Zenon DEF Connections
  <2>7. Goto(c, x)
    BY <1>15, <1>19, <2>1, <2>5, Zenon DEF Verify
  <2>8. Sound(x)
    BY <1>9, <1>14, <2>3, <2>4, <2>6, SessionMoves DEF Busy
  <2>9. QED
    BY <1>1, <1>8, <2>6, <2>7, <2>8, GotoKeeps, Zenon
<1>20. QED
  BY <1>16, <1>18, <1>19, Zenon

\* A connection turns to something other than a password; its sessions stay.
LEMMA TurnKeeps ==
    ASSUME TacacsInv, NEW c \in Conns, conns[c] # None,
           NEW pc \in {"read", "command", "record"}, NEW job,
           pc = "read" => job = NoJob, pc = "command" => job \in CommandJobs, pc = "record" => job \in RecordJobs,
           Goto(c, [conns[c] EXCEPT !.pc = pc, !.job = job])
    PROVE  TacacsInv'
<1>1. PICK old : old = conns[c]
  BY Zenon
<1>2. Sound(old) /\ old \in Connections
  BY <1>1, Zenon DEF TacacsInv, Sound
<1>3. PICK x : x = [old EXCEPT !.pc = pc, !.job = job]
  BY Zenon
<1>4. job \in {NoJob} \cup PasswordJobs \cup CommandJobs \cup RecordJobs
  BY Zenon
<1>5. /\ x \in Connections /\ x.ip = old.ip /\ x.pc = pc /\ x.job = job
      /\ x.logins = old.logins /\ x.said = old.said
  BY <1>2, <1>3, <1>4, Zenon DEF Connections
<1>6. Sound(x)
  BY <1>2, <1>5, Zenon DEF Sound, Busy
<1>7. QED
  BY <1>1, <1>3, <1>5, <1>6, GotoKeeps, Zenon

\* The history of a command is a truth value.
LEMMA WithinBoolean ==
    ASSUME NEW us, NEW gs, NEW ss, NEW u, NEW line
    PROVE  Within(us, gs, ss, u, line) \in BOOLEAN
  BY Zenon DEF Within

\* An unknown device is let go.
LEMMA LookupKeeps ==
    ASSUME TacacsInv, NEW c \in Conns, lookup_client(c) PROVE TacacsInv'
<1>1. conns[c] # None /\ conns[c].pc = "lookup"
  BY Zenon DEF lookup_client, At
<1>2. CASE conns[c].ip \notin clients
  BY <1>1, <1>2, CloseKeeps, Zenon DEF lookup_client
<1>3. CASE conns[c].ip \in clients
  <2>1. PICK old : old = conns[c]
    BY Zenon
  <2>2. Sound(old) /\ old \in Connections /\ old.pc = "lookup"
    BY <1>1, <2>1, Zenon DEF TacacsInv, Sound
  <2>3. PICK x : x = [old EXCEPT !.pc = "read"]
    BY Zenon
  <2>4. x \in Connections /\ x.ip = old.ip /\ x.pc = "read" /\ x.job = old.job /\ x.logins = old.logins /\ x.said = old.said
    BY <2>2, <2>3, Zenon DEF Connections
  <2>5. Sound(x)
    BY <2>2, <2>4, Zenon DEF Sound, Busy
  <2>6. conns' = [conns EXCEPT ![c] = x]
    BY <1>3, <2>1, <2>3, Zenon DEF lookup_client, TacacsInv
  <2>7. Goto(c, x)
    BY <1>3, <2>6, Zenon DEF lookup_client, Goto, Keep
  <2>8. QED
    BY <1>1, <2>1, <2>4, <2>5, <2>7, GotoKeeps, Zenon
<1>4. QED
  BY <1>2, <1>3, Zenon

\* Passwords, commands and accounting end in a log row.
LEMMA RecordKeeps ==
    ASSUME TacacsInv, NEW c \in Conns, conns[c] # None,
           NEW kind \in {"authen", "author", "acct"}, NEW result \in {"PASS", "FAIL"}, NEW ever \in BOOLEAN,
           Goto(c, Record(conns[c], kind, result, ever))
    PROVE  TacacsInv'
<1>1. PICK job : job = [kind |-> kind, result |-> result, ever |-> ever]
  BY Zenon
<1>2. job \in RecordJobs
  BY <1>1, Zenon DEF RecordJobs
<1>3. Goto(c, [conns[c] EXCEPT !.pc = "record", !.job = job])
  BY <1>1, Zenon DEF Record
<1>4. QED
  BY <1>2, <1>3, TurnKeeps, Zenon

\* The account says no, or yes, or a command is looked up.
LEMMA AuthorizeKeeps ==
    ASSUME TacacsInv, NEW c \in Conns, NEW u \in Users \cup {None}, NEW service \in Services,
           NEW line \in Commands \cup {None}, authorize(c, u, service, line)
    PROVE  TacacsInv'
<1> DEFINE info == load_user(users, groups, u)
           granted == admin_rights(info) /\ (service # "shell" => service \in info.services)
<1>1. conns[c] # None
  BY Zenon DEF authorize, At
<1>2. CASE ~granted
  <2>1. Goto(c, Record(conns[c], "author", "FAIL", TRUE))
    BY <1>2, Zenon DEF authorize
  <2>2. QED
    BY <1>1, <2>1, RecordKeeps, Zenon
<1>3. CASE granted /\ (service # "shell" \/ line = None)
  <2>1. Goto(c, Record(conns[c], "author", "PASS", TRUE))
    BY <1>3, Zenon DEF authorize
  <2>2. QED
    BY <1>1, <2>1, RecordKeeps, Zenon
<1>4. CASE granted /\ ~(service # "shell" \/ line = None)
  <2>1. PICK job : job = [kind |-> "author", user |-> u, set |-> info.set, line |-> line,
                          ever |-> Within(users, groups, sets, u, line)]
    BY Zenon
  <2>2. info \in Infos \cup {None} /\ info # None
    BY <1>4, LoadTyped, Zenon DEF admin_rights
  <2>3. info.set \in Sets \cup {None}
    BY <2>2, Zenon DEF Infos
  <2>4. Within(users, groups, sets, u, line) \in BOOLEAN
    BY WithinBoolean, Zenon
  <2>5. job \in CommandJobs
    BY <2>1, <2>3, <2>4, Zenon DEF CommandJobs
  <2>6. Goto(c, [conns[c] EXCEPT !.pc = "command", !.job = job])
    BY <1>4, <2>1, Zenon DEF authorize
  <2>7. QED
    BY <1>1, <2>5, <2>6, TurnKeeps, Zenon
<1>5. QED
  BY <1>2, <1>3, <1>4, Zenon

\* The other steps of a connection.
LEMMA ConnKeeps ==
    ASSUME TacacsInv, NEW c \in Conns, ConnSteps(c) PROVE TacacsInv'
<1>1. ASSUME NEW right \in BOOLEAN, verified(c, right) PROVE TacacsInv'
  <2>1. conns[c] # None
    BY <1>1, Zenon DEF verified, At
  <2>2. PICK result \in {"PASS", "FAIL"} : Goto(c, Record(conns[c], "authen", result, TRUE))
    BY <1>1, Zenon DEF verified
  <2>3. QED
    BY <2>1, <2>2, RecordKeeps, Zenon
<1>2. ASSUME check_command(c) PROVE TacacsInv'
  <2>1. conns[c] # None /\ conns[c].pc = "command"
    BY <1>2, Zenon DEF check_command, At
  <2>2. conns[c].job \in CommandJobs
    BY <2>1, Zenon DEF TacacsInv, Sound, Busy
  <2>3. conns[c].job.ever \in BOOLEAN
    BY <2>2, Zenon DEF CommandJobs
  <2>4. PICK result \in {"PASS", "FAIL"} : Goto(c, Record(conns[c], "author", result, conns[c].job.ever))
    BY <1>2, Zenon DEF check_command
  <2>5. QED
    BY <2>1, <2>3, <2>4, RecordKeeps, Zenon
<1>3. ASSUME account(c) PROVE TacacsInv'
  BY <1>3, RecordKeeps, Zenon DEF account, At
<1>4. ASSUME record(c) PROVE TacacsInv'
  BY <1>4, TurnKeeps, Zenon DEF record, At
<1>5. ASSUME fails(c) PROVE TacacsInv'
  BY <1>5, TurnKeeps, CloseKeeps, Zenon DEF fails
<1>6. ASSUME hang_up(c) PROVE TacacsInv'
  BY <1>6, CloseKeeps, Zenon DEF hang_up, At
<1>7. QED
  BY <1>1, <1>2, <1>3, <1>4, <1>5, <1>6, AcceptKeeps, LookupKeeps, StartKeeps, ContinueKeeps, AuthorizeKeeps, Zenon
     DEF ConnSteps

---------------------------------------------------------------------------
(* The routes.                                                             *)

\* A route leaves the connections as they are, but for the history of a command.
LEMMA EditKeeps ==
    ASSUME TacacsInv, NEW us, NEW gs, NEW ss, Tables(us, gs, ss), Edit(us, gs, ss), clients' \subseteq Addresses
    PROVE  TacacsInv'
<1>1. users' = us /\ groups' = gs /\ sets' = ss /\ UNCHANGED <<total, per_client>>
  BY Zenon DEF Edit, slotVars
<1>2. ASSUME NEW c \in Conns
      PROVE  /\ conns[c] = None => conns'[c] = None
             /\ conns[c] # None => conns'[c] # None /\ conns'[c].ip = conns[c].ip /\ Sound(conns'[c])
  <2>1. CASE ~At(c, "command")
    <3>1. conns'[c] = conns[c]
      BY <2>1, Zenon DEF Edit
    <3>2. QED
      BY <3>1, Zenon DEF TacacsInv
  <2>2. CASE At(c, "command")
    <3>1. PICK old : old = conns[c]
      BY Zenon
    <3>2. PICK ever : ever = (old.job.ever \/ Within(us, gs, ss, old.job.user, old.job.line))
      BY Zenon
    <3>3. PICK x : x = [old EXCEPT !.job.ever = ever]
      BY Zenon
    <3>4. conns[c] # None /\ old.pc = "command" /\ conns'[c] = x
      BY <2>2, <3>1, <3>2, <3>3, Zenon DEF Edit, At
    <3>5. Sound(old) /\ old \in Connections /\ old.job \in CommandJobs
      BY <3>1, <3>4, Zenon DEF TacacsInv, Sound, Busy
    <3>6. ever \in BOOLEAN
      BY <3>2, Zenon
    <3>7. PICK job : job = [old.job EXCEPT !.ever = ever]
      BY Zenon
    <3>8. job \in CommandJobs
      BY <3>5, <3>6, <3>7, Zenon DEF CommandJobs
    <3>9. /\ x \in Connections /\ x.ip = old.ip /\ x.pc = "command" /\ x.job = job
          /\ x.logins = old.logins /\ x.said = old.said
      BY <3>3, <3>4, <3>5, <3>7, <3>8, Zenon DEF Connections
    <3>10. Sound(x) /\ x # None
      BY <3>5, <3>8, <3>9, NoneAssumption, Zenon DEF Sound, Busy
    <3>11. QED
      BY <3>1, <3>4, <3>9, <3>10, Zenon
  <2>3. QED
    BY <2>1, <2>2, Zenon
<1>3. DOMAIN conns' = Conns /\ conns' = [c \in Conns |-> conns'[c]]
  BY Zenon DEF Edit
<1>4. Open' = Open /\ \A c \in Open : conns'[c].ip = conns[c].ip
  BY <1>2, Zenon DEF Open
<1>5. \A ip \in Addresses : {c \in Open : conns[c].ip = ip}' = {c \in Open : conns[c].ip = ip}
  BY <1>4, Zenon
<1>6. Slots'
  BY <1>1, <1>4, <1>5, Zenon DEF TacacsInv, Slots, SlotsMatchConnections
<1>7. QED
  BY <1>1, <1>2, <1>3, <1>6, Zenon DEF TacacsInv, Tables, Sound, Busy

\* Every route keeps the tables sound: a group that is named exists, and a
\* command set that is in use is not deleted.
LEMMA EditStepsKeep ==
    ASSUME TacacsInv, EditSteps PROVE TacacsInv'
<1>0. Tables(users, groups, sets) /\ clients \subseteq Addresses
  BY Zenon DEF TacacsInv
<1>1. ASSUME NEW u \in Users, delete_user(u) PROVE TacacsInv'
  <2>1. Tables([users EXCEPT ![u] = None], groups, sets)
    BY <1>0, Zenon DEF Tables
  <2>2. QED
    BY <1>0, <1>1, <2>1, EditKeeps, Zenon DEF delete_user
<1>2. ASSUME NEW u \in Users, NEW row \in UserRows, save_user(u, row) PROVE TacacsInv'
  <2>1. Tables([users EXCEPT ![u] = row], groups, sets)
    BY <1>0, <1>2, Zenon DEF Tables, save_user
  <2>2. QED
    BY <1>0, <1>2, <2>1, EditKeeps, Zenon DEF save_user
<1>3. ASSUME NEW g \in Groups, delete_group(g) PROVE TacacsInv'
  <2> DEFINE us == [u \in Users |-> IF users[u] # None /\ users[u].group = g THEN [users[u] EXCEPT !.group = None]
                                    ELSE users[u]]
             gs == [groups EXCEPT ![g] = None]
  <2>1. ASSUME NEW u \in Users
        PROVE  /\ us[u] \in UserRows \cup {None}
               /\ us[u] # None /\ us[u].group # None => gs[us[u].group] # None
    <3>1. CASE users[u] # None /\ users[u].group = g
      <4>1. us[u] = [users[u] EXCEPT !.group = None] /\ users[u] \in UserRows
        BY <1>0, <3>1, Zenon DEF Tables
      <4>2. us[u] \in UserRows /\ us[u].group = None
        BY <4>1, Zenon DEF UserRows
      <4>3. QED
        BY <4>2, Zenon
    <3>2. CASE ~(users[u] # None /\ users[u].group = g)
      <4>1. us[u] = users[u] /\ users[u] \in UserRows \cup {None}
        BY <1>0, <3>2, Zenon DEF Tables
      <4>2. CASE users[u] # None /\ users[u].group # None
        <5>1. users[u].group \in Groups /\ users[u].group # g
          BY <3>2, <4>1, <4>2, Zenon DEF UserRows
        <5>2. gs[users[u].group] = groups[users[u].group] /\ groups[users[u].group] # None
          BY <1>0, <4>2, <5>1, Zenon DEF Tables
        <5>3. QED
          BY <4>1, <5>2, Zenon
      <4>3. QED
        BY <4>1, <4>2, Zenon
    <3>3. QED
      BY <3>1, <3>2, Zenon
  <2>2. /\ gs \in [Groups -> GroupRows \cup {None}]
        /\ \A h \in Groups : gs[h] # None /\ gs[h].set # None => sets[gs[h].set] # None
    BY <1>0, Zenon DEF Tables
  <2>3. us \in [Users -> UserRows \cup {None}]
    BY <2>1, Zenon
  <2>4. Tables(us, gs, sets)
    BY <1>0, <2>1, <2>2, <2>3, Zenon DEF Tables
  <2>5. Edit(us, gs, sets) /\ UNCHANGED clients
    BY <1>3, Zenon DEF delete_group
  <2>6. QED
    BY <1>0, <2>4, <2>5, EditKeeps, Zenon
<1>4. ASSUME NEW g \in Groups, NEW row \in GroupRows, save_group(g, row) PROVE TacacsInv'
  <2>1. Tables(users, [groups EXCEPT ![g] = row], sets)
    BY <1>0, <1>4, NoneAssumption DEF Tables, save_group
  <2>2. QED
    BY <1>0, <1>4, <2>1, EditKeeps, Zenon DEF save_group
<1>5. ASSUME NEW s \in Sets, delete_command_set(s) PROVE TacacsInv'
  <2>1. Tables(users, groups, [sets EXCEPT ![s] = None])
    <3>1. \A g \in Groups : groups[g] # None => groups[g].set # s /\ groups[g].set \in Sets \cup {None}
      BY <1>0, <1>5, RowAssumption, Zenon DEF Tables, delete_command_set
    <3>2. QED
      BY <1>0, <3>1, Zenon DEF Tables
  <2>2. QED
    BY <1>0, <1>5, <2>1, EditKeeps, Zenon DEF delete_command_set
<1>6. ASSUME NEW s \in Sets, NEW row \in SetRows, save_command_set(s, row) PROVE TacacsInv'
  <2>1. Tables(users, groups, [sets EXCEPT ![s] = row])
    <3>1. \A g \in Groups : groups[g] # None => groups[g].set \in Sets \cup {None}
      BY <1>0, RowAssumption, Zenon DEF Tables
    <3>2. QED
      BY <1>0, <3>1, NoneAssumption, Zenon DEF Tables
  <2>2. QED
    BY <1>0, <1>6, <2>1, EditKeeps, Zenon DEF save_command_set
<1>7. ASSUME NEW ip \in Addresses, save_client(ip) PROVE TacacsInv'
  <2>1. clients' \subseteq Addresses /\ Edit(users, groups, sets)
    BY <1>0, <1>7, Zenon DEF save_client
  <2>2. QED
    BY <1>0, <2>1, EditKeeps, Zenon
<1>8. QED
  BY <1>1, <1>2, <1>3, <1>4, <1>5, <1>6, <1>7, Zenon DEF EditSteps

---------------------------------------------------------------------------
(* The theorems.                                                           *)

\* A server that has just started has no connection, and its tables are sound.
LEMMA TacacsInitInv == TacacsInit => TacacsInv
<1> SUFFICES ASSUME TacacsInit PROVE TacacsInv
  BY Zenon
<1>1. Tables(users, groups, sets)
  <2>1. \A u \in Users : users[u] \in UserRows /\ (users[u].group # None => users[u].group \in Groups)
    BY Zenon DEF TacacsInit, UserRows
  <2>2. \A g \in Groups : groups[g] \in GroupRows /\ groups[g] # None /\ (groups[g].set # None => groups[g].set \in Sets)
    BY RowAssumption, NoneAssumption, Zenon DEF TacacsInit
  <2>3. \A s \in Sets : sets[s] # None
    BY NoneAssumption, Zenon DEF TacacsInit
  <2>4. QED
    BY <2>1, <2>2, <2>3, Zenon DEF TacacsInit, Tables
<1>2. Open = {} /\ \A ip \in Addresses : {c \in Open : conns[c].ip = ip} = {}
  BY Zenon DEF TacacsInit, Open
<1>3. IsFiniteSet({}) /\ Cardinality({}) = 0
  BY FS_EmptySet, Zenon
<1>4. Slots
  <2>1. total = 0 /\ per_client = [ip \in Addresses |-> 0]
    BY Zenon DEF TacacsInit
  <2>2. QED
    BY <1>2, <1>3, <2>1, LimitAssumption DEF Slots, SlotsMatchConnections
<1>5. QED
  BY <1>1, <1>4, Zenon DEF TacacsInit, TacacsInv

\* Every step of a connection and every edit keeps it.
LEMMA TacacsNextInv == TacacsInv /\ [TacacsNext]_tacacsVars => TacacsInv'
<1> SUFFICES ASSUME TacacsInv, [TacacsNext]_tacacsVars PROVE TacacsInv'
  BY Zenon
<1>1. CASE TacacsNext
  BY <1>1, ConnKeeps, EditStepsKeep, Zenon DEF TacacsNext
<1>2. CASE UNCHANGED tacacsVars
  <2>1. UNCHANGED <<users, groups, sets, clients, total, per_client, conns>>
    BY <1>2, Zenon DEF tacacsVars, configVars, slotVars
  <2>2. Open' = Open /\ \A ip \in Addresses : {c \in Open : conns[c].ip = ip}' = {c \in Open : conns[c].ip = ip}
    BY <2>1, Zenon DEF Open
  <2>3. Slots'
    BY <2>1, <2>2, Zenon DEF TacacsInv, Slots, SlotsMatchConnections
  <2>4. QED
    BY <2>1, <2>3, Zenon DEF TacacsInv, Tables, Sound, Busy
<1>3. QED
  BY <1>1, <1>2, Zenon

\* The inductive invariant of the TACACS+ server.
THEOREM TacacsInvariant == TacacsSpec => []TacacsInv
  BY TacacsInitInv, TacacsNextInv, PTL DEF TacacsSpec

\* No account or group names a row that is gone, and a connection has a job
\* exactly when it is not reading.
THEOREM TacacsTypeCorrect == TacacsSpec => []TacacsTypeOK
<1>1. TacacsInv => TacacsTypeOK
  <2> SUFFICES ASSUME TacacsInv PROVE TacacsTypeOK
    BY Zenon
  <2>1. ASSUME NEW c \in Conns, conns[c] # None
        PROVE  /\ conns[c].ip \in Addresses
               /\ conns[c].pc \in {"lookup", "read", "verify", "command", "record"}
               /\ conns[c].pc \in {"lookup", "read"} <=> conns[c].job = NoJob
    <3>1. conns[c] \in Connections /\ Busy(conns[c])
      BY <2>1, Zenon DEF TacacsInv, Sound
    <3>2. conns[c].ip \in Addresses /\ conns[c].pc \in {"lookup", "read", "verify", "command", "record"}
      BY <3>1, Zenon DEF Connections
    <3>3. NoJob.kind = "none" /\ NoJob \notin PasswordJobs /\ NoJob \notin CommandJobs /\ NoJob \notin RecordJobs
      BY Zenon DEF NoJob, PasswordJobs, CommandJobs, RecordJobs
    <3>4. QED
      BY <3>1, <3>2, <3>3, Zenon DEF Busy
  <2>2. QED
    BY <2>1, Zenon DEF TacacsTypeOK, TacacsInv, Tables
<1>2. QED
  BY <1>1, TacacsInvariant, PTL

\* The counters of _handle() are the connections that are open, for any limits
\* and any number of devices.
THEOREM ConnectionsAreCounted == TacacsSpec => []SlotsMatchConnections
<1>1. TacacsInv => SlotsMatchConnections
  BY Zenon DEF TacacsInv, Slots
<1>2. QED
  BY <1>1, TacacsInvariant, PTL

\* What verify() checks is what this session of this connection said, in its
\* packets 1, 3 and 5, however many dialogues are interleaved.
THEOREM LoginsAreOfOneDialogue == TacacsSpec => []LoginsFromOwnDialogue
<1>1. TacacsInv => LoginsFromOwnDialogue
  <2> SUFFICES ASSUME TacacsInv, NEW c \in Conns, At(c, "verify")
               PROVE  FromDialogue(conns[c].job, conns[c].said[conns[c].job.sid])
    BY Zenon DEF LoginsFromOwnDialogue, FromDialogue
  <2>1. QED
    BY Zenon DEF At, TacacsInv, Sound
<1>2. QED
  BY <1>1, TacacsInvariant, PTL

=============================================================================
