------------------------------- MODULE Tacacs -------------------------------
(***************************************************************************)
(* The TACACS+ server (naco/tacacs/server.py, authz.py, the header checks  *)
(* of protocol.py) and the routes that edit what it reads: clients, groups *)
(* and command sets (naco/api/routes/network.py, users.py).                *)
(*                                                                         *)
(* A connection is a task.  It is suspended while it looks up its client,  *)
(* waits for a packet, checks a password, loads a command set or stores a  *)
(* log row; other connections and the routes run meanwhile.  Users are     *)
(* local; whether a password is right, and whether the guess guard refuses *)
(* to look at it, is left open.                                            *)
(***************************************************************************)
EXTENDS Naturals, Sequences, FiniteSets

CONSTANTS
    Users, Groups, Sets, Addresses, Commands,
    Services,                    \* what devices ask for: "shell" and others
    None,                        \* no row, and an empty name
    GroupRows, SetRows,          \* what the routes store
    Conns,                       \* names of connections
    Sids,                        \* TACACS+ session ids
    Starts,                      \* authentication START packets
    MaxSeq,                      \* bound on the sequence numbers of packets
    max_connections, max_connections_per_client,
    MaxEdits                     \* bound on the edits of the tables

VARIABLES
    users, groups, sets,  \* tables users, groups, command_sets: a row or None
    clients,              \* addresses of the enabled TACACS+ clients
    conns,                \* the tasks in _handle(), or None
    total, per_client,    \* TacacsServer._total, _per_client
    edits                 \* how many edits have been made

configVars == <<users, groups, sets, clients, edits>>
slotVars == <<total, per_client>>
tacacsVars == <<configVars, slotVars, conns>>

NoLogins == [s \in Sids |-> None]
NoDialogue == [s \in Sids |-> <<>>]
NoJob == [kind |-> "none"]

\* What a device may answer to a question of a dialogue.
Answers == Users \cup {None, "abort"}

\* A row of users; a login being asked for (_Login); what load_user() returns;
\* what a connection that is not reading does; what a session may say; a connection.
UserRows == [enabled : BOOLEAN, group : Groups \cup {None}]
Logins == [start : Starts, user : Answers, awaiting : {"user", "pass"}, next_seq : Nat]
Infos ==
    [enabled : BOOLEAN, privilege : {row.privilege : row \in GroupRows} \cup {None}, set : Sets \cup {None},
     services : {row.services : row \in GroupRows} \cup {{}}]
PasswordJobs == [kind : {"authen"}, sid : Sids, start : Starts, user : Answers, info : Infos \cup {None}]
CommandJobs ==
    [kind : {"author"}, user : Users \cup {None}, set : Sets \cup {None}, line : Commands \cup {None}, ever : BOOLEAN]
RecordJobs == [kind : {"authen", "author", "acct"}, result : {"PASS", "FAIL"}, ever : BOOLEAN]
Packets == [start : Starts] \cup [answer : Answers]
Connections ==
    [ip : Addresses, pc : {"lookup", "read", "verify", "command", "record"}, logins : [Sids -> Logins \cup {None}],
     said : [Sids -> Seq(Packets)],
     job : {NoJob} \cup PasswordJobs \cup CommandJobs \cup RecordJobs]

ASSUME LimitAssumption == max_connections \in Nat /\ max_connections_per_client \in Nat

ASSUME RowAssumption ==
    /\ \A row \in GroupRows : row.set \in Sets \cup {None}
    /\ \A start \in Starts : start.user \in Users \cup {None}

ASSUME NoneAssumption ==
    /\ None \notin Groups /\ None \notin Sets
    /\ None \notin UserRows /\ None \notin GroupRows /\ None \notin SetRows
    /\ None \notin Logins /\ None \notin Connections

TacacsTypeOK ==
    /\ \A u \in Users : users[u] = None \/ users[u] \in UserRows
    /\ \A g \in Groups : groups[g] = None \/ groups[g] \in GroupRows
    /\ \A s \in Sets : sets[s] = None \/ sets[s] \in SetRows
    /\ \A g \in Groups : groups[g] # None /\ groups[g].set # None => sets[groups[g].set] # None
    /\ \A u \in Users : users[u] # None /\ users[u].group # None => groups[users[u].group] # None
    /\ clients \subseteq Addresses
    /\ \A c \in Conns : conns[c] # None =>
          /\ conns[c].ip \in Addresses
          /\ conns[c].pc \in {"lookup", "read", "verify", "command", "record"}
          /\ conns[c].pc \in {"lookup", "read"} <=> conns[c].job = NoJob

---------------------------------------------------------------------------
(* authz.py                                                                *)

\* load_user(): the account joined with its group; None for no account.  The
\* tables are parameters: the history below asks about the next state too.
load_user(us, gs, u) ==
    IF u \notin Users \/ us[u] = None THEN None
    ELSE LET g == us[u].group
         IN  IF g = None THEN [enabled |-> us[u].enabled, privilege |-> None, set |-> None, services |-> {}]
             ELSE [enabled |-> us[u].enabled, privilege |-> gs[g].privilege, set |-> gs[g].set,
                   services |-> gs[g].services]

admin_rights(info) == info # None /\ info.enabled /\ info.privilege # None

privilege_allowed(info, level) == level <= info.privilege

\* The first rule that matches the line decides, else the default; no set
\* allows every command.
command_allowed(line, set) ==
    \/ set = None
    \/ LET hits == {i \in DOMAIN set.rules : line \in set.rules[i].lines}
       IN  IF hits = {} THEN set.default = "PERMIT"
           ELSE \E i \in hits : set.rules[i].action = "PERMIT" /\ \A j \in hits : i <= j

load_command_set(ss, id) == IF id = None THEN None ELSE ss[id]

---------------------------------------------------------------------------
(* TacacsServer._handle                                                    *)

Open == {c \in Conns : conns[c] # None}

\* A connection is taken on when neither limit is reached.
accept(c, ip) ==
    /\ conns[c] = None
    /\ total < max_connections /\ per_client[ip] < max_connections_per_client
    /\ total' = total + 1
    /\ per_client' = [per_client EXCEPT ![ip] = @ + 1]
    /\ conns' = [conns EXCEPT ![c] =
          [ip |-> ip, pc |-> "lookup", logins |-> NoLogins, said |-> NoDialogue, job |-> NoJob]]
    /\ UNCHANGED configVars

\* Mutant of Close: the count of the address is not given back.
CloseKeepingCount(c) ==
    /\ total' = total - 1
    /\ conns' = [conns EXCEPT ![c] = None]
    /\ UNCHANGED <<configVars, per_client>>

\* The finally clause, reached by every return and exception.
Close(c) ==
    /\ total' = total - 1
    /\ per_client' = [per_client EXCEPT ![conns[c].ip] = @ - 1]
    /\ conns' = [conns EXCEPT ![c] = None]
    /\ UNCHANGED configVars

At(c, pc) == conns[c] # None /\ conns[c].pc = pc

lookup_client(c) ==
    /\ At(c, "lookup")
    /\ IF conns[c].ip \in clients
       THEN conns' = [conns EXCEPT ![c].pc = "read"] /\ UNCHANGED <<configVars, slotVars>>
       ELSE Close(c)

\* The device hangs up or stays silent, a packet is malformed, of an even or the
\* last sequence number, or the reply to one cannot be written.
hang_up(c) == At(c, "read") /\ Close(c)

---------------------------------------------------------------------------
(* _Connection                                                             *)

Keep == UNCHANGED <<configVars, slotVars>>

\* The connection's next state; nothing else changes.
Goto(c, state) == conns' = [conns EXCEPT ![c] = state] /\ Keep

\* verify(), up to the comparison: authenticate_user() reads the account.
Verify(conn, sid, start, user) ==
    [conn EXCEPT !.pc = "verify", !.job = [kind |-> "authen", sid |-> sid, start |-> start, user |-> user,
                                           info |-> load_user(users, groups, user)]]

Record(conn, kind, result, ever) ==
    [conn EXCEPT !.pc = "record", !.job = [kind |-> kind, result |-> result, ever |-> ever]]

\* History: the packets of a session since its START, while their numbers are
\* 1, 3, 5 and no dialogue has come to its end.
Heard(conn, sid, seq, what) ==
    LET said == conn.said[sid]
    IN  [conn EXCEPT !.said[sid] =
            IF seq = 1 THEN <<what>>
            ELSE IF said # <<>> /\ seq = 2 * Len(said) + 1 /\ Len(said) < 3 THEN Append(said, what)
            ELSE <<>>]

authen_start(c, sid, start) ==
    /\ At(c, "read")
    /\ LET conn == [Heard(conns[c], sid, 1, [start |-> start]) EXCEPT !.logins[sid] = None]
           login(awaiting) == [start |-> start, user |-> start.user, awaiting |-> awaiting, next_seq |-> 3]
       IN  CASE start.type = "PAP" -> Goto(c, Verify(conn, sid, start, start.user))
             [] start.type = "ASCII" ->
                    Goto(c, [conn EXCEPT !.logins[sid] = login(IF start.user # None THEN "pass" ELSE "user")])
             [] OTHER -> Goto(c, Record(conn, "authen", "FAIL", TRUE))

\* Mutant of authen_continue: the sequence number is not compared.
authen_continue_any_seq(c, sid, seq, answer) ==
    /\ At(c, "read")
    /\ LET conn == Heard(conns[c], sid, seq, [answer |-> answer])
           login == conn.logins[sid]
           done == [conn EXCEPT !.logins[sid] = None]
       IN  Goto(c, IF login = None \/ answer = "abort" THEN done
                   ELSE IF login.awaiting = "user"
                   THEN [conn EXCEPT !.logins[sid] = [@ EXCEPT !.user = answer, !.awaiting = "pass",
                                                               !.next_seq = seq + 2]]
                   ELSE Verify(done, sid, login.start, login.user))

\* An answer of the device, or "abort", in a packet numbered seq.
authen_continue(c, sid, seq, answer) ==
    /\ At(c, "read")
    /\ LET conn == Heard(conns[c], sid, seq, [answer |-> answer])
           login == conn.logins[sid]
           done == [conn EXCEPT !.logins[sid] = None]
       IN  Goto(c, IF login = None \/ seq # login.next_seq \/ answer = "abort" THEN done
                   ELSE IF login.awaiting = "user"
                   THEN [conn EXCEPT !.logins[sid] = [@ EXCEPT !.user = answer, !.awaiting = "pass",
                                                               !.next_seq = seq + 2]]
                   ELSE Verify(done, sid, login.start, login.user))

\* The rest of verify(), by what was read of the account: the guess guard
\* refuses, the password is wrong, rights are missing, or the login passes.
verified(c, right) ==
    /\ At(c, "verify")
    /\ LET job == conns[c].job
           pass == /\ right /\ admin_rights(job.info)
                   /\ job.start.service = "enable" => privilege_allowed(job.info, job.start.level)
       IN  Goto(c, Record(conns[c], "authen", IF pass THEN "PASS" ELSE "FAIL", TRUE))

\* Whether the line is within the command set of the user's group.
Within(us, gs, ss, u, line) ==
    LET info == load_user(us, gs, u) IN info # None /\ command_allowed(line, load_command_set(ss, info.set))

\* authorize(): the account is read; a service of the group's list or a shell (no
\* command) is granted or refused on that, a command goes on to the command set.
\* `ever` is history: whether the line has been Within at some moment since.
authorize(c, u, service, line) ==
    /\ At(c, "read")
    /\ LET info == load_user(users, groups, u)
           granted == admin_rights(info) /\ (service # "shell" => service \in info.services)
       IN  Goto(c, IF ~granted THEN Record(conns[c], "author", "FAIL", TRUE)
                   ELSE IF service # "shell" \/ line = None THEN Record(conns[c], "author", "PASS", TRUE)
                   ELSE [conns[c] EXCEPT !.pc = "command", !.job =
                           [kind |-> "author", user |-> u, set |-> info.set, line |-> line,
                            ever |-> Within(users, groups, sets, u, line)]])

check_command(c) ==
    /\ At(c, "command")
    /\ LET job == conns[c].job
           allowed == command_allowed(job.line, load_command_set(sets, job.set))
       IN  Goto(c, Record(conns[c], "author", IF allowed THEN "PASS" ELSE "FAIL", job.ever))

account(c) == At(c, "read") /\ Goto(c, Record(conns[c], "acct", "PASS", TRUE))

\* record() commits the log row and the reply is written.
record(c) == At(c, "record") /\ Goto(c, [conns[c] EXCEPT !.pc = "read", !.job = NoJob])

\* A transaction raises (the database stays locked): accounting answers with an
\* error, any other task ends.
fails(c) ==
    /\ conns[c] # None /\ conns[c].pc # "read"
    /\ IF conns[c].job.kind = "acct"
       THEN Goto(c, [conns[c] EXCEPT !.pc = "read", !.job = NoJob])
       ELSE Close(c)

---------------------------------------------------------------------------
(* The routes.                                                             *)

Edit(us, gs, ss) ==
    /\ edits < MaxEdits /\ edits' = edits + 1
    /\ users' = us /\ groups' = gs /\ sets' = ss
    /\ conns' = [c \in Conns |->
          IF At(c, "command")
          THEN [conns[c] EXCEPT !.job.ever = @ \/ Within(us, gs, ss, conns[c].job.user, conns[c].job.line)]
          ELSE conns[c]]
    /\ UNCHANGED slotVars

\* create_user, update_user: the group must exist.
save_user(u, row) ==
    /\ users[u] # row
    /\ row.group # None => groups[row.group] # None
    /\ Edit([users EXCEPT ![u] = row], groups, sets)
    /\ UNCHANGED clients

delete_user(u) == users[u] # None /\ Edit([users EXCEPT ![u] = None], groups, sets) /\ UNCHANGED clients

\* create_group, update_group: the command set must exist.
save_group(g, row) ==
    /\ groups[g] # row
    /\ row.set # None => sets[row.set] # None
    /\ Edit(users, [groups EXCEPT ![g] = row], sets)
    /\ UNCHANGED clients

\* delete_group, when no policy names it: its members are in no group (ON DELETE
\* SET NULL).
delete_group(g) ==
    /\ groups[g] # None
    /\ Edit([u \in Users |-> IF users[u] # None /\ users[u].group = g THEN [users[u] EXCEPT !.group = None]
                             ELSE users[u]],
            [groups EXCEPT ![g] = None], sets)
    /\ UNCHANGED clients

\* create_command_set, update_command_set.
save_command_set(s, row) == sets[s] # row /\ Edit(users, groups, [sets EXCEPT ![s] = row]) /\ UNCHANGED clients

\* Mutant of delete_command_set: a set in use may be deleted.
delete_command_set_in_use(s) == sets[s] # None /\ Edit(users, groups, [sets EXCEPT ![s] = None]) /\ UNCHANGED clients

\* delete_command_set: refused while a group uses it.
delete_command_set(s) ==
    /\ sets[s] # None
    /\ \A g \in Groups : groups[g] # None => groups[g].set # s
    /\ Edit(users, groups, [sets EXCEPT ![s] = None])
    /\ UNCHANGED clients

\* create_tacacs, update_tacacs, delete_tacacs: an address is served or not.
save_client(ip) ==
    /\ clients' = IF ip \in clients THEN clients \ {ip} ELSE clients \cup {ip}
    /\ Edit(users, groups, sets)

---------------------------------------------------------------------------
\* TacacsServer.__init__, on tables that hold what the routes stored before.
TacacsInit ==
    /\ users \in [Users -> UserRows] /\ groups \in [Groups -> GroupRows] /\ sets \in [Sets -> SetRows]
    /\ clients = Addresses
    /\ conns = [c \in Conns |-> None]
    /\ total = 0 /\ per_client = [ip \in Addresses |-> 0]
    /\ edits = 0

Seqs == {n \in 3..MaxSeq : n % 2 = 1}

ConnSteps(c) ==
    \/ \E ip \in Addresses : accept(c, ip)
    \/ lookup_client(c) \/ hang_up(c)
    \/ \E sid \in Sids :
          \/ \E start \in Starts : authen_start(c, sid, start)
          \/ \E seq \in Seqs, answer \in Answers : authen_continue(c, sid, seq, answer)
    \/ \E right \in BOOLEAN : verified(c, right)
    \/ \E u \in Users \cup {None}, service \in Services, line \in Commands \cup {None} :
          authorize(c, u, service, line)
    \/ check_command(c) \/ account(c) \/ record(c) \/ fails(c)

EditSteps ==
    \/ \E u \in Users : delete_user(u) \/ \E row \in UserRows : save_user(u, row)
    \/ \E g \in Groups : delete_group(g) \/ \E row \in GroupRows : save_group(g, row)
    \/ \E s \in Sets : delete_command_set(s) \/ \E row \in SetRows : save_command_set(s, row)
    \/ \E ip \in Addresses : save_client(ip)

TacacsNext == EditSteps \/ \E c \in Conns : ConnSteps(c)

TacacsSpec == TacacsInit /\ [][TacacsNext]_tacacsVars

---------------------------------------------------------------------------
(* Properties.                                                             *)

\* "total and per-client connection counts are capped": the counters of
\* _handle() are the connections that are open, on every way in and out of it,
\* and neither passes its limit.
SlotsMatchConnections ==
    /\ total = Cardinality(Open) /\ total <= max_connections
    /\ \A ip \in Addresses :
          /\ per_client[ip] = Cardinality({c \in Open : conns[c].ip = ip})
          /\ per_client[ip] <= max_connections_per_client

\* "ASCII login state is bound to the TACACS+ session id and its sequence
\* numbers": what verify() checks is the start and the name that this session
\* of this connection gave, in packets 1, 3 and 5, with no other authentication
\* packet of the session between.
LoginsFromOwnDialogue ==
    \A c \in Conns : At(c, "verify") =>
        LET job == conns[c].job
            said == conns[c].said[job.sid]
        IN  /\ said # <<>> /\ said[1] = [start |-> job.start]
            /\ IF job.start.type = "PAP" THEN Len(said) = 1 /\ job.user = job.start.user
               ELSE IF job.start.user # None THEN Len(said) = 2 /\ job.user = job.start.user
               ELSE Len(said) = 3 /\ said[2] = [answer |-> job.user]

\* "checks each command against the group's command set": a command is granted
\* only if it was within the command set of the user's group, as the tables were
\* at some moment between the request and the answer.
CommandsWithinSet ==
    \A c \in Conns : At(c, "record") /\ conns[c].job.result = "PASS" => conns[c].job.ever
=============================================================================
