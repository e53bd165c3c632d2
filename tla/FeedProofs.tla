----------------------------- MODULE FeedProofs -----------------------------
(***************************************************************************)
(* The event stream (Feed) beside the sessions it stands on, for any       *)
(* number of streams, requests and administrators, any queue size and any  *)
(* times.  A step of Feed is a step of AdminAuth or leaves it alone, so    *)
(* all that AuthProofs shows holds here too; of the stream, the invariant  *)
(* says how old its last check is, which events wait in its queue, and     *)
(* what is left of the session or token it was opened with.                *)
(***************************************************************************)
EXTENDS Feed, AuthProofs

Events == [n : Nat, audit : BOOLEAN]
StreamStates ==
    [pc : {"first", "loop", "check", "wait", "send"}, id : Ids \cup {0}, serial : Nat, token : Tokens \cup {None},
     sees : BOOLEAN, queue : Seq(Events), last : Nat, began : Nat, checked : Nat, since : Nat,
     mistaken : BOOLEAN]

FeedTyped ==
    /\ now \in 0..MaxNow /\ events \in 0..MaxEvents
    /\ streams \in [Streams -> StreamStates \cup {Closed}]
    /\ gone \in [Streams -> 0..MaxNow \cup {None}]

\* A wait begins within Recheck of the last check, and lasts Wait at most.
Timely(st) ==
    /\ st.began <= st.checked /\ st.checked <= now /\ st.since <= now
    /\ st.pc = "wait" => now <= st.since + Wait /\ st.since <= st.checked + Recheck

\* The queue holds the latest events.
Latest(st) ==
    /\ Len(st.queue) <= QueueSize
    /\ \A i \in 1..Len(st.queue) : st.queue[i].n = events - Len(st.queue) + i
    /\ st.queue = <<>> => st.last = events

\* Of a request or a stream: the token has been given out; or the session is an
\* earlier sign-in's, and while it is the one in its row the account has the
\* role it was found to have.
Known(x) ==
    /\ x.token # None => x.token \in Tokens /\ tokens[x.token] # "unused"
    /\ x.token = None =>
          /\ x.id \in Ids /\ x.serial <= signins
          /\ (x.sees /\ sessions[x.id] # None /\ sessions[x.id].serial = x.serial) =>
                admins[sessions[x.id].admin].role # "VIEWER"

\* The last check, or the beginning of the stream, was no later than t.
Since(st, t) == st.checked <= t \/ st.checked <= st.began

\* gone says since when the credential does not hold, which no check found since.
GoneSince(s) ==
    /\ gone[s] = None => Holds(s)
    /\ gone[s] # None => ~Holds(s) /\ (~streams[s].mistaken => Since(streams[s], gone[s]))

FeedInv ==
    /\ AuthInv
    /\ FeedTyped
    /\ \A p \in Procs : procs[p].pc = "route" => Known(procs[p])
    /\ \A s \in Streams : streams[s] = Closed => gone[s] = None
    /\ \A s \in Streams : streams[s] # Closed =>
          Timely(streams[s]) /\ Latest(streams[s]) /\ Known(streams[s]) /\ GoneSince(s)

---------------------------------------------------------------------------
(* AdminAuth in Feed.                                                      *)

\* open_stream() is the end of a request; other steps of a stream leave the
\* accounts alone.
LEMMA FeedStepIsAuthStep == [FeedNext]_<<authVars, feedVars, gone>> => [AuthNext]_authVars
<1> SUFFICES ASSUME FeedSteps PROVE [AuthNext]_authVars
  BY Zenon DEF FeedNext, feedVars
<1>1. ASSUME NEW audit \in BOOLEAN, publish(audit) PROVE UNCHANGED authVars
  BY <1>1, Zenon DEF publish
<1>2. ASSUME NEW s \in Streams,
             begin(s) \/ loop(s) \/ check(s) \/ take(s) \/ keep_alive(s) \/ sent(s) \/ disconnect(s)
      PROVE  UNCHANGED authVars
  BY <1>2, Zenon DEF begin, loop, check, take, keep_alive, sent, disconnect, Moves
<1>3. ASSUME NEW s \in Streams, NEW p \in Procs, open_stream(s, p) PROVE AuthNext
  <2>1. procs[p] # Idle
    BY <1>3 DEF open_stream, Idle
  <2>2. leave(p)
    BY <1>3, <2>1, Zenon DEF open_stream, leave
  <2>3. QED
    BY <2>2, Zenon DEF AuthNext, OwnSteps
<1>4. ASSUME time_passes PROVE UNCHANGED authVars
  BY <1>4, Zenon DEF time_passes
<1>5. QED
  BY <1>1, <1>2, <1>3, <1>4, Zenon DEF FeedSteps

\* What AuthProofs shows of the accounts holds beside the streams too.
THEOREM FeedImplementsAuth == FeedSpec => AuthSpec
  BY FeedStepIsAuthStep, PTL DEF FeedSpec, AuthSpec

---------------------------------------------------------------------------
(* What a step leaves of sessions and tokens.                              *)

\* A session that stays is of the same account, which is not enabled and whose
\* role does not change; any other is a later sign-in's.  Tokens only go.
RightsKept ==
    /\ signins' \in Nat /\ signins <= signins'
    /\ \A i \in Ids : sessions'[i] # None =>
          \/ sessions'[i].serial = signins + 1
          \/ /\ sessions[i] # None /\ sessions'[i].serial = sessions[i].serial
             /\ sessions'[i].admin = sessions[i].admin
             /\ admins'[sessions[i].admin].enabled => admins[sessions[i].admin].enabled
             /\ admins'[sessions[i].admin].role = admins[sessions[i].admin].role
    /\ \A t \in Tokens : /\ tokens[t] # "unused" => tokens'[t] # "unused"
                         /\ tokens'[t] = "live" => tokens[t] # "revoked"

\* The accounts stay, and sessions only go.
LEMMA RightsOfKept ==
    ASSUME AuthInv, UNCHANGED <<admins, tokens, signins>>,
           \A i \in Ids : sessions'[i] # None => sessions'[i] = sessions[i]
    PROVE  RightsKept
  BY DEF RightsKept, AuthInv, AuthTyped

\* One account changes: its sessions go, or its role and whether it is enabled stay.
LEMMA RightsOfChanged ==
    ASSUME AuthInv, UNCHANGED <<tokens, signins>>, NEW b \in Admins, NEW row, admins' = [admins EXCEPT ![b] = row],
           \A i \in Ids : sessions'[i] # None =>
               sessions[i] # None /\ sessions'[i].serial = sessions[i].serial /\ sessions'[i].admin = sessions[i].admin,
           \/ \A i \in Ids : sessions'[i] # None => sessions'[i].admin # b
           \/ row.role = admins[b].role /\ row.enabled = admins[b].enabled
    PROVE  RightsKept
<1>1. admins'[b] = row /\ \A a \in Admins : a # b => admins'[a] = admins[a]
  BY Zenon DEF AuthInv, AuthTyped
<1>2. ASSUME NEW i \in Ids, sessions'[i] # None
      PROVE  /\ admins'[sessions[i].admin].enabled => admins[sessions[i].admin].enabled
             /\ admins'[sessions[i].admin].role = admins[sessions[i].admin].role
  <2>1. sessions[i] \in SessionRows
    BY <1>2, Zenon DEF AuthInv, AuthTyped
  <2>2. sessions[i].admin \in Admins
    BY <2>1, Zenon DEF SessionRows
  <2>3. QED
    BY <1>1, <1>2, <2>2
<1>3. QED
  BY <1>2 DEF RightsKept, AuthInv, AuthTyped

\* The account is left without sessions.
LEMMA RightsOfRevoked ==
    ASSUME AuthInv, UNCHANGED <<tokens, signins>>, NEW b \in Admins, NEW row, admins' = [admins EXCEPT ![b] = row],
           sessions' = revoke_all(b, 0)
    PROVE  RightsKept
<1>1. \A i \in Ids : sessions'[i] # None => sessions[i] # None /\ sessions'[i] = sessions[i] /\ sessions'[i].admin # b
  <2>1. \A i \in Ids : i # 0
    BY DEF Ids
  <2>2. QED
    BY <2>1, RevokeAll DEF AuthInv
<1>2. QED
  BY <1>1, RightsOfChanged, Zenon

\* A sign-in.
LEMMA RightsOfSignIn ==
    ASSUME AuthInv, NEW p \in Procs, procs[p].pc \in {"login", "recovery"}, Current(p) # None,
           NEW row, row.role = Current(p).role, row.enabled = Current(p).enabled, SignIn(p, row)
    PROVE  RightsKept
<1> DEFINE a == procs[p].admin
           new == Session(a, procs[p].password)
<1>1. a \in Admins /\ signins \in Nat
  BY LoginState DEF AuthInv, AuthTyped
<1>2. signins' = signins + 1 /\ admins' = [admins EXCEPT ![a] = row] /\ sessions' = [sessions EXCEPT ![NextId] = new]
      /\ UNCHANGED tokens
  BY Zenon DEF SignIn
<1>3. new.serial = signins + 1
  BY Zenon DEF Session
<1> HIDE DEF new
<1>4. \A i \in Ids : sessions'[i] = new \/ sessions'[i] = sessions[i]
  BY <1>2, Zenon DEF AuthInv, AuthTyped
<1>5. admins[a].role = row.role /\ admins[a].enabled = row.enabled /\ admins'[a] = row
      /\ \A b \in Admins : b # a => admins'[b] = admins[b]
  BY <1>1, <1>2, Zenon DEF Current, AuthInv, AuthTyped
<1>6. ASSUME NEW i \in Ids, sessions'[i] = sessions[i], sessions[i] # None
      PROVE  /\ admins'[sessions[i].admin].enabled => admins[sessions[i].admin].enabled
             /\ admins'[sessions[i].admin].role = admins[sessions[i].admin].role
  <2>1. sessions[i] \in SessionRows
    BY <1>6, Zenon DEF AuthInv, AuthTyped
  <2>2. sessions[i].admin \in Admins
    BY <2>1, Zenon DEF SessionRows
  <2>3. QED
    BY <1>5, <2>2, Zenon
<1>7. signins' \in Nat /\ signins <= signins'
  BY <1>1, <1>2
<1>8. QED
  BY <1>2, <1>3, <1>4, <1>6, <1>7, Zenon DEF RightsKept

\* The route of an administrator on the own account.
LEMMA RightsOfReauthenticated ==
    ASSUME AuthInv, NEW p \in Procs, procs[p].pc \in {"password", "setup", "confirm", "disable"},
           Current(p) # None, NEW row \in AdminRows, row.role = Current(p).role, row.enabled = Current(p).enabled,
           Reauthenticated(p, row)
    PROVE  RightsKept
<1>1. procs[p].admin \in Admins /\ procs[p].id \in Ids
  BY PausedState, Zenon
<1>2. admins' = [admins EXCEPT ![procs[p].admin] = row] /\ UNCHANGED <<tokens, signins>>
  BY Zenon DEF Reauthenticated
<1>3. QED
  BY <1>1, <1>2, ReauthenticatedSessions, RightsOfChanged, Zenon DEF Current

\* Requests up to their first write.
LEMMA RightsOfReading ==
    ASSUME AuthInv, UNCHANGED <<admins, sessions, tokens, signins>>
    PROVE  RightsKept
  BY RightsOfKept, Zenon

\* An administrator's own requests.
LEMMA RightsOfOwnSteps ==
    ASSUME AuthInv, NEW p \in Procs, SignInSteps(p) \/ OwnSteps(p)
    PROVE  RightsKept
<1> DEFINE old == Current(p)
<1>1. ASSUME procs[p].pc \in {"password", "setup", "confirm", "disable"}, old # None
      PROVE  old \in AdminRows /\ NoSecret \in Nat /\ NoStep \in Int
  BY <1>1, PausedState DEF NoSecret, NoStep
<1>2. CASE login_without_factor(p)
  BY <1>2, RightsOfSignIn, Zenon DEF login_without_factor, AtFactor
<1>3. CASE login_totp(p)
  <2>1. PICK row : row = [old EXCEPT !.last_step = totp_match(old.secret, procs[p].code, old.last_step)]
    BY Zenon
  <2>2. SignIn(p, row) /\ procs[p].pc = "login" /\ old # None
    BY <1>3, <2>1, Zenon DEF login_totp, AtFactor
  <2>3. old \in AdminRows
    BY <2>2, LoginState, Zenon
  <2>4. row.role = old.role /\ row.enabled = old.enabled
    BY <2>1, <2>3, Zenon DEF AdminRows
  <2>5. QED
    BY <2>2, <2>4, RightsOfSignIn, Zenon
<1>4. CASE login_recovery_end(p)
  <2>1. PICK row : row = [old EXCEPT !.recovery = @ \ {procs[p].code}]
    BY Zenon
  <2>2. SignIn(p, row) /\ procs[p].pc = "recovery" /\ old # None
    BY <1>4, <2>1, Zenon DEF login_recovery_end
  <2>3. old \in AdminRows
    BY <2>2, LoginState, Zenon
  <2>4. row.role = old.role /\ row.enabled = old.enabled
    BY <2>1, <2>3, Zenon DEF AdminRows
  <2>5. QED
    BY <2>2, <2>4, RightsOfSignIn, Zenon
<1>5. CASE change_password_end(p)
  <2>1. PICK row : row = [old EXCEPT !.password = fresh', !.must_change = FALSE]
    BY Zenon
  <2>2. procs[p].pc = "password" /\ old # None /\ Draw /\ Reauthenticated(p, row)
    BY <1>5, <2>1, Zenon DEF change_password_end
  <2>3. fresh' \in Nat
    BY <2>2, DrawTyped, Zenon DEF AuthInv
  <2>4. row \in AdminRows /\ row.role = old.role /\ row.enabled = old.enabled
    BY <1>1, <2>1, <2>2, <2>3, Zenon DEF AdminRows
  <2>5. QED
    BY <2>2, <2>4, RightsOfReauthenticated, Zenon
<1>6. CASE totp_setup_end(p)
  <2>1. PICK row : row = [old EXCEPT !.pending = fresh']
    BY Zenon
  <2>2. procs[p].pc = "setup" /\ old # None /\ UNCHANGED <<sessions, tokens, signins>>
        /\ admins' = [admins EXCEPT ![procs[p].admin] = row] /\ procs[p].admin \in Admins
    BY <1>6, <2>1, PausedState, Zenon DEF totp_setup_end, Current
  <2>3. row.role = old.role /\ row.enabled = old.enabled
    BY <1>1, <2>1, <2>2, Zenon DEF AdminRows
  <2>4. QED
    BY <2>2, <2>3, RightsOfChanged, Zenon DEF Current
<1>7. CASE totp_confirm_end(p)
  <2> DEFINE code == procs[p].code
  <2>1. PICK row : row = [old EXCEPT !.secret = code[2], !.pending = NoSecret,
                                     !.last_step = code[3], !.recovery = CodeSet(fresh')]
    BY Zenon
  <2>2. procs[p].pc = "confirm" /\ old # None /\ Draw /\ Reauthenticated(p, row)
    BY <1>7, <2>1, Zenon DEF totp_confirm_end
  <2>3. code[2] \in Nat /\ code[3] \in Int
    BY <2>2, PausedState, Zenon DEF CodeType
  <2>4. CodeSet(fresh') \in SUBSET CodeType
    BY <2>2, DrawTyped, CodeSetTyped, Zenon DEF AuthInv
  <2>5. row \in AdminRows /\ row.role = old.role /\ row.enabled = old.enabled
    BY <1>1, <2>1, <2>2, <2>3, <2>4, Zenon DEF AdminRows
  <2>6. QED
    BY <2>2, <2>5, RightsOfReauthenticated, Zenon
<1>8. CASE totp_disable_end(p)
  <2>1. PICK row : row = [old EXCEPT !.secret = NoSecret, !.last_step = NoStep, !.recovery = {}]
    BY Zenon
  <2>2. procs[p].pc = "disable" /\ old # None /\ Reauthenticated(p, row)
    BY <1>8, <2>1, Zenon DEF totp_disable_end
  <2>3. row \in AdminRows /\ row.role = old.role /\ row.enabled = old.enabled
    BY <1>1, <2>1, <2>2, Zenon DEF AdminRows
  <2>4. QED
    BY <2>2, <2>3, RightsOfReauthenticated, Zenon
<1>9. CASE logout(p) \/ \E i \in Ids : end_session(p, i)
  BY <1>9, RightsOfKept, Zenon DEF logout, end_session, AuthInv, AuthTyped
<1>10. CASE UNCHANGED <<admins, sessions, tokens, signins>>
  BY <1>10, RightsOfReading, Zenon
<1>11. QED
  BY <1>2, <1>3, <1>4, <1>5, <1>6, <1>7, <1>8, <1>9, <1>10, Zenon
     DEF SignInSteps, OwnSteps, login, login_recovery, resolve, leave, change_password, totp_setup,
         totp_confirm, totp_disable, Pause

\* All steps of AdminAuth.
LEMMA AuthStepKeepsRights == AuthInv /\ [AuthNext]_authVars => RightsKept
<1> SUFFICES ASSUME AuthInv, [AuthNext]_authVars PROVE RightsKept
  BY Zenon
<1>1. ASSUME NEW p \in Procs, SuperuserSteps(p) PROVE RightsKept
  <2>1. ASSUME NEW t \in Tokens, token_principal(p, t) PROVE RightsKept
    BY <2>1, RightsOfReading, Zenon DEF token_principal
  <2>2. ASSUME NEW t \in Tokens, save_token(p, t) PROVE RightsKept
    BY <2>2 DEF save_token, RightsKept, AuthInv, AuthTyped
  <2>3. ASSUME NEW role \in Roles, create_admin(p, role) PROVE RightsKept
    <3>1. PICK b \in Admins : NextAdmin(b) /\ admins' = [admins EXCEPT ![b] = Admin(role, fresh')]
      BY <2>3, Zenon DEF create_admin
    <3>2. admins[b] = None /\ UNCHANGED <<sessions, tokens, signins>>
      BY <2>3, <3>1, NextAdminIsNew, Zenon DEF create_admin
    <3>3. \A i \in Ids : sessions'[i] # None => sessions'[i].admin # b
      BY <3>2, Zenon DEF AuthInv, SessionInv
    <3>4. QED
      BY <3>1, <3>2, <3>3, RightsOfChanged, Zenon
  <2>4. ASSUME NEW b \in Admins, delete_admin(p, b) PROVE RightsKept
    BY <2>4, RightsOfRevoked, Zenon DEF delete_admin
  <2>5. ASSUME NEW b \in Admins, reset_admin_password(p, b) PROVE RightsKept
    BY <2>5, RightsOfRevoked, Zenon DEF reset_admin_password, NewPassword
  <2>6. ASSUME NEW b \in Admins, reset_admin_totp(p, b) PROVE RightsKept
    BY <2>6, RightsOfRevoked, Zenon DEF reset_admin_totp, NoFactor
  <2>7. ASSUME NEW b \in Admins, NEW role \in Roles, NEW on \in BOOLEAN, update_admin(p, b, role, on)
        PROVE  RightsKept
    <3>1. PICK row : row = [admins[b] EXCEPT !.role = role, !.enabled = on]
      BY Zenon
    <3>2. admins[b] \in AdminRows /\ UNCHANGED <<tokens, signins>> /\ admins' = [admins EXCEPT ![b] = row]
      BY <2>7, <3>1, Zenon DEF update_admin, OnOther, AuthInv, AuthTyped
    <3>3. row.role = role /\ row.enabled = on
      BY <3>1, <3>2, Zenon DEF AdminRows
    <3>4. CASE sessions' = revoke_all(b, 0)
      BY <3>2, <3>4, RightsOfRevoked, Zenon
    <3>5. CASE sessions' = sessions /\ admins[b].role = role /\ admins[b].enabled = on
      BY <3>2, <3>3, <3>5, RightsOfChanged, Zenon
    <3>6. QED
      BY <2>7, <3>4, <3>5, Zenon DEF update_admin
  <2>8. QED
    BY <1>1, <2>1, <2>2, <2>3, <2>4, <2>5, <2>6, <2>7, Zenon DEF SuperuserSteps
<1>2. ASSUME NEW b \in Admins, cli_reset_password(b) \/ cli_reset_totp(b) PROVE RightsKept
  BY <1>2, RightsOfRevoked, Zenon DEF cli_reset_password, NewPassword, cli_reset_totp, NoFactor
<1>3. ASSUME NEW i \in Ids, expire(i) PROVE RightsKept
  BY <1>3, RightsOfKept, Zenon DEF expire, AuthInv, AuthTyped
<1>4. CASE tick \/ UNCHANGED authVars
  BY <1>4, RightsOfReading, Zenon DEF tick, authVars
<1>5. QED
  BY <1>1, <1>2, <1>3, <1>4, RightsOfOwnSteps, Zenon DEF AuthNext

---------------------------------------------------------------------------
(* A stream's credential.                                                  *)

\* What was known of a request or a stream stays so.
LEMMA KnownStays ==
    ASSUME AuthInv, RightsKept, NEW x, x.serial \in Nat, Known(x)
    PROVE  Known(x)'
<1>1. CASE x.token # None
  BY <1>1, Zenon DEF Known, RightsKept
<1>2. CASE x.token = None
  <2>1. x.id \in Ids /\ x.serial <= signins /\ signins \in Nat
    BY <1>2 DEF Known, AuthInv, AuthTyped
  <2>2. x.serial <= signins' /\ x.serial # signins + 1
    BY <2>1 DEF RightsKept
  <2>3. ASSUME x.sees, sessions'[x.id] # None, sessions'[x.id].serial = x.serial
        PROVE  admins'[sessions'[x.id].admin].role # "VIEWER"
    BY <1>2, <2>1, <2>2, <2>3, Zenon DEF Known, RightsKept
  <2>4. QED
    BY <1>2, <2>1, <2>2, <2>3, Zenon DEF Known
<1>3. QED
  BY <1>1, <1>2, Zenon

\* A credential that is gone does not come back.
LEMMA GoneStays ==
    ASSUME AuthInv, RightsKept, NEW s \in Streams, streams[s].serial \in Nat, Known(streams[s]),
           streams'[s].token = streams[s].token, streams'[s].id = streams[s].id,
           streams'[s].serial = streams[s].serial, Holds(s)'
    PROVE  Holds(s)
<1> DEFINE st == streams[s]
<1>1. CASE st.token # None
  <2>1. st.token \in Tokens /\ tokens[st.token] # "unused" /\ tokens'[st.token] = "live"
    BY <1>1, Zenon DEF Known, Holds
  <2>2. tokens[st.token] \in {"unused", "live", "revoked"} /\ tokens[st.token] # "revoked"
    BY <2>1, Zenon DEF RightsKept, AuthInv, AuthTyped
  <2>3. QED
    BY <1>1, <2>1, <2>2, Zenon DEF Holds
<1>2. CASE st.token = None
  <2>1. st.id \in Ids /\ st.serial <= signins /\ signins \in Nat
    BY <1>2 DEF Known, AuthInv, AuthTyped
  <2>2. st.serial # signins + 1
    BY <2>1
  <2>3. sessions'[st.id] # None /\ sessions'[st.id].serial = st.serial /\ admins'[sessions'[st.id].admin].enabled
    BY <1>2, Zenon DEF Holds
  <2>4. QED
    BY <1>2, <2>1, <2>2, <2>3, Zenon DEF Holds, RightsKept
<1>3. QED
  BY <1>1, <1>2, Zenon

\* What Noted records of one stream.
LEMMA GoneNoted ==
    ASSUME FeedTyped, Noted, now' \in 0..MaxNow, NEW s \in Streams,
           streams'[s] # Closed =>
               /\ streams'[s].checked <= now'
               /\ gone[s] # None => ~Holds(s)' /\ (~streams'[s].mistaken => Since(streams'[s], gone[s]))
    PROVE  /\ gone'[s] \in 0..MaxNow \cup {None}
           /\ streams'[s] = Closed => gone'[s] = None
           /\ streams'[s] # Closed => GoneSince(s)'
<1>1. gone'[s] = CASE s \notin Open' -> None
                   [] s \in Open' /\ gone[s] = None /\ ~Holds(s)' -> now'
                   [] OTHER -> gone[s]
  BY Zenon DEF Noted
<1>2. s \in Open' <=> streams'[s] # Closed
  BY Zenon DEF Open
<1>3. gone[s] \in 0..MaxNow \cup {None} /\ now' # None
  BY FeedAssumption DEF FeedTyped
<1>4. CASE streams'[s] = Closed
  BY <1>1, <1>2, <1>4, Zenon
<1>5. CASE streams'[s] # Closed /\ gone[s] = None /\ ~Holds(s)'
  <2>1. gone'[s] = now'
    BY <1>1, <1>2, <1>5, Zenon
  <2>2. QED
    BY <1>3, <1>5, <2>1, Zenon DEF GoneSince, Since
<1>6. CASE streams'[s] # Closed /\ ~(gone[s] = None /\ ~Holds(s)')
  <2>1. gone'[s] = gone[s]
    BY <1>1, <1>2, <1>6, Zenon
  <2>2. QED
    BY <1>3, <1>6, <2>1, Zenon DEF GoneSince
<1>7. QED
  BY <1>4, <1>5, <1>6, Zenon

---------------------------------------------------------------------------
(* The queue.                                                              *)

\* The new event is last, and a full queue loses its first.
LEMMA PutLatest ==
    ASSUME events \in Nat, NEW q \in Seq(Events), Len(q) <= QueueSize, NEW e \in Events, e.n = events + 1,
           \A i \in 1..Len(q) : q[i].n = events - Len(q) + i
    PROVE  /\ Put(q, e) \in Seq(Events) /\ Len(Put(q, e)) <= QueueSize /\ Put(q, e) # <<>>
           /\ \A i \in 1..Len(Put(q, e)) : Put(q, e)[i].n = events + 1 - Len(Put(q, e)) + i
<1>0. QueueSize \in Nat \ {0} /\ Len(q) \in Nat
  BY FeedAssumption
<1>1. PICK r : r = IF Len(q) = QueueSize THEN Tail(q) ELSE q
  BY Zenon
<1>2. r \in Seq(Events) /\ Len(r) \in Nat /\ Len(r) < QueueSize
      /\ \A i \in 1..Len(r) : r[i].n = events - Len(r) + i
  <2>1. CASE Len(q) # QueueSize
    <3>1. r = q
      BY <1>1, <2>1, Zenon
    <3>2. Len(q) < QueueSize
      BY <1>0, <2>1
    <3>3. QED
      BY <1>0, <3>1, <3>2, Zenon
  <2>2. CASE Len(q) = QueueSize
    <3>1. q # <<>> /\ r = Tail(q)
      BY <1>0, <1>1, <2>2, Zenon
    <3>2. r \in Seq(Events) /\ Len(r) = Len(q) - 1 /\ \A i \in 1..Len(r) : r[i] = q[i + 1]
      BY <1>0, <3>1
    <3>3. ASSUME NEW i \in 1..Len(r) PROVE r[i].n = events - Len(r) + i
      <4>1. i + 1 \in 1..Len(q) /\ r[i] = q[i + 1]
        BY <1>0, <3>2
      <4>2. r[i].n = events - Len(q) + (i + 1)
        BY <4>1, Zenon
      <4>3. QED
        BY <1>0, <3>2, <4>2
    <3>4. Len(r) \in Nat /\ Len(r) < QueueSize
      BY <1>0, <2>2, <3>2
    <3>5. QED
      BY <3>2, <3>3, <3>4, Zenon
  <2>3. QED
    BY <2>1, <2>2, Zenon
<1>3. Put(q, e) = Append(r, e)
  BY <1>1, Zenon DEF Put
<1>4. PICK t : t = Append(r, e)
  BY Zenon
<1>5. t \in Seq(Events) /\ Len(t) = Len(r) + 1 /\ t[Len(r) + 1] = e /\ \A i \in 1..Len(r) : t[i] = r[i]
  BY <1>2, <1>4
<1>6. ASSUME NEW i \in 1..Len(t) PROVE t[i].n = events + 1 - Len(t) + i
  <2>1. CASE i \in 1..Len(r)
    BY <1>2, <1>5, <2>1
  <2>2. CASE i = Len(r) + 1
    BY <1>2, <1>5, <2>2
  <2>3. QED
    BY <1>2, <1>5, <2>1, <2>2
<1>7. Len(t) <= QueueSize /\ t # <<>>
  BY <1>0, <1>2, <1>5
<1>8. QED
  BY <1>3, <1>4, <1>5, <1>6, <1>7, Zenon

\* The first event is taken.
LEMMA TakeLatest ==
    ASSUME events \in Nat, NEW q \in Seq(Events), q # <<>>, Len(q) <= QueueSize,
           \A i \in 1..Len(q) : q[i].n = events - Len(q) + i
    PROVE  /\ Tail(q) \in Seq(Events) /\ Len(Tail(q)) <= QueueSize /\ Head(q) \in Events
           /\ \A i \in 1..Len(Tail(q)) : Tail(q)[i].n = events - Len(Tail(q)) + i
           /\ Tail(q) = <<>> => Head(q).n = events
<1>0. QueueSize \in Nat \ {0} /\ Len(q) \in Nat \ {0}
  BY FeedAssumption
<1>1. PICK r : r = Tail(q)
  BY Zenon
<1>2. r \in Seq(Events) /\ Len(r) = Len(q) - 1 /\ \A i \in 1..Len(r) : r[i] = q[i + 1]
  BY <1>0, <1>1
<1>3. ASSUME NEW i \in 1..Len(r) PROVE r[i].n = events - Len(r) + i
  <2>1. i + 1 \in 1..Len(q) /\ r[i] = q[i + 1]
    BY <1>0, <1>2
  <2>2. r[i].n = events - Len(q) + (i + 1)
    BY <2>1, Zenon
  <2>3. QED
    BY <1>0, <1>2, <2>2
<1>4. Head(q) = q[1] /\ 1 \in 1..Len(q) /\ Head(q) \in Events
  BY <1>0
<1>5. ASSUME r = <<>> PROVE Head(q).n = events
  <2>1. Len(q) = 1
    BY <1>0, <1>2, <1>5
  <2>2. QED
    BY <1>4, <2>1
<1>6. Len(r) <= QueueSize
  BY <1>0, <1>2
<1>7. QED
  BY <1>1, <1>2, <1>3, <1>4, <1>5, <1>6, Zenon

---------------------------------------------------------------------------
(* Steps.                                                                  *)

\* What a step must do, Noted taking care of gone.
LEMMA FeedStep ==
    ASSUME FeedInv, Noted, AuthInv',
           now' \in 0..MaxNow, events' \in 0..MaxEvents, streams' \in [Streams -> StreamStates \cup {Closed}],
           \A p \in Procs : procs'[p].pc = "route" => Known(procs[p])',
           \A s \in Streams : streams'[s] = Closed \/
               /\ Timely(streams[s])' /\ Latest(streams[s])' /\ Known(streams[s])'
               /\ gone[s] # None => ~Holds(s)' /\ (~streams'[s].mistaken => Since(streams'[s], gone[s]))
    PROVE  FeedInv'
<1>1. ASSUME NEW s \in Streams
      PROVE  /\ gone'[s] \in 0..MaxNow \cup {None}
             /\ streams'[s] = Closed => gone'[s] = None
             /\ streams'[s] # Closed => GoneSince(s)'
  <2>1. streams'[s] # Closed => streams'[s].checked <= now'
    BY Zenon DEF Timely
  <2>2. QED
    BY <2>1, GoneNoted, Zenon DEF FeedInv
<1>2. gone' \in [Streams -> 0..MaxNow \cup {None}]
  BY <1>1, Zenon DEF Noted
<1>3. FeedTyped'
  BY <1>2, Zenon DEF FeedTyped
<1>4. QED
  BY <1>1, <1>3, Zenon DEF FeedInv

\* The accounts stay as they are, and so does what a stream was opened with.
LEMMA CredentialStays ==
    ASSUME FeedInv, UNCHANGED authVars
    PROVE  /\ AuthInv'
           /\ \A p \in Procs : procs'[p].pc = "route" => Known(procs[p])'
           /\ \A s \in Streams : streams[s] # Closed /\ streams'[s].token = streams[s].token
                                 /\ streams'[s].id = streams[s].id /\ streams'[s].serial = streams[s].serial =>
                 /\ Holds(s)' <=> Holds(s)
                 /\ streams'[s].sees = streams[s].sees => Known(streams[s])'
<1>1. UNCHANGED <<admins, sessions, tokens, signins, procs>>
  BY Zenon DEF authVars
<1>2. AuthInv'
  BY AuthNextInv, Zenon DEF FeedInv
<1>3. \A p \in Procs : procs'[p].pc = "route" => Known(procs[p])'
  BY <1>1, Zenon DEF FeedInv, Known
<1>4. ASSUME NEW s \in Streams, streams[s] # Closed, streams'[s].token = streams[s].token,
             streams'[s].id = streams[s].id, streams'[s].serial = streams[s].serial
      PROVE  /\ Holds(s)' <=> Holds(s)
             /\ streams'[s].sees = streams[s].sees => Known(streams[s])'
  <2>1. Holds(s)' <=> Holds(s)
    BY <1>1, <1>4, Zenon DEF Holds
  <2>2. ASSUME streams'[s].sees = streams[s].sees PROVE Known(streams[s])'
    BY <1>1, <1>4, <2>2, Zenon DEF FeedInv, Known
  <2>3. QED
    BY <2>1, <2>2, Zenon
<1>5. QED
  BY <1>2, <1>3, <1>4, Zenon

\* One stream goes on, or closes.
LEMMA StreamMoves ==
    ASSUME FeedInv, Noted, NEW s \in Streams, streams[s] # Closed,
           NEW new \in StreamStates \cup {Closed}, Moves(s, new),
           \/ new = Closed
           \/ /\ new.token = streams[s].token /\ new.id = streams[s].id /\ new.serial = streams[s].serial
              /\ new.sees = streams[s].sees /\ Timely(new) /\ Latest(new)
              /\ \/ /\ new.checked = streams[s].checked /\ new.mistaken = streams[s].mistaken
                    /\ new.began = streams[s].began
                 \/ ~Holds(s) => new.mistaken
                 \/ new.checked <= new.began
    PROVE  FeedInv'
<1>1. streams' = [streams EXCEPT ![s] = new] /\ UNCHANGED <<authVars, now, events>>
  BY Zenon DEF Moves
<1>2. now' \in 0..MaxNow /\ events' \in 0..MaxEvents /\ streams' \in [Streams -> StreamStates \cup {Closed}]
      /\ streams'[s] = new /\ \A r \in Streams : r # s => streams'[r] = streams[r]
  BY <1>1, Zenon DEF FeedInv, FeedTyped
<1>3. AuthInv' /\ \A p \in Procs : procs'[p].pc = "route" => Known(procs[p])'
  BY <1>1, CredentialStays, Zenon
<1>4. ASSUME NEW r \in Streams, r # s, streams'[r] # Closed
      PROVE  /\ Timely(streams[r])' /\ Latest(streams[r])' /\ Known(streams[r])'
             /\ gone[r] # None => ~Holds(r)' /\ (~streams'[r].mistaken => Since(streams'[r], gone[r]))
  <2>1. streams'[r] = streams[r]
    BY <1>2, <1>4, Zenon
  <2>2. Timely(streams[r])' /\ Latest(streams[r])'
    BY <1>1, <1>4, <2>1, Zenon DEF FeedInv, Timely, Latest
  <2>3. Known(streams[r])' /\ (Holds(r)' <=> Holds(r))
    BY <1>1, <1>4, <2>1, CredentialStays, Zenon
  <2>4. QED
    BY <1>4, <2>1, <2>2, <2>3, Zenon DEF FeedInv, GoneSince
<1>5. ASSUME new # Closed
      PROVE  /\ Timely(streams[s])' /\ Latest(streams[s])' /\ Known(streams[s])'
             /\ gone[s] # None => ~Holds(s)' /\ (~streams'[s].mistaken => Since(streams'[s], gone[s]))
  <2>1. Timely(streams[s])' /\ Latest(streams[s])'
    BY <1>1, <1>2, <1>5, Zenon DEF Timely, Latest
  <2>2. Known(streams[s])' /\ (Holds(s)' <=> Holds(s))
    BY <1>1, <1>2, <1>5, CredentialStays, Zenon
  <2>3. ASSUME gone[s] # None PROVE ~Holds(s)' /\ (~new.mistaken => Since(new, gone[s]))
    BY <1>5, <2>2, <2>3, Zenon DEF FeedInv, GoneSince, Since
  <2>4. QED
    BY <1>2, <2>1, <2>2, <2>3, Zenon
<1>6. \A r \in Streams : streams'[r] = Closed \/
           /\ Timely(streams[r])' /\ Latest(streams[r])' /\ Known(streams[r])'
           /\ gone[r] # None => ~Holds(r)' /\ (~streams'[r].mistaken => Since(streams'[r], gone[r]))
  BY <1>2, <1>4, <1>5, Zenon
<1>7. QED
  BY <1>2, <1>3, <1>6, FeedStep, Zenon

\* An open stream.
LEMMA OpenStream ==
    ASSUME FeedInv, NEW s \in Streams, streams[s].pc # "closed"
    PROVE  /\ streams[s] # Closed /\ streams[s] \in StreamStates
           /\ Timely(streams[s]) /\ Latest(streams[s]) /\ now \in Nat /\ events \in Nat
  BY DEF FeedInv, FeedTyped, Closed

\* The steps of GET /events between two of its waits.
LEMMA StreamStepInv ==
    ASSUME FeedInv, Noted, NEW s \in Streams,
           begin(s) \/ loop(s) \/ check(s) \/ take(s) \/ keep_alive(s) \/ sent(s) \/ disconnect(s)
    PROVE  FeedInv'
<1> DEFINE st == streams[s]
<1>1. st.pc # "closed"
  BY Zenon DEF begin, loop, check, take, keep_alive, sent, disconnect
<1>2. st # Closed /\ st \in StreamStates /\ Timely(st) /\ Latest(st) /\ now \in Nat /\ events \in Nat
  BY <1>1, OpenStream, Zenon
<1>3. /\ st.began \in Nat /\ st.checked \in Nat /\ st.since \in Nat /\ st.queue \in Seq(Events)
      /\ st.began <= st.checked /\ st.checked <= now /\ st.since <= now
  BY <1>2, Zenon DEF StreamStates, Timely
<1>4. CASE loop(s)
  <2>1. CASE now - st.checked > Recheck
    <3>1. PICK new : new = [st EXCEPT !.pc = "check"]
      BY Zenon
    <3>2. new \in StreamStates /\ new.token = st.token /\ new.id = st.id /\ new.serial = st.serial
          /\ new.sees = st.sees /\ new.queue = st.queue /\ new.last = st.last /\ new.pc = "check"
          /\ new.since = st.since /\ new.began = st.began /\ new.checked = st.checked /\ new.mistaken = st.mistaken
      BY <1>2, <3>1, Zenon DEF StreamStates
    <3>3. Moves(s, new)
      BY <1>4, <2>1, <3>1, Zenon DEF loop
    <3>4. Timely(new) /\ Latest(new)
      BY <1>2, <3>2, Zenon DEF Timely, Latest
    <3>5. QED
      BY <1>2, <3>2, <3>3, <3>4, StreamMoves, Zenon
  <2>2. CASE ~(now - st.checked > Recheck)
    <3>1. PICK new : new = [st EXCEPT !.pc = "wait", !.since = now]
      BY Zenon
    <3>2. new \in StreamStates /\ new.token = st.token /\ new.id = st.id /\ new.serial = st.serial
          /\ new.sees = st.sees /\ new.queue = st.queue /\ new.last = st.last /\ new.pc = "wait"
          /\ new.since = now /\ new.began = st.began /\ new.checked = st.checked /\ new.mistaken = st.mistaken
      BY <1>2, <3>1, Zenon DEF StreamStates
    <3>3. Moves(s, new)
      BY <1>4, <2>2, <3>1, Zenon DEF loop
    <3>4. now <= now + Wait /\ now <= st.checked + Recheck /\ now <= now
      BY <1>2, <1>3, <2>2, FeedAssumption
    <3>5. Timely(new) /\ Latest(new)
      BY <1>2, <3>2, <3>4, Zenon DEF Timely, Latest
    <3>6. QED
      BY <1>2, <3>2, <3>3, <3>5, StreamMoves, Zenon
  <2>3. QED
    BY <2>1, <2>2, Zenon
<1>5. CASE check(s)
  <2>1. CASE ~Valid(st)
    BY <1>2, <1>5, <2>1, StreamMoves, Zenon DEF check
  <2>2. CASE Valid(st)
    <3>1. PICK new : new = [st EXCEPT !.pc = "wait", !.since = now, !.checked = now, !.mistaken = @ \/ ~Holds(s)]
      BY Zenon
    <3>2. new \in StreamStates /\ new.token = st.token /\ new.id = st.id /\ new.serial = st.serial
          /\ new.sees = st.sees /\ new.queue = st.queue /\ new.last = st.last /\ new.pc = "wait"
          /\ new.since = now /\ new.began = st.began /\ new.checked = now /\ (~Holds(s) => new.mistaken)
      BY <1>2, <3>1, Zenon DEF StreamStates
    <3>3. Moves(s, new)
      BY <1>5, <2>2, <3>1, Zenon DEF check
    <3>4. now <= now + Wait /\ now <= now + Recheck /\ now <= now /\ st.began <= now
      BY <1>2, <1>3, FeedAssumption
    <3>5. Timely(new) /\ Latest(new)
      BY <1>2, <3>2, <3>4, Zenon DEF Timely, Latest
    <3>6. QED
      BY <1>2, <3>2, <3>3, <3>5, StreamMoves, Zenon
  <2>3. QED
    BY <2>1, <2>2, Zenon
<1>6. CASE take(s)
  <2> DEFINE e == Head(st.queue)
  <2>1. PICK pc \in {"loop", "send"} : pc = IF e.audit /\ ~st.sees THEN "loop" ELSE "send"
    BY Zenon
  <2>2. PICK new : new = [st EXCEPT !.pc = pc, !.queue = Tail(@), !.last = e.n, !.since = 0]
    BY Zenon
  <2>3. Moves(s, new) /\ st.queue # <<>>
    BY <1>6, <2>1, <2>2, Zenon DEF take
  <2>4. /\ Tail(st.queue) \in Seq(Events) /\ Len(Tail(st.queue)) <= QueueSize /\ e \in Events
        /\ \A i \in 1..Len(Tail(st.queue)) : Tail(st.queue)[i].n = events - Len(Tail(st.queue)) + i
        /\ Tail(st.queue) = <<>> => e.n = events
    BY <1>2, <1>3, <2>3, TakeLatest, Zenon DEF Latest
  <2>5. e.n \in Nat
    BY <2>4, Zenon DEF Events
  <2>6. new \in StreamStates /\ new.token = st.token /\ new.id = st.id /\ new.serial = st.serial
        /\ new.sees = st.sees /\ new.queue = Tail(st.queue) /\ new.last = e.n /\ new.pc = pc
        /\ new.since = 0 /\ new.began = st.began /\ new.checked = st.checked /\ new.mistaken = st.mistaken
    BY <1>2, <2>2, <2>4, <2>5, Zenon DEF StreamStates
  <2>7. Timely(new)
    BY <1>2, <1>3, <2>6 DEF Timely
  <2>8. Latest(new)
    BY <2>4, <2>6, Zenon DEF Latest
  <2>9. QED
    BY <1>2, <2>3, <2>6, <2>7, <2>8, StreamMoves, Zenon
<1>7. CASE keep_alive(s)
  <2>1. PICK new : new = [st EXCEPT !.pc = "send", !.since = 0]
    BY Zenon
  <2>2. new \in StreamStates /\ new.token = st.token /\ new.id = st.id /\ new.serial = st.serial
        /\ new.sees = st.sees /\ new.queue = st.queue /\ new.last = st.last /\ new.pc = "send"
        /\ new.since = 0 /\ new.began = st.began /\ new.checked = st.checked /\ new.mistaken = st.mistaken
    BY <1>2, <2>1, Zenon DEF StreamStates
  <2>3. Moves(s, new)
    BY <1>7, <2>1, Zenon DEF keep_alive
  <2>4. 0 <= now
    BY <1>2
  <2>5. Timely(new) /\ Latest(new)
    BY <1>2, <1>3, <2>2, <2>4, Zenon DEF Timely, Latest
  <2>6. QED
    BY <1>2, <2>2, <2>3, <2>5, StreamMoves, Zenon
<1>8. CASE sent(s)
  <2>1. PICK new : new = [st EXCEPT !.pc = "loop"]
    BY Zenon
  <2>2. new \in StreamStates /\ new.token = st.token /\ new.id = st.id /\ new.serial = st.serial
        /\ new.sees = st.sees /\ new.queue = st.queue /\ new.last = st.last /\ new.pc = "loop"
        /\ new.since = st.since /\ new.began = st.began /\ new.checked = st.checked /\ new.mistaken = st.mistaken
    BY <1>2, <2>1, Zenon DEF StreamStates
  <2>3. Moves(s, new)
    BY <1>8, <2>1, Zenon DEF sent
  <2>4. Timely(new) /\ Latest(new)
    BY <1>2, <2>2, Zenon DEF Timely, Latest
  <2>5. QED
    BY <1>2, <2>2, <2>3, <2>4, StreamMoves, Zenon
<1>9. CASE disconnect(s)
  BY <1>2, <1>9, StreamMoves, Zenon DEF disconnect
<1>10. CASE begin(s)
  <2>1. PICK new : new = [st EXCEPT !.pc = "loop", !.began = now, !.checked = now]
    BY Zenon
  <2>2. new \in StreamStates /\ new.token = st.token /\ new.id = st.id /\ new.serial = st.serial
        /\ new.sees = st.sees /\ new.queue = st.queue /\ new.last = st.last /\ new.pc = "loop"
        /\ new.since = st.since /\ new.began = now /\ new.checked = now
    BY <1>2, <2>1, Zenon DEF StreamStates
  <2>3. Moves(s, new)
    BY <1>10, <2>1, Zenon DEF begin
  <2>4. now <= now
    BY <1>2
  <2>5. Timely(new) /\ Latest(new) /\ new.checked <= new.began
    BY <1>2, <2>2, <2>4, Zenon DEF Timely, Latest
  <2>6. QED
    BY <1>2, <2>2, <2>3, <2>5, StreamMoves, Zenon
<1>11. QED
  BY <1>10, <1>4, <1>5, <1>6, <1>7, <1>8, <1>9, Zenon

\* EventBus.publish().
LEMMA PublishInv ==
    ASSUME FeedInv, Noted, NEW audit \in BOOLEAN, publish(audit)
    PROVE  FeedInv'
<1> DEFINE e == [n |-> events + 1, audit |-> audit]
<1>1. events < MaxEvents /\ events' = events + 1 /\ UNCHANGED <<authVars, now>>
      /\ streams' = [s \in Streams |-> IF s \in Open THEN [streams[s] EXCEPT !.queue = Put(@, e)] ELSE Closed]
  BY Zenon DEF publish
<1>2. events \in Nat /\ events' \in 0..MaxEvents /\ now' \in 0..MaxNow /\ now \in Nat
  BY <1>1, FeedAssumption DEF FeedInv, FeedTyped
<1>3. e \in Events /\ e.n = events + 1
  BY <1>2 DEF Events
<1> HIDE DEF e
<1>4. AuthInv' /\ \A p \in Procs : procs'[p].pc = "route" => Known(procs[p])'
  BY <1>1, CredentialStays, Zenon
<1>5. ASSUME NEW s \in Streams, streams[s] # Closed
      PROVE  /\ streams'[s] \in StreamStates
             /\ Timely(streams[s])' /\ Latest(streams[s])' /\ Known(streams[s])'
             /\ gone[s] # None => ~Holds(s)' /\ (~streams'[s].mistaken => Since(streams'[s], gone[s]))
  <2> DEFINE st == streams[s]
  <2>1. st \in StreamStates /\ Timely(st) /\ Latest(st) /\ GoneSince(s)
    BY <1>5, Zenon DEF FeedInv, FeedTyped
  <2>2. st.queue \in Seq(Events) /\ Len(st.queue) <= QueueSize
        /\ \A i \in 1..Len(st.queue) : st.queue[i].n = events - Len(st.queue) + i
    BY <2>1, Zenon DEF StreamStates, Latest
  <2>3. PICK q : q = Put(st.queue, e)
    BY Zenon
  <2>4. q \in Seq(Events) /\ Len(q) <= QueueSize /\ q # <<>>
        /\ \A i \in 1..Len(q) : q[i].n = events + 1 - Len(q) + i
    BY <1>2, <1>3, <2>2, <2>3, PutLatest, Zenon
  <2>5. PICK new : new = [st EXCEPT !.queue = q]
    BY Zenon
  <2>6. new \in StreamStates /\ new.token = st.token /\ new.id = st.id /\ new.serial = st.serial
        /\ new.sees = st.sees /\ new.queue = q /\ new.pc = st.pc
        /\ new.since = st.since /\ new.began = st.began /\ new.checked = st.checked /\ new.mistaken = st.mistaken
    BY <2>1, <2>4, <2>5, Zenon DEF StreamStates
  <2>7. streams'[s] = new
    BY <1>1, <1>5, <2>3, <2>5, Zenon DEF Open
  <2>8. Timely(streams[s])'
    BY <1>1, <2>1, <2>6, <2>7, Zenon DEF Timely
  <2>9. Latest(streams[s])'
    <3>1. events' = events + 1 /\ streams'[s].queue = q
      BY <1>1, <2>6, <2>7, Zenon
    <3>2. \A i \in 1..Len(q) : q[i].n = events' - Len(q) + i
      BY <1>2, <2>4, <3>1
    <3>3. QED
      BY <2>4, <3>1, <3>2, Zenon DEF Latest
  <2>10. Known(streams[s])' /\ (Holds(s)' <=> Holds(s))
    BY <1>1, <1>5, <2>6, <2>7, CredentialStays, Zenon
  <2>11. QED
    BY <2>1, <2>6, <2>7, <2>8, <2>9, <2>10, Zenon DEF GoneSince, Since
<1>6. \A s \in Streams : streams[s] = Closed => streams'[s] = Closed
  BY <1>1, Zenon DEF Open
<1>7. streams' \in [Streams -> StreamStates \cup {Closed}]
  <2>1. \A s \in Streams : streams'[s] \in StreamStates \cup {Closed}
    BY <1>5, <1>6, Zenon
  <2>2. QED
    BY <1>1, <2>1, Zenon
<1>8. QED
  BY <1>2, <1>4, <1>5, <1>6, <1>7, FeedStep, Zenon

\* The stream is opened; what the request was found to be, the stream is.
LEMMA OpenStreamInv ==
    ASSUME FeedInv, Noted, NEW s \in Streams, NEW p \in Procs, open_stream(s, p)
    PROVE  FeedInv'
<1>1. PICK new : new = [pc |-> "first", id |-> procs[p].id, serial |-> procs[p].serial, token |-> procs[p].token,
                        sees |-> procs[p].sees, queue |-> <<>>, last |-> events, began |-> 0,
                        checked |-> 0, since |-> 0, mistaken |-> FALSE]
  BY Zenon
<1>2. streams[s] = Closed /\ procs[p].pc = "route" /\ streams' = [streams EXCEPT ![s] = new]
      /\ procs' = Become(p, Idle)
      /\ UNCHANGED <<admins, sessions, tokens, signins, fresh, clock, historyVars, now, events>>
  BY <1>1, Zenon DEF open_stream
<1>3. now \in Nat /\ events \in Nat /\ now' \in 0..MaxNow /\ events' \in 0..MaxEvents
  BY <1>2 DEF FeedInv, FeedTyped
<1>4. procs[p].id \in Ids \cup {0} /\ procs[p].serial \in Nat /\ procs[p].token \in Tokens \cup {None}
      /\ procs[p].sees \in BOOLEAN /\ Known(procs[p])
  <2>1. procs[p] \in ProcStates
    BY Zenon DEF FeedInv, AuthInv, AuthTyped
  <2>2. \/ procs[p] \in [pc : {"route"}, id : Ids, serial : Nat, admin : Admins, token : {None},
                         view : BOOLEAN, sees : BOOLEAN, may : BOOLEAN]
        \/ procs[p] \in [pc : {"route"}, id : {0}, serial : {0}, admin : {0}, token : Tokens,
                         view : BOOLEAN, sees : BOOLEAN, may : BOOLEAN]
    BY <1>2, <2>1 DEF ProcStates, Idle
  <2>3. procs[p].id \in Ids \cup {0} /\ procs[p].serial \in Nat /\ procs[p].token \in Tokens \cup {None}
        /\ procs[p].sees \in BOOLEAN
    BY <2>2
  <2>4. QED
    BY <1>2, <2>3, Zenon DEF FeedInv
<1>5. <<>> \in Seq(Events) /\ Len(<<>>) = 0 /\ 0 <= QueueSize /\ 0 <= now /\ 0 <= 0 /\ 0 \in Nat
  BY <1>3, FeedAssumption
<1>6. new \in StreamStates /\ new # Closed /\ new.token = procs[p].token /\ new.id = procs[p].id
      /\ new.serial = procs[p].serial /\ new.sees = procs[p].sees /\ new.queue = <<>> /\ new.last = events
      /\ new.began = 0 /\ new.checked = 0 /\ new.since = 0 /\ new.pc = "first"
  BY <1>1, <1>3, <1>4, <1>5, Zenon DEF StreamStates, Closed
<1>7. Known(new) /\ Timely(new) /\ Latest(new)
  <2>1. Known(new)
    BY <1>4, <1>6, Zenon DEF Known
  <2>2. Timely(new)
    BY <1>5, <1>6, Zenon DEF Timely
  <2>3. Latest(new)
    BY <1>5, <1>6 DEF Latest
  <2>4. QED
    BY <2>1, <2>2, <2>3, Zenon
<1>8. streams' \in [Streams -> StreamStates \cup {Closed}] /\ streams'[s] = new
      /\ \A r \in Streams : r # s => streams'[r] = streams[r]
  BY <1>2, <1>6, Zenon DEF FeedInv, FeedTyped
<1>9. Timely(streams[s])' /\ Latest(streams[s])' /\ Known(streams[s])' /\ gone[s] = None
  BY <1>2, <1>7, <1>8, Zenon DEF Timely, Latest, Known, FeedInv
<1>10. ASSUME NEW r \in Streams, r # s, streams'[r] # Closed
       PROVE  /\ Timely(streams[r])' /\ Latest(streams[r])' /\ Known(streams[r])'
              /\ gone[r] # None => ~Holds(r)' /\ (~streams'[r].mistaken => Since(streams'[r], gone[r]))
  <2>1. streams'[r] = streams[r] /\ Timely(streams[r]) /\ Latest(streams[r]) /\ Known(streams[r]) /\ GoneSince(r)
    BY <1>8, <1>10, Zenon DEF FeedInv
  <2>2. Timely(streams[r])' /\ Latest(streams[r])' /\ Known(streams[r])' /\ (Holds(r)' <=> Holds(r))
    BY <1>2, <2>1, Zenon DEF Timely, Latest, Known, Holds
  <2>3. QED
    BY <2>1, <2>2, Zenon DEF GoneSince
<1>11. AuthInv'
  <2>1. leave(p)
    BY <1>2 DEF leave, Idle
  <2>2. QED
    BY <2>1, PauseInv, Zenon DEF FeedInv
<1>12. \A q \in Procs : procs'[q].pc = "route" => Known(procs[q])'
  <2>1. ASSUME NEW q \in Procs, procs'[q].pc = "route" PROVE procs'[q] = procs[q]
    BY <1>2, <2>1, Zenon DEF Become, Idle, FeedInv, AuthInv, AuthTyped
  <2>2. ASSUME NEW q \in Procs, procs'[q].pc = "route" PROVE Known(procs[q])'
    <3>1. procs'[q] = procs[q] /\ Known(procs[q])
      BY <2>1, <2>2, Zenon DEF FeedInv
    <3>2. tokens' = tokens /\ sessions' = sessions /\ signins' = signins /\ admins' = admins
      BY <1>2, Zenon
    <3>3. QED
      BY <3>1, <3>2, Zenon DEF Known
  <2>3. QED
    BY <2>2, Zenon
<1>13. \A r \in Streams : streams'[r] = Closed \/
            /\ Timely(streams[r])' /\ Latest(streams[r])' /\ Known(streams[r])'
            /\ gone[r] # None => ~Holds(r)' /\ (~streams'[r].mistaken => Since(streams'[r], gone[r]))
  BY <1>9, <1>10, Zenon
<1>14. QED
  BY <1>3, <1>8, <1>11, <1>12, <1>13, FeedStep, Zenon

\* Time passes; a stream that waits may still wait.
LEMMA TimePassesInv ==
    ASSUME FeedInv, Noted, time_passes
    PROVE  FeedInv'
<1>1. now < MaxNow /\ now' = now + 1 /\ UNCHANGED <<authVars, events, streams>>
      /\ \A s \in Streams : Quiet(streams[s])
  BY Zenon DEF time_passes
<1>2. now \in Nat /\ now' \in 0..MaxNow /\ events' \in 0..MaxEvents
      /\ streams' \in [Streams -> StreamStates \cup {Closed}]
  BY <1>1, FeedAssumption DEF FeedInv, FeedTyped
<1>3. AuthInv' /\ \A p \in Procs : procs'[p].pc = "route" => Known(procs[p])'
  BY <1>1, CredentialStays, Zenon
<1>4. ASSUME NEW s \in Streams, streams[s] # Closed
      PROVE  /\ Timely(streams[s])' /\ Latest(streams[s])' /\ Known(streams[s])'
             /\ gone[s] # None => ~Holds(s)' /\ (~streams'[s].mistaken => Since(streams'[s], gone[s]))
  <2> DEFINE st == streams[s]
  <2>1. st \in StreamStates /\ Timely(st) /\ Latest(st) /\ GoneSince(s) /\ Quiet(st) /\ streams'[s] = st
    BY <1>1, <1>4, Zenon DEF FeedInv, FeedTyped
  <2>2. st.checked \in Nat /\ st.since \in Nat /\ (st.pc = "wait" => now < st.since + Wait)
    BY <2>1, Zenon DEF StreamStates, Quiet
  <2>3. st.checked <= now' /\ st.since <= now' /\ (st.pc = "wait" => now' <= st.since + Wait)
    BY <1>1, <1>2, <2>1, <2>2, FeedAssumption DEF Timely
  <2>4. Timely(streams[s])' /\ Latest(streams[s])'
    BY <1>1, <2>1, <2>3, Zenon DEF Timely, Latest
  <2>5. Known(streams[s])' /\ (Holds(s)' <=> Holds(s))
    BY <1>1, <1>4, <2>1, CredentialStays, Zenon
  <2>6. QED
    BY <2>1, <2>4, <2>5, Zenon DEF GoneSince
<1>5. QED
  BY <1>1, <1>2, <1>3, <1>4, FeedStep, Zenon

\* A request that current_principal() has just let in is what it was found to be.
LEMMA PrincipalKnown ==
    ASSUME FeedInv, AuthNext, NEW p \in Procs, procs'[p].pc = "route", RightsKept
    PROVE  Known(procs[p])'
<1> USE DEF FeedInv
<1>1. procs \in [Procs -> ProcStates] /\ Idle.pc = "idle"
  BY Zenon DEF AuthInv, AuthTyped, Idle
<1>2. ASSUME NEW i \in Ids, resolve(p, i) PROVE Known(procs[p])'
  <2> DEFINE a == sessions[i].admin
  <2>1. PICK new : new = [pc |-> "route", id |-> i, serial |-> sessions[i].serial, admin |-> a,
                          token |-> None, view |-> ~Restricted(admins[a]), sees |-> admins[a].role # "VIEWER",
                          may |-> admins[a].role = "SUPERUSER" /\ ~Restricted(admins[a])]
    BY Zenon
  <2>2. procs'[p] = new /\ UNCHANGED <<admins, sessions, tokens, signins>> /\ sessions[i] # None
    BY <1>1, <1>2, <2>1, Zenon DEF resolve, Become
  <2>3. new.id = i /\ new.serial = sessions[i].serial /\ new.token = None /\ (new.sees => admins[a].role # "VIEWER")
    BY <2>1, Zenon
  <2>4. new.serial <= signins
    BY <2>2, <2>3, Zenon DEF AuthInv, SessionInv
  <2>5. QED
    BY <2>2, <2>3, <2>4, Zenon DEF Known
<1>3. ASSUME NEW t \in Tokens, token_principal(p, t) PROVE Known(procs[p])'
  <2>1. procs'[p].token = t /\ tokens'[t] = "live"
    BY <1>1, <1>3, Zenon DEF token_principal, Become
  <2>2. QED
    BY <2>1, NoRowAssumption, Zenon DEF Known
<1>4. ASSUME procs'[p] = procs[p] PROVE Known(procs[p])'
  <2>1. procs[p].serial \in Nat
    <3>1. procs[p] \in ProcStates /\ procs[p].pc = "route"
      BY <1>1, <1>4, Zenon
    <3>2. QED
      BY <3>1 DEF ProcStates, Idle
  <2>2. PICK x : x = procs[p]
    BY Zenon
  <2>3. Known(x)'
    BY <1>4, <2>1, <2>2, KnownStays, Zenon
  <2>4. QED
    BY <1>4, <2>2, <2>3, Zenon DEF Known
<1>5. ASSUME NEW q \in Procs, NEW state, procs' = Become(q, state), state.pc # "route" PROVE procs'[p] = procs[p]
  BY <1>1, <1>5, Zenon DEF Become
<1>6. \/ procs'[p] = procs[p]
      \/ \E i \in Ids : resolve(p, i)
      \/ \E t \in Tokens : token_principal(p, t)
  <2>1. ASSUME NEW q \in Procs, SignInSteps(q) PROVE procs'[p] = procs[p]
    <3>1. ASSUME NEW a \in Admins, NEW code, login(q, a, code) PROVE procs'[p] = procs[p]
      BY <1>5, <3>1, Zenon DEF login
    <3>2. ASSUME login_recovery(q) PROVE procs'[p] = procs[p]
      <4>1. procs' = Become(q, [procs[q] EXCEPT !.pc = "recovery"]) /\ procs[q].pc = "login"
        BY <3>2, Zenon DEF login_recovery, Become, AtFactor
      <4>2. procs[q] \in [pc : {"login", "recovery"}, admin : Admins, password : Nat, code : CodeType]
        BY <1>1, <4>1, Zenon DEF ProcStates, Idle
      <4>3. [procs[q] EXCEPT !.pc = "recovery"].pc = "recovery"
        BY <4>2, Zenon
      <4>4. QED
        BY <1>5, <4>1, <4>3, Zenon
    <3>3. ASSUME login_without_factor(q) \/ login_totp(q) \/ login_recovery_end(q) PROVE procs'[p] = procs[p]
      <4>1. procs' = Become(q, Idle)
        BY <3>3, Zenon DEF login_without_factor, login_totp, login_recovery_end, SignIn
      <4>2. QED
        BY <1>1, <1>5, <4>1, Zenon
    <3>4. QED
      BY <2>1, <3>1, <3>2, <3>3, Zenon DEF SignInSteps
  <2>2. ASSUME NEW q \in Procs, OwnSteps(q) PROVE procs'[p] = procs[p] \/ \E i \in Ids : resolve(p, i)
    <3>1. ASSUME NEW i \in Ids, resolve(q, i) PROVE procs'[p] = procs[p] \/ resolve(p, i)
      BY <1>1, <3>1, Zenon DEF resolve, Become
    <3>2. ASSUME procs' = Become(q, Idle) PROVE procs'[p] = procs[p]
      BY <1>1, <1>5, <3>2, Zenon
    <3>3. ASSUME NEW pc, pc # "route", NEW code, Pause(q, Paused(q, pc, code)) PROVE procs'[p] = procs[p]
      BY <1>5, <3>3, Zenon DEF Pause, Paused
    <3>4. QED
      BY <2>2, <3>1, <3>2, <3>3, Zenon
         DEF OwnSteps, end_session, logout, leave, change_password, change_password_end, totp_setup, totp_setup_end,
             totp_confirm, totp_confirm_end, totp_disable, totp_disable_end, Reauthenticated
  <2>3. ASSUME NEW q \in Procs, SuperuserSteps(q) PROVE procs'[p] = procs[p] \/ \E t \in Tokens : token_principal(p, t)
    <3>1. ASSUME NEW t \in Tokens, token_principal(q, t) PROVE procs'[p] = procs[p] \/ token_principal(p, t)
      BY <1>1, <3>1, Zenon DEF token_principal, Become
    <3>2. ASSUME procs' = Become(q, Idle) PROVE procs'[p] = procs[p]
      BY <1>1, <1>5, <3>2, Zenon
    <3>3. QED
      BY <2>3, <3>1, <3>2, Zenon
         DEF SuperuserSteps, save_token, create_admin, delete_admin, reset_admin_password, reset_admin_totp, update_admin
  <2>4. QED
    BY <2>1, <2>2, <2>3, Zenon DEF AuthNext, expire, cli_reset_password, cli_reset_totp, tick
<1>7. QED
  BY <1>2, <1>3, <1>4, <1>6, Zenon

\* A step of AdminAuth beside the streams.
LEMMA AuthStepInv ==
    ASSUME FeedInv, Noted, AuthNext, UNCHANGED feedVars
    PROVE  FeedInv'
<1>1. RightsKept /\ AuthInv'
  BY AuthStepKeepsRights, AuthNextInv, Zenon DEF FeedInv
<1>2. UNCHANGED <<now, events, streams>>
  BY Zenon DEF feedVars
<1>3. \A p \in Procs : procs'[p].pc = "route" => Known(procs[p])'
  BY <1>1, PrincipalKnown, Zenon
<1>4. ASSUME NEW s \in Streams, streams[s] # Closed
      PROVE  /\ Timely(streams[s])' /\ Latest(streams[s])' /\ Known(streams[s])'
             /\ gone[s] # None => ~Holds(s)' /\ (~streams'[s].mistaken => Since(streams'[s], gone[s]))
  <2>1. streams[s] \in StreamStates /\ Timely(streams[s]) /\ Latest(streams[s]) /\ Known(streams[s])
        /\ GoneSince(s) /\ streams'[s] = streams[s]
    BY <1>2, <1>4, Zenon DEF FeedInv, FeedTyped
  <2>2. streams[s].serial \in Nat
    BY <2>1, Zenon DEF StreamStates
  <2>3. Timely(streams[s])' /\ Latest(streams[s])'
    BY <1>2, <2>1, Zenon DEF Timely, Latest
  <2>4. Known(streams[s])'
    <3>1. PICK x : x = streams[s]
      BY Zenon
    <3>2. Known(x)'
      BY <1>1, <2>1, <2>2, <3>1, KnownStays, Zenon DEF FeedInv
    <3>3. QED
      BY <2>1, <3>1, <3>2, Zenon DEF Known
  <2>5. Holds(s)' => Holds(s)
    BY <1>1, <2>1, <2>2, GoneStays, Zenon DEF FeedInv
  <2>6. QED
    BY <2>1, <2>3, <2>4, <2>5, Zenon DEF GoneSince
<1>5. QED
  BY <1>1, <1>2, <1>3, <1>4, FeedStep, Zenon DEF FeedInv, FeedTyped

\* No stream is open.
LEMMA FeedInitInv == AuthInit /\ FeedInit => FeedInv
<1> SUFFICES ASSUME AuthInit, FeedInit PROVE FeedInv
  BY Zenon
<1>1. AuthInv
  BY AuthInitInv, Zenon
<1>2. FeedTyped
  BY FeedAssumption DEF FeedInit, FeedTyped
<1>3. \A p \in Procs : procs[p].pc # "route"
  BY Zenon DEF AuthInit, Idle
<1>4. QED
  BY <1>1, <1>2, <1>3, Zenon DEF FeedInv, FeedInit

\* Every step of a stream, of a request, and of time.
LEMMA FeedNextInv == FeedInv /\ [FeedNext]_<<authVars, feedVars, gone>> => FeedInv'
<1> SUFFICES ASSUME FeedInv, [FeedNext]_<<authVars, feedVars, gone>> PROVE FeedInv'
  BY Zenon
<1>1. ASSUME FeedSteps, Noted PROVE FeedInv'
  BY <1>1, PublishInv, StreamStepInv, OpenStreamInv, TimePassesInv, Zenon DEF FeedSteps
<1>2. ASSUME UNCHANGED <<authVars, feedVars, gone>> PROVE FeedInv'
  <2>1. UNCHANGED <<authVars, now, events, streams, gone>>
    BY <1>2, Zenon DEF feedVars
  <2>2. FeedTyped'
    BY <2>1, Zenon DEF FeedInv, FeedTyped
  <2>3. AuthInv' /\ \A p \in Procs : procs'[p].pc = "route" => Known(procs[p])'
    BY <2>1, CredentialStays, Zenon
  <2>4. ASSUME NEW s \in Streams, streams[s] # Closed
        PROVE  Timely(streams[s])' /\ Latest(streams[s])' /\ Known(streams[s])' /\ GoneSince(s)'
    <3>1. Timely(streams[s]) /\ Latest(streams[s]) /\ GoneSince(s) /\ streams'[s] = streams[s]
      BY <2>1, <2>4, Zenon DEF FeedInv
    <3>2. Timely(streams[s])' /\ Latest(streams[s])'
      BY <2>1, <3>1, Zenon DEF Timely, Latest
    <3>3. Known(streams[s])' /\ (Holds(s)' <=> Holds(s))
      BY <2>1, <2>4, <3>1, CredentialStays, Zenon
    <3>4. QED
      BY <2>1, <3>1, <3>2, <3>3, Zenon DEF GoneSince
  <2>5. QED
    BY <2>1, <2>2, <2>3, <2>4, Zenon DEF FeedInv
<1>3. QED
  BY <1>1, <1>2, AuthStepInv, Zenon DEF FeedNext

---------------------------------------------------------------------------
(* The theorems.                                                           *)

\* The inductive invariant of the streams.
THEOREM FeedInvariant == FeedSpec => []FeedInv
  BY FeedInitInv, FeedNextInv, PTL DEF FeedSpec

\* A queue never holds more than the bus allows, and no wait is longer than its
\* timeout.
THEOREM FeedTypeCorrect == FeedSpec => []FeedTypeOK
<1>1. FeedInv => FeedTypeOK
  <2> SUFFICES ASSUME FeedInv PROVE FeedTypeOK
    BY Zenon
  <2>1. ASSUME NEW s \in Open
        PROVE  /\ streams[s].pc \in {"first", "loop", "check", "wait", "send"}
               /\ Timely(streams[s]) /\ Latest(streams[s])
    <3>1. s \in Streams /\ streams[s] # Closed /\ streams[s] \in StreamStates
      BY Zenon DEF Open, FeedInv, FeedTyped
    <3>2. QED
      BY <3>1, Zenon DEF FeedInv, StreamStates
  <2>2. QED
    BY <2>1, Zenon DEF FeedTypeOK, FeedInv, FeedTyped, Timely, Latest
<1>2. QED
  BY <1>1, FeedInvariant, PTL

\* A stream outlives its session or token, or the moment its client took the first
\* chunk, by no more than Recheck and Wait, for whatever times and however busy it is.
THEOREM StreamsEnd == FeedSpec => []StreamEndsWithSession
<1>1. FeedInv => StreamEndsWithSession
  <2> SUFFICES ASSUME FeedInv, NEW s \in Open, streams[s].pc = "wait", gone[s] # None, ~streams[s].mistaken
               PROVE  now <= gone[s] + Recheck + Wait \/ now <= streams[s].began + Recheck + Wait
    BY Zenon DEF StreamEndsWithSession
  <2>1. s \in Streams /\ streams[s] \in StreamStates /\ Timely(streams[s]) /\ GoneSince(s)
        /\ now \in Nat /\ gone[s] \in Nat
    BY DEF Open, FeedInv, FeedTyped
  <2>2. streams[s].began \in Nat /\ streams[s].checked \in Nat /\ streams[s].since \in Nat
    BY <2>1, Zenon DEF StreamStates
  <2>3. (streams[s].checked <= gone[s] \/ streams[s].checked <= streams[s].began) /\ now <= streams[s].since + Wait
        /\ streams[s].since <= streams[s].checked + Recheck
    BY <2>1, Zenon DEF Timely, GoneSince, Since
  <2>4. QED
    BY <2>1, <2>2, <2>3, FeedAssumption
<1>2. QED
  BY <1>1, FeedInvariant, PTL

\* A stream that shows audit records is, while its session lasts, of an account
\* that may read them.
THEOREM AuditOnlyForOperators == FeedSpec => []AuditForThoseWhoMay
<1>1. FeedInv => AuditForThoseWhoMay
  <2> SUFFICES ASSUME FeedInv, NEW s \in Open, streams[s].sees, streams[s].token = None, gone[s] = None
               PROVE  admins[sessions[streams[s].id].admin].role \in {"OPERATOR", "SUPERUSER"}
    BY Zenon DEF AuditForThoseWhoMay
  <2> DEFINE st == streams[s]
             a == sessions[st.id].admin
  <2>1. Known(st) /\ Holds(s)
    BY Zenon DEF Open, FeedInv, GoneSince
  <2>2. st.id \in Ids /\ sessions[st.id] # None /\ sessions[st.id].serial = st.serial
    BY <2>1, Zenon DEF Known, Holds
  <2>3. admins[a].role # "VIEWER"
    BY <2>1, <2>2, Zenon DEF Known
  <2>4. a \in Admins /\ admins[a] # None
    BY <2>2, Zenon DEF FeedInv, AuthInv, AuthTyped, SessionInv, SessionRows
  <2>5. admins[a] \in AdminRows
    BY <2>4, Zenon DEF FeedInv, AuthInv, AuthTyped
  <2>6. admins[a].role \in Roles
    BY <2>5, Zenon DEF AdminRows
  <2>7. QED
    BY <2>3, <2>6, Zenon DEF Roles
<1>2. QED
  BY <1>1, FeedInvariant, PTL

\* A subscriber that falls behind loses its oldest events only, whatever the size
\* of its queue.
THEOREM LatestEventsKept == FeedSpec => []OnlyOldestLost
<1>1. FeedInv => OnlyOldestLost
  <2> SUFFICES ASSUME FeedInv, NEW s \in Open
               PROVE  /\ \A i \in DOMAIN streams[s].queue :
                            streams[s].queue[i].n = events - Len(streams[s].queue) + i
                      /\ streams[s].queue = <<>> => streams[s].last = events
    BY Zenon DEF OnlyOldestLost
  <2>1. s \in Streams /\ streams[s] \in StreamStates /\ Latest(streams[s])
    BY Zenon DEF Open, FeedInv, FeedTyped
  <2>2. DOMAIN streams[s].queue = 1..Len(streams[s].queue)
    BY <2>1 DEF StreamStates
  <2>3. QED
    BY <2>1, <2>2, Zenon DEF Latest
<1>2. QED
  BY <1>1, FeedInvariant, PTL

=============================================================================
