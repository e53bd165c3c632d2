----------------------------- MODULE AdminAuth -----------------------------
(***************************************************************************)
(* Administrators: sign-in with a second factor, sessions, the account     *)
(* routes of an administrator and those of a superuser over others         *)
(* (naco/api/routes/auth.py, admin.py, naco/api/sessions.py, deps.py,      *)
(* totp.py, naco/cli.py).                                                  *)
(*                                                                         *)
(* A route is a sequence of transactions: one ends before every slow hash  *)
(* (release), and other requests run between two of them.  A process is a  *)
(* request in progress.  Passwords, TOTP secrets and sets of recovery      *)
(* codes are numbers, each drawn once; a code names what it was made from. *)
(* Requests that fail before their first write leave the state alone.      *)
(***************************************************************************)
EXTENDS Integers, FiniteSets

CONSTANTS
    Admins,        \* keys of administrators, 1..n
    Tokens,        \* names of API tokens with the SUPERUSER role
    Procs,         \* requests in progress at a time
    None,          \* no row
    RequireTotp,   \* security.require_totp
    RecoveryCodes, \* how many codes a set has
    MaxSignIns,    \* bound on the sign-ins that succeed
    MaxFresh,      \* bound on the passwords, secrets and code sets ever drawn
    MaxStep        \* bound on the TOTP time step

\* Keys are numbers from 1 on; the first administrator has a password from the start.
ASSUME AdminKeysAssumption == Cardinality(Admins) \in Nat \ {0} /\ Admins = 1..Cardinality(Admins)
ASSUME AuthBoundAssumption ==
    MaxSignIns \in Nat /\ RecoveryCodes \in Nat /\ MaxFresh \in Nat \ {0} /\ MaxStep \in Nat \ {0}

VARIABLES
    admins,    \* table admin_users: a row or None
    sessions,  \* table admin_sessions: a row or None
    tokens,    \* table api_tokens: "unused", "live" or "revoked"
    signins,   \* how many sign-ins have succeeded
    procs,     \* what each request has read, and where it waits
    fresh,     \* the last number drawn
    clock,     \* totp.current_step()
    spent,     \* history: one-time codes that have opened a session
    twice,     \* history: those that have opened a second one
    shown      \* history: <<secret, set of codes>> a confirmation returned

authVars == <<admins, sessions, tokens, signins, procs, fresh, clock, spent, twice, shown>>
historyVars == <<spent, twice, shown>>

Ids == 1..MaxSignIns
Idle == [pc |-> "idle"]
NoSecret == 0
NoStep == -1

\* Codes: of a secret at a step, of a set of recovery codes, or neither; and
\* those the owner of an account can come up with.
TotpCode(secret, step) == <<"totp", secret, step>>
CodeSet(n) == {<<"recovery", n, i>> : i \in 1..RecoveryCodes}
NoCode == <<"none", 0, 0>>
CodeType == {"totp", "recovery", "none"} \X Nat \X Int
Codes(row) ==
    {TotpCode(n, step) : n \in {row.secret, row.pending} \ {NoSecret}, step \in (clock - 1)..(clock + 1)}
    \cup row.recovery \cup {NoCode}

Roles == {"VIEWER", "OPERATOR", "SUPERUSER"}

\* The rows of admin_users and of admin_sessions.
AdminRows ==
    [role : Roles, enabled : BOOLEAN, password : Nat, must_change : BOOLEAN,
     secret : Nat, pending : Nat, last_step : Int, recovery : SUBSET CodeType]
SessionRows == [admin : Admins, serial : Nat, password : Nat, enabled : BOOLEAN]
ASSUME NoRowAssumption == None \notin AdminRows /\ None \notin SessionRows /\ None \notin Tokens

Admin(role, password) ==
    [role |-> role, enabled |-> TRUE, password |-> password, must_change |-> TRUE,
     secret |-> NoSecret, pending |-> NoSecret, last_step |-> NoStep, recovery |-> {}]

\* All but `admin` is history: which sign-in it was, the password whose
\* knowledge it stands for, and whether the account was enabled then.
Session(admin, password) ==
    [admin |-> admin, serial |-> signins + 1, password |-> password,
     enabled |-> admins[admin].enabled]

AuthTypeOK ==
    /\ DOMAIN admins = Admins /\ DOMAIN sessions = Ids /\ DOMAIN procs = Procs
    /\ tokens \in [Tokens -> {"unused", "live", "revoked"}]
    /\ fresh \in 0..MaxFresh /\ clock \in 1..MaxStep /\ signins \in 0..MaxSignIns
    /\ \A a \in Admins : admins[a] # None =>
          /\ admins[a].role \in Roles
          /\ admins[a].password \in 1..fresh
          /\ admins[a].last_step \in NoStep..(clock + 1)
          /\ admins[a].secret = NoSecret => admins[a].recovery = {}
          /\ admins[a].secret = NoSecret \/ admins[a].pending = NoSecret
    /\ \A i \in Ids : sessions[i] # None => sessions[i].admin \in Admins /\ admins[sessions[i].admin] # None

---------------------------------------------------------------------------
(* Helpers.                                                                *)

\* totp.match(): the step of the code, within one of now and newer than last.
totp_match(secret, code, last) ==
    IF code \in {TotpCode(secret, step) : step \in (clock - 1)..(clock + 1)} /\ code[3] > last
    THEN code[3] ELSE NoStep

\* deps.restriction()
Restricted(row) == row.must_change \/ (RequireTotp /\ row.secret = NoSecret)

\* The key SQLite gives a new row: one more than the largest in the table.
NextId ==
    LET taken == {i \in Ids : sessions[i] # None}
    IN  IF taken = {} THEN 1 ELSE 1 + (CHOOSE i \in taken : \A j \in taken : j <= i)

\* sessions.revoke_all(): keep = 0 spares none.
revoke_all(admin, keep) ==
    [i \in Ids |-> IF sessions[i] # None /\ sessions[i].admin = admin /\ i # keep THEN None ELSE sessions[i]]

Become(p, state) == [procs EXCEPT ![p] = state]

Draw == fresh < MaxFresh /\ fresh' = fresh + 1

Spend(code) ==
    /\ spent' = spent \cup {code}
    /\ twice' = IF code \in spent THEN twice \cup {code} ELSE twice

---------------------------------------------------------------------------
(* login                                                                   *)

\* The account is read, and bcrypt finds the password right.
login(p, a, code) ==
    /\ procs[p] = Idle
    /\ admins[a] # None /\ admins[a].enabled
    /\ procs' = Become(p, [pc |-> "login", admin |-> a, password |-> admins[a].password, code |-> code])
    /\ UNCHANGED <<admins, sessions, tokens, signins, fresh, clock, historyVars>>

\* The rest of a login that succeeds: sessions.create() and the commit, in the
\* transaction that refreshed the account.
SignIn(p, row) ==
    LET a == procs[p].admin
    IN  /\ signins < MaxSignIns
        /\ signins' = signins + 1
        /\ admins' = [admins EXCEPT ![a] = row]
        /\ sessions' = [sessions EXCEPT ![NextId] = Session(a, procs[p].password)]
        /\ procs' = Become(p, Idle)
        /\ UNCHANGED <<tokens, fresh, clock, shown>>

\* _second_factor(): the account as it is after the hash.
Current(p) == admins[procs[p].admin]
AtFactor(p) == procs[p].pc = "login" /\ Current(p) # None /\ Current(p).enabled

login_without_factor(p) ==
    /\ AtFactor(p) /\ Current(p).secret = NoSecret
    /\ SignIn(p, Current(p))
    /\ UNCHANGED <<spent, twice>>

login_totp(p) ==
    LET row == Current(p)
        step == totp_match(row.secret, procs[p].code, row.last_step)
    IN  /\ AtFactor(p) /\ row.secret # NoSecret /\ step # NoStep
        /\ SignIn(p, [row EXCEPT !.last_step = step])
        /\ Spend(procs[p].code)

\* The unused recovery codes are read, and compared outside the transaction.
login_recovery(p) ==
    /\ AtFactor(p) /\ Current(p).secret # NoSecret
    /\ procs[p].code \in Current(p).recovery
    /\ procs' = [procs EXCEPT ![p].pc = "recovery"]
    /\ UNCHANGED <<admins, sessions, tokens, signins, fresh, clock, historyVars>>

\* Mutant of login_recovery_end: the list read before the comparison is used.
login_recovery_end_unchecked(p) ==
    /\ procs[p].pc = "recovery" /\ Current(p) # None
    /\ SignIn(p, [Current(p) EXCEPT !.recovery = @ \ {procs[p].code}])
    /\ Spend(procs[p].code)

login_recovery_end(p) ==
    /\ procs[p].pc = "recovery" /\ Current(p) # None
    /\ procs[p].code \in Current(p).recovery
    /\ SignIn(p, [Current(p) EXCEPT !.recovery = @ \ {procs[p].code}])
    /\ Spend(procs[p].code)

---------------------------------------------------------------------------
(* Requests of someone signed in: current_principal() is a transaction of  *)
(* its own, the route follows.                                             *)

\* A session of an enabled account: the role and the restriction of now.
resolve(p, i) ==
    LET a == sessions[i].admin
    IN  /\ procs[p] = Idle /\ sessions[i] # None /\ admins[a].enabled
        /\ procs' = Become(p, [pc |-> "route", id |-> i, serial |-> sessions[i].serial, admin |-> a,
                               token |-> None, view |-> ~Restricted(admins[a]),
                               sees |-> admins[a].role # "VIEWER",
                               may |-> admins[a].role = "SUPERUSER" /\ ~Restricted(admins[a])])
        /\ UNCHANGED <<admins, sessions, tokens, signins, fresh, clock, historyVars>>

\* A session that has expired, or whose account is disabled, is deleted.
expire(i) ==
    /\ sessions[i] # None
    /\ sessions' = [sessions EXCEPT ![i] = None]
    /\ UNCHANGED <<admins, tokens, signins, procs, fresh, clock, historyVars>>

token_principal(p, t) ==
    /\ procs[p] = Idle /\ tokens[t] = "live"
    /\ procs' = Become(p, [pc |-> "route", id |-> 0, serial |-> 0, admin |-> 0, token |-> t, view |-> TRUE, sees |-> TRUE,
                           may |-> TRUE])
    /\ UNCHANGED <<admins, sessions, tokens, signins, fresh, clock, historyVars>>

\* A request that changes nothing ends: it only reads, it is refused (a wrong
\* password or code, a conflict, a row that is gone), or the process stops.
leave(p) ==
    /\ procs[p] # Idle
    /\ procs' = Become(p, Idle)
    /\ UNCHANGED <<admins, sessions, tokens, signins, fresh, clock, historyVars>>

AtRoute(p) == procs[p].pc = "route" /\ procs[p].admin # 0 /\ Current(p) # None

\* The request's own account becomes row and its other sessions end; the one it
\* came by, if it is still there, now stands for that row.
Reauthenticated(p, row) ==
    LET kept == revoke_all(procs[p].admin, procs[p].id)
        i == procs[p].id
    IN  /\ admins' = [admins EXCEPT ![procs[p].admin] = row]
        /\ sessions' = IF kept[i] # None /\ kept[i].serial = procs[p].serial
                       THEN [kept EXCEPT ![i].password = row.password]
                       ELSE kept
        /\ procs' = Become(p, Idle)
        /\ UNCHANGED <<tokens, signins, clock>>

logout(p) ==
    /\ procs[p].pc = "route" /\ procs[p].id # 0
    /\ sessions' = [sessions EXCEPT ![procs[p].id] = None]
    /\ procs' = Become(p, Idle)
    /\ UNCHANGED <<admins, tokens, signins, fresh, clock, historyVars>>

end_session(p, i) ==
    /\ AtRoute(p) /\ sessions[i] # None /\ sessions[i].admin = procs[p].admin
    /\ sessions' = [sessions EXCEPT ![i] = None]
    /\ procs' = Become(p, Idle)
    /\ UNCHANGED <<admins, tokens, signins, fresh, clock, historyVars>>

\* change_password, totp_setup and totp_disable read the account and compare the
\* password outside a transaction; totp_confirm matches the code and hashes the
\* new recovery codes.  The rest follows in a second transaction.
Pause(p, state) ==
    /\ procs' = Become(p, state)
    /\ UNCHANGED <<admins, sessions, tokens, signins, fresh, clock, historyVars>>

Paused(p, pc, code) ==
    [pc |-> pc, code |-> code, id |-> procs[p].id, serial |-> procs[p].serial, admin |-> procs[p].admin]

change_password(p) == AtRoute(p) /\ Pause(p, Paused(p, "password", NoCode))

change_password_end(p) ==
    /\ procs[p].pc = "password" /\ Current(p) # None
    /\ Draw
    /\ Reauthenticated(p, [Current(p) EXCEPT !.password = fresh', !.must_change = FALSE])
    /\ UNCHANGED historyVars

totp_setup(p) == AtRoute(p) /\ ~Current(p).must_change /\ Pause(p, Paused(p, "setup", NoCode))

\* Mutant of totp_setup_end: whether two-factor authentication is on is not
\* looked at again.
totp_setup_end_unchecked(p) ==
    /\ procs[p].pc = "setup" /\ Current(p) # None
    /\ Draw
    /\ admins' = [admins EXCEPT ![procs[p].admin].pending = fresh']
    /\ procs' = Become(p, Idle)
    /\ UNCHANGED <<sessions, tokens, signins, clock, historyVars>>

totp_setup_end(p) ==
    /\ procs[p].pc = "setup" /\ Current(p) # None /\ Current(p).secret = NoSecret
    /\ Draw
    /\ admins' = [admins EXCEPT ![procs[p].admin].pending = fresh']
    /\ procs' = Become(p, Idle)
    /\ UNCHANGED <<sessions, tokens, signins, clock, historyVars>>

totp_confirm(p, code) ==
    LET step == totp_match(Current(p).pending, code, NoStep)
    IN  /\ AtRoute(p) /\ Current(p).pending # NoSecret /\ step # NoStep
        /\ Pause(p, Paused(p, "confirm", code))

\* Mutant of totp_confirm_end: the pending secret is not looked at again.
totp_confirm_end_unchecked(p) ==
    LET secret == procs[p].code[2]
    IN  /\ procs[p].pc = "confirm" /\ Current(p) # None
        /\ Draw
        /\ Reauthenticated(p, [Current(p) EXCEPT !.secret = secret, !.pending = NoSecret,
                                                 !.last_step = procs[p].code[3], !.recovery = CodeSet(fresh')])
        /\ shown' = shown \cup {<<secret, fresh'>>}
        /\ Spend(procs[p].code)

totp_confirm_end(p) ==
    LET secret == procs[p].code[2]
    IN  /\ procs[p].pc = "confirm" /\ Current(p) # None /\ Current(p).pending = secret
        /\ Draw
        /\ Reauthenticated(p, [Current(p) EXCEPT !.secret = secret, !.pending = NoSecret,
                                                 !.last_step = procs[p].code[3], !.recovery = CodeSet(fresh')])
        /\ shown' = shown \cup {<<secret, fresh'>>}
        /\ Spend(procs[p].code)

totp_disable(p, code) ==
    AtRoute(p) /\ Current(p).secret # NoSecret /\ Pause(p, Paused(p, "disable", code))

totp_disable_end(p) ==
    LET row == Current(p)
    IN  /\ procs[p].pc = "disable" /\ row # None /\ row.secret # NoSecret
        /\ totp_match(row.secret, procs[p].code, row.last_step) # NoStep
        /\ Reauthenticated(p, [row EXCEPT !.secret = NoSecret, !.last_step = NoStep, !.recovery = {}])
        /\ Spend(procs[p].code)
        /\ UNCHANGED <<fresh, shown>>

---------------------------------------------------------------------------
(* Superusers, the command line, time.                                     *)

\* The route of a superuser on the account of another.
OnOther(p, b) == procs[p].pc = "route" /\ procs[p].may /\ admins[b] # None /\ b # procs[p].admin

\* Mutant of OtherSuperusers: disabled accounts count.
OtherSuperusersOrDisabled(b) == {a \in Admins \ {b} : admins[a] # None /\ admins[a].role = "SUPERUSER"}

\* _other_superusers()
OtherSuperusers(b) == {a \in Admins \ {b} : admins[a] # None /\ admins[a].role = "SUPERUSER" /\ admins[a].enabled}

\* The same key of SQLite's, in table admins.
NextAdmin(a) == (\A b \in Admins : admins[b] # None => b < a) /\ (a = 1 \/ admins[a - 1] # None)

create_admin(p, role) ==
    /\ procs[p].pc = "route" /\ procs[p].may
    /\ Draw
    /\ \E a \in Admins : NextAdmin(a) /\ admins' = [admins EXCEPT ![a] = Admin(role, fresh')]
    /\ procs' = Become(p, Idle)
    /\ UNCHANGED <<sessions, tokens, signins, clock, historyVars>>

\* Mutant of update_admin: a change of role leaves the sessions alone.
update_admin_keeping_sessions(p, b, role, on) ==
    LET old == admins[b]
        loses == old.role = "SUPERUSER" /\ (role # "SUPERUSER" \/ ~on)
    IN  /\ OnOther(p, b)
        /\ loses => OtherSuperusers(b) # {}
        /\ admins' = [admins EXCEPT ![b].role = role, ![b].enabled = on]
        /\ sessions' = IF old.enabled # on THEN revoke_all(b, 0) ELSE sessions
        /\ procs' = Become(p, Idle)
        /\ UNCHANGED <<tokens, signins, fresh, clock, historyVars>>

\* Mutant of update_admin: only what takes rights away ends the sessions.
update_admin_revoking_on_loss(p, b, role, on) ==
    LET old == admins[b]
        loses == old.role = "SUPERUSER" /\ (role # "SUPERUSER" \/ ~on)
    IN  /\ OnOther(p, b)
        /\ loses => OtherSuperusers(b) # {}
        /\ admins' = [admins EXCEPT ![b].role = role, ![b].enabled = on]
        /\ sessions' = IF old.role # role \/ (old.enabled /\ ~on) THEN revoke_all(b, 0) ELSE sessions
        /\ procs' = Become(p, Idle)
        /\ UNCHANGED <<tokens, signins, fresh, clock, historyVars>>

update_admin(p, b, role, on) ==
    LET old == admins[b]
        loses == old.role = "SUPERUSER" /\ (role # "SUPERUSER" \/ ~on)
    IN  /\ OnOther(p, b)
        /\ loses => OtherSuperusers(b) # {}
        /\ admins' = [admins EXCEPT ![b].role = role, ![b].enabled = on]
        /\ sessions' = IF old.role # role \/ old.enabled # on THEN revoke_all(b, 0) ELSE sessions
        /\ procs' = Become(p, Idle)
        /\ UNCHANGED <<tokens, signins, fresh, clock, historyVars>>

\* ON DELETE CASCADE takes the sessions along.
delete_admin(p, b) ==
    /\ OnOther(p, b)
    /\ admins[b].role = "SUPERUSER" /\ admins[b].enabled => OtherSuperusers(b) # {}
    /\ admins' = [admins EXCEPT ![b] = None]
    /\ sessions' = revoke_all(b, 0)
    /\ procs' = Become(p, Idle)
    /\ UNCHANGED <<tokens, signins, fresh, clock, historyVars>>

\* Mutant of NewPassword: the account's sessions are left to expire.
NewPasswordAlone(b, on) ==
    /\ Draw
    /\ admins' = [admins EXCEPT ![b].password = fresh', ![b].must_change = TRUE, ![b].enabled = @ \/ on]
    /\ UNCHANGED <<sessions, tokens, signins, clock, historyVars>>

\* A new temporary password; the command line enables the account as well.
NewPassword(b, on) ==
    /\ Draw
    /\ admins' = [admins EXCEPT ![b].password = fresh', ![b].must_change = TRUE, ![b].enabled = @ \/ on]
    /\ sessions' = revoke_all(b, 0)
    /\ UNCHANGED <<tokens, signins, clock, historyVars>>

reset_admin_password(p, b) == OnOther(p, b) /\ procs' = Become(p, Idle) /\ NewPassword(b, FALSE)
cli_reset_password(b) == admins[b] # None /\ UNCHANGED procs /\ NewPassword(b, TRUE)

NoFactor(b) ==
    /\ admins' = [admins EXCEPT ![b].secret = NoSecret, ![b].pending = NoSecret, ![b].last_step = NoStep,
                                ![b].recovery = {}]
    /\ sessions' = revoke_all(b, 0)
    /\ UNCHANGED <<tokens, signins, fresh, clock, historyVars>>

reset_admin_totp(p, b) == OnOther(p, b) /\ procs' = Become(p, Idle) /\ NoFactor(b)
cli_reset_totp(b) == admins[b] # None /\ UNCHANGED procs /\ NoFactor(b)

\* create_token and revoke_token; a token cannot.
save_token(p, t) ==
    /\ procs[p].pc = "route" /\ procs[p].may /\ procs[p].id # 0
    /\ tokens[t] # "revoked"
    /\ tokens' = [tokens EXCEPT ![t] = IF @ = "unused" THEN "live" ELSE "revoked"]
    /\ procs' = Become(p, Idle)
    /\ UNCHANGED <<admins, sessions, signins, fresh, clock, historyVars>>

tick ==
    /\ clock < MaxStep
    /\ clock' = clock + 1
    /\ UNCHANGED <<admins, sessions, tokens, signins, procs, fresh, historyVars>>

---------------------------------------------------------------------------
\* bootstrap.ensure_admin(): one superuser, who must change the password.
AuthInit ==
    /\ admins = [a \in Admins |-> IF a = 1 THEN Admin("SUPERUSER", 1) ELSE None]
    /\ sessions = [i \in Ids |-> None]
    /\ tokens = [t \in Tokens |-> "unused"]
    /\ signins = 0 /\ fresh = 1 /\ clock = 1
    /\ procs = [p \in Procs |-> Idle]
    /\ spent = {} /\ twice = {} /\ shown = {}

SignInSteps(p) ==
    \/ \E a \in Admins : admins[a] # None /\ \E code \in Codes(admins[a]) : login(p, a, code)
    \/ login_without_factor(p) \/ login_totp(p) \/ login_recovery(p) \/ login_recovery_end(p)

OwnSteps(p) ==
    \/ \E i \in Ids : resolve(p, i) \/ end_session(p, i)
    \/ logout(p) \/ leave(p)
    \/ change_password(p) \/ change_password_end(p)
    \/ totp_setup(p) \/ totp_setup_end(p) \/ totp_confirm_end(p) \/ totp_disable_end(p)
    \/ AtRoute(p) /\ \E code \in Codes(Current(p)) : totp_confirm(p, code) \/ totp_disable(p, code)

SuperuserSteps(p) ==
    \/ \E t \in Tokens : token_principal(p, t) \/ save_token(p, t)
    \/ \E role \in Roles : create_admin(p, role)
    \/ \E b \in Admins :
          \/ delete_admin(p, b) \/ reset_admin_password(p, b) \/ reset_admin_totp(p, b)
          \/ \E role \in Roles, on \in BOOLEAN : update_admin(p, b, role, on)

AuthNext ==
    \/ \E p \in Procs : SignInSteps(p) \/ OwnSteps(p) \/ SuperuserSteps(p)
    \/ \E i \in Ids : expire(i)
    \/ \E b \in Admins : cli_reset_password(b) \/ cli_reset_totp(b)
    \/ tick

AuthSpec == AuthInit /\ [][AuthNext]_authVars

---------------------------------------------------------------------------
(* Properties.                                                             *)

\* "concurrent sign-ins are serialized here, so a code works once": no TOTP or
\* recovery code opens a second session, or opens one after it served to turn
\* two-factor authentication on, however the requests interleave.
CodeWorksOnce == twice = {}

\* Disabling an account ends its sessions for good ("deleted outright ... when
\* the account is disabled"): a session that a sign-in in progress opened after
\* that is of no use, and still of none when the account is enabled again.
DisabledEndsSessions ==
    \A i \in Ids : sessions[i] # None /\ admins[sessions[i].admin].enabled => sessions[i].enabled

\* The recovery codes an administrator was shown are the ones that work: a
\* second confirmation cannot replace them unnoticed.
ShownCodesAreStored ==
    \A pair \in shown : \A a \in Admins :
        admins[a] # None /\ admins[a].secret = pair[1] => admins[a].recovery \subseteq CodeSet(pair[2])

\* An enabled SUPERUSER always remains, whatever superusers do to each other
\* at the same time.
SuperuserRemains == \E a \in Admins : admins[a] # None /\ admins[a].role = "SUPERUSER" /\ admins[a].enabled

\* "Changing the password or 2FA ends the other sessions": of the sessions an
\* account has when its password changes, only one with the key of the session
\* that changed it is left.  (Not more: that key may meanwhile be another's, and
\* a sign-in still comparing the old password opens its session later.)
PasswordChangeEndsSessions ==
    [][\A i \in Ids : sessions[i] # None /\ sessions'[i] # None /\ sessions'[i].serial = sessions[i].serial
          => LET a == sessions[i].admin
             IN  admins'[a].password # admins[a].password =>
                    \E p \in Procs : procs[p].pc = "password" /\ procs[p].id = i /\ procs'[p] = Idle]_authVars
============================================================================
