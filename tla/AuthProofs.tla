----------------------------- MODULE AuthProofs -----------------------------
(***************************************************************************)
(* What AdminAuth keeps for any number of administrators, tokens and       *)
(* concurrent requests.  The inductive invariant has four parts: the       *)
(* second factors (admin_users and the codes spent), the sessions, the     *)
(* requests in progress, and that a superuser remains.                     *)
(***************************************************************************)
EXTENDS AdminAuth, TLAPS

\* What a request in progress has read.
ProcStates ==
    {Idle}
    \cup [pc : {"login", "recovery"}, admin : Admins, password : Nat, code : CodeType]
    \cup [pc : {"route"}, id : Ids, serial : Nat, admin : Admins, token : {None},
          view : BOOLEAN, sees : BOOLEAN, may : BOOLEAN]
    \cup [pc : {"route"}, id : {0}, serial : {0}, admin : {0}, token : Tokens,
          view : BOOLEAN, sees : BOOLEAN, may : BOOLEAN]
    \cup [pc : {"password", "setup", "confirm", "disable"}, code : CodeType, id : Ids, serial : Nat,
          admin : Admins]

AuthTyped ==
    /\ admins \in [Admins -> AdminRows \cup {None}]
    /\ sessions \in [Ids -> SessionRows \cup {None}]
    /\ tokens \in [Tokens -> {"unused", "live", "revoked"}]
    /\ signins \in 0..MaxSignIns /\ fresh \in 1..MaxFresh /\ clock \in 1..MaxStep
    /\ procs \in [Procs -> ProcStates]
    /\ spent \in SUBSET CodeType /\ shown \in SUBSET (Nat \X Nat)

\* A row alone: its numbers have been drawn, and it has a secret or one to be
\* confirmed, not both.
RowSound(row) ==
    /\ row.password \in 1..fresh
    /\ row.last_step \in NoStep..(clock + 1)
    /\ row.secret <= fresh /\ row.pending <= fresh
    /\ row.secret = NoSecret => row.recovery = {}
    /\ row.secret = NoSecret \/ row.pending = NoSecret
    /\ \A c \in row.recovery : c[1] = "recovery" /\ c[2] <= fresh

\* Two rows share no secret and no recovery code.
Apart(r, s) ==
    /\ r.secret # NoSecret => r.secret # s.secret /\ r.secret # s.pending
    /\ r.pending # NoSecret => r.pending # s.secret /\ r.pending # s.pending
    /\ r.recovery \cap s.recovery = {}

\* A spent code opens nothing any more: a recovery code is in no row, a TOTP code
\* is of a step no later than last_step.
Spent(c, row) ==
    /\ c \notin row.recovery
    /\ c[1] = "totp" => row.pending # c[2] /\ (row.secret = c[2] => c[3] <= row.last_step)

Shown(pair, row) ==
    /\ row.pending # pair[1]
    /\ row.secret = pair[1] => row.recovery \subseteq CodeSet(pair[2])

FactorInv ==
    /\ \A a \in Admins : admins[a] # None => RowSound(admins[a])
    /\ \A a, b \in Admins : a # b /\ admins[a] # None /\ admins[b] # None => Apart(admins[a], admins[b])
    /\ \A c \in spent : c[2] <= fresh /\ (c[1] = "totp" => c[2] # NoSecret)
    /\ \A a \in Admins : admins[a] # None => \A c \in spent : Spent(c, admins[a])
    /\ \A pair \in shown : pair[1] # NoSecret /\ pair[1] <= fresh
    /\ \A a \in Admins : admins[a] # None => \A pair \in shown : Shown(pair, admins[a])
    /\ twice = {}

SessionInv ==
    \A i \in Ids : sessions[i] # None =>
        /\ sessions[i].serial <= signins
        /\ admins[sessions[i].admin] # None
        /\ admins[sessions[i].admin].enabled => sessions[i].enabled

\* A request that confirms a secret holds a code of it.
ProcInv ==
    \A p \in Procs : procs[p].pc = "confirm" =>
        /\ procs[p].code[1] = "totp" /\ procs[p].code[2] # NoSecret
        /\ procs[p].code[3] \in 0..(clock + 1)

AuthInv == AuthTyped /\ FactorInv /\ SessionInv /\ ProcInv /\ SuperuserRemains

---------------------------------------------------------------------------
(* Keys.                                                                   *)

\* The keys are 1..n for a number n that is not 0.
LEMMA AdminKeys == Admins \subseteq Nat \ {0} /\ 1 \in Admins
  BY AdminKeysAssumption

\* The key SQLite gives a new administrator is no other's.
LEMMA NextAdminIsNew ==
    ASSUME NEW a \in Admins, NextAdmin(a) PROVE admins[a] = None
  BY AdminKeys DEF NextAdmin

---------------------------------------------------------------------------
(* What a step does to each part of the invariant.                         *)

\* Rows may go, and change in what is not the second factor.
LEMMA FactorKept ==
    ASSUME AuthTyped, FactorInv, UNCHANGED historyVars,
           fresh' \in Nat, fresh <= fresh', clock' \in Nat, clock <= clock',
           \A a \in Admins : admins'[a] # None =>
               /\ admins[a] # None
               /\ admins'[a].secret = admins[a].secret /\ admins'[a].pending = admins[a].pending
               /\ admins'[a].last_step = admins[a].last_step /\ admins'[a].recovery = admins[a].recovery
               /\ admins'[a].password \in 1..fresh'
    PROVE  FactorInv'
<1>1. UNCHANGED <<spent, twice, shown>>
  BY Zenon DEF historyVars
<1>2. fresh \in Nat /\ clock \in Nat /\ \A a \in Admins : admins[a] # None => admins[a] \in AdminRows
  BY DEF AuthTyped
<1>3. ASSUME NEW a \in Admins, admins'[a] # None PROVE RowSound(admins[a])'
  <2>1. RowSound(admins[a]) /\ admins[a] \in AdminRows
    BY <1>2, <1>3, Zenon DEF FactorInv
  <2>2. admins'[a].last_step \in NoStep..(clock' + 1)
    BY <1>2, <1>3, <2>1 DEF RowSound, NoStep, AdminRows
  <2>3. admins'[a].secret <= fresh' /\ admins'[a].pending <= fresh'
    BY <1>2, <1>3, <2>1 DEF RowSound, AdminRows
  <2>4. \A c \in admins'[a].recovery : c[1] = "recovery" /\ c[2] <= fresh'
    BY <1>2, <1>3, <2>1 DEF RowSound, AdminRows, CodeType
  <2>5. QED
    BY <1>3, <2>1, <2>2, <2>3, <2>4, Zenon DEF RowSound
<1>4. ASSUME NEW a \in Admins, NEW b \in Admins, a # b, admins'[a] # None, admins'[b] # None
      PROVE  Apart(admins[a], admins[b])'
  BY <1>4 DEF FactorInv, Apart
<1>5. ASSUME NEW c \in spent PROVE c[2] <= fresh' /\ (c[1] = "totp" => c[2] # NoSecret)
  BY <1>2, <1>5 DEF FactorInv, AuthTyped, CodeType
<1>6. ASSUME NEW a \in Admins, admins'[a] # None, NEW c \in spent PROVE Spent(c, admins[a])'
  BY <1>6 DEF FactorInv, Spent
<1>7. ASSUME NEW pair \in shown PROVE pair[1] # NoSecret /\ pair[1] <= fresh'
  BY <1>2, <1>7 DEF FactorInv, AuthTyped
<1>8. ASSUME NEW a \in Admins, admins'[a] # None, NEW pair \in shown PROVE Shown(pair, admins[a])'
  BY <1>8 DEF FactorInv, Shown, CodeSet
<1>9. QED
  BY <1>1, <1>3, <1>4, <1>5, <1>6, <1>7, <1>8, Zenon DEF FactorInv

\* One row is new or changed; the others are apart from it.
LEMMA FactorStep ==
    ASSUME AuthTyped, FactorInv,
           NEW a \in Admins, NEW row \in AdminRows, admins' = [admins EXCEPT ![a] = row],
           fresh' \in Nat, fresh <= fresh', clock' = clock, RowSound(row)',
           \A b \in Admins : b # a /\ admins[b] # None => Apart(row, admins[b]) /\ Apart(admins[b], row),
           \A c \in spent' : c[2] <= fresh' /\ (c[1] = "totp" => c[2] # NoSecret) /\ Spent(c, row),
           \A c \in spent' \ spent : \A b \in Admins : b # a /\ admins[b] # None => Spent(c, admins[b]),
           \A pair \in shown' : pair[1] # NoSecret /\ pair[1] <= fresh' /\ Shown(pair, row),
           \A pair \in shown' \ shown : \A b \in Admins : b # a /\ admins[b] # None => Shown(pair, admins[b]),
           twice' = {}
    PROVE  FactorInv'
<1>1. admins'[a] = row /\ \A b \in Admins : b # a => admins'[b] = admins[b]
  BY Zenon DEF AuthTyped
<1>2. fresh \in Nat /\ clock \in Nat /\ \A b \in Admins : admins[b] # None => admins[b] \in AdminRows
  BY DEF AuthTyped
<1>3. ASSUME NEW b \in Admins, admins'[b] # None PROVE RowSound(admins[b])'
  <2>1. CASE b = a
    BY <1>1, <2>1, Zenon DEF RowSound
  <2>2. CASE b # a
    <3>1. RowSound(admins[b]) /\ admins[b] \in AdminRows /\ admins'[b] = admins[b]
      BY <1>1, <1>2, <1>3, <2>2, Zenon DEF FactorInv
    <3>2. admins[b].secret <= fresh' /\ admins[b].pending <= fresh' /\ admins[b].password \in 1..fresh'
      BY <1>2, <3>1 DEF RowSound, AdminRows
    <3>3. \A c \in admins[b].recovery : c[1] = "recovery" /\ c[2] <= fresh'
      BY <1>2, <3>1 DEF RowSound, AdminRows, CodeType
    <3>4. QED
      BY <3>1, <3>2, <3>3, Zenon DEF RowSound
  <2>3. QED
    BY <2>1, <2>2, Zenon
<1>4. ASSUME NEW b \in Admins, NEW d \in Admins, b # d, admins'[b] # None, admins'[d] # None
      PROVE  Apart(admins[b], admins[d])'
  <2>1. Apart(admins'[b], admins'[d])
    BY <1>1, <1>4, Zenon DEF FactorInv
  <2>2. QED
    BY <2>1, Zenon DEF Apart
<1>5. ASSUME NEW b \in Admins, admins'[b] # None, NEW c \in spent' PROVE Spent(c, admins[b])'
  <2>1. Spent(c, admins'[b])
    BY <1>1, <1>5, Zenon DEF FactorInv
  <2>2. QED
    BY <2>1, Zenon DEF Spent
<1>6. ASSUME NEW b \in Admins, admins'[b] # None, NEW pair \in shown' PROVE Shown(pair, admins[b])'
  <2>1. Shown(pair, admins'[b])
    BY <1>1, <1>6, Zenon DEF FactorInv
  <2>2. QED
    BY <2>1, Zenon DEF Shown, CodeSet
<1>7. QED
  BY <1>3, <1>4, <1>5, <1>6, Zenon DEF FactorInv

\* Sessions may go, of accounts that stay and are not enabled.
LEMMA SessionsKept ==
    ASSUME SessionInv, signins' = signins,
           \A i \in Ids : sessions'[i] # None =>
               /\ sessions[i] # None /\ sessions'[i].admin = sessions[i].admin
               /\ sessions'[i].serial = sessions[i].serial /\ sessions'[i].enabled = sessions[i].enabled
               /\ admins'[sessions[i].admin] # None
               /\ admins'[sessions[i].admin].enabled => admins[sessions[i].admin].enabled
    PROVE  SessionInv'
  BY Zenon DEF SessionInv

\* revoke_all() takes the sessions of the account, but the one it keeps.
LEMMA RevokeAll ==
    ASSUME AuthTyped, NEW b \in Admins, NEW keep
    PROVE  /\ revoke_all(b, keep) \in [Ids -> SessionRows \cup {None}]
           /\ \A i \in Ids : revoke_all(b, keep)[i] # None =>
                 /\ sessions[i] # None /\ revoke_all(b, keep)[i] = sessions[i]
                 /\ sessions[i].admin # b \/ i = keep
  BY Zenon DEF AuthTyped, revoke_all

\* A request ends.
LEMMA RequestEnds ==
    ASSUME AuthTyped, ProcInv, NEW p \in Procs, procs' = Become(p, Idle), clock' = clock
    PROVE  procs' \in [Procs -> ProcStates] /\ procs'[p] = Idle /\ ProcInv'
<1>1. Idle \in ProcStates /\ Idle.pc = "idle"
  BY Zenon DEF ProcStates, Idle
<1>2. procs' \in [Procs -> ProcStates] /\ procs'[p] = Idle /\ \A q \in Procs : q # p => procs'[q] = procs[q]
  BY <1>1, Zenon DEF AuthTyped, Become
<1>3. QED
  BY <1>1, <1>2, Zenon DEF ProcInv

\* A step that leaves admin_users and the codes alone.
LEMMA AccountsKept ==
    ASSUME AuthInv, UNCHANGED <<admins, signins, fresh, historyVars>>,
           sessions' \in [Ids -> SessionRows \cup {None}],
           \A i \in Ids : sessions'[i] # None => sessions'[i] = sessions[i],
           tokens' \in [Tokens -> {"unused", "live", "revoked"}],
           clock' \in 1..MaxStep, clock <= clock',
           procs' \in [Procs -> ProcStates], ProcInv'
    PROVE  AuthInv'
<1> USE DEF AuthInv
<1>1. UNCHANGED <<spent, twice, shown>>
  BY Zenon DEF historyVars
<1>2. AuthTyped'
  BY <1>1, Zenon DEF AuthTyped
<1>3. FactorInv'
  <2>1. \A a \in Admins : admins[a] # None => admins[a].password \in 1..fresh
    BY Zenon DEF FactorInv, RowSound
  <2>2. fresh \in Nat /\ fresh <= fresh /\ clock' \in Nat
    BY AuthBoundAssumption DEF AuthTyped
  <2>3. QED
    BY <2>1, <2>2, FactorKept, Zenon
<1>4. SessionInv'
  BY Zenon DEF SessionInv
<1>5. QED
  BY <1>2, <1>3, <1>4, Zenon DEF SuperuserRemains

---------------------------------------------------------------------------
(* Steps that leave the accounts alone.                                    *)

\* What an owner enters has the form of a code.
LEMMA CodesTyped ==
    ASSUME AuthTyped, NEW row \in AdminRows, NEW code \in Codes(row)
    PROVE  code \in CodeType
<1>1. clock \in Nat
  BY DEF AuthTyped
<1>2. CASE code \in row.recovery
  BY <1>2, Zenon DEF AdminRows
<1>3. CASE code = NoCode
  BY <1>3 DEF NoCode, CodeType
<1>4. ASSUME NEW n \in {row.secret, row.pending} \ {NoSecret}, NEW step \in (clock - 1)..(clock + 1),
             code = TotpCode(n, step)
      PROVE  code \in CodeType
  <2>1. n \in Nat
    BY Zenon DEF AdminRows
  <2>2. step \in Int
    BY <1>1
  <2>3. QED
    BY <1>4, <2>1, <2>2, Zenon DEF TotpCode, CodeType
<1>5. QED
  BY <1>2, <1>3, <1>4 DEF Codes

\* A request goes on to a state that confirms nothing.
LEMMA RequestMoves ==
    ASSUME AuthInv, NEW p \in Procs, NEW state \in ProcStates,
           state.pc = "confirm" => /\ state.code[1] = "totp" /\ state.code[2] # NoSecret
                                   /\ state.code[3] \in 0..(clock + 1),
           procs' = Become(p, state),
           UNCHANGED <<admins, sessions, tokens, signins, fresh, clock, historyVars>>
    PROVE  AuthInv'
<1>1. procs' \in [Procs -> ProcStates] /\ procs'[p] = state /\ \A q \in Procs : q # p => procs'[q] = procs[q]
  BY Zenon DEF AuthInv, AuthTyped, Become
<1>2. ProcInv'
  BY <1>1, Zenon DEF AuthInv, ProcInv
<1>3. clock' \in 1..MaxStep /\ clock <= clock'
  BY DEF AuthInv, AuthTyped
<1>4. sessions' \in [Ids -> SessionRows \cup {None}] /\ tokens' \in [Tokens -> {"unused", "live", "revoked"}]
  BY Zenon DEF AuthInv, AuthTyped
<1>5. QED
  BY <1>1, <1>2, <1>3, <1>4, AccountsKept, Zenon

\* login(), up to the bcrypt comparison.
LEMMA LoginInv ==
    ASSUME AuthInv, NEW p \in Procs, NEW a \in Admins, admins[a] # None, NEW code \in Codes(admins[a]),
           login(p, a, code)
    PROVE  AuthInv'
<1>d. PICK state : state = [pc |-> "login", admin |-> a, password |-> admins[a].password, code |-> code]
  BY Zenon
<1>1. admins[a] \in AdminRows
  BY Zenon DEF AuthInv, AuthTyped
<1>2. code \in CodeType /\ admins[a].password \in Nat
  BY <1>1, CodesTyped, Zenon DEF AuthInv, AdminRows
<1>3. state \in ProcStates /\ state.pc # "confirm"
  BY <1>d, <1>2, Zenon DEF ProcStates
<1>4. procs' = Become(p, state) /\ UNCHANGED <<admins, sessions, tokens, signins, fresh, clock, historyVars>>
  BY <1>d, Zenon DEF login
<1>5. QED
  BY <1>3, <1>4, RequestMoves, Zenon

\* The list of recovery codes is read.
LEMMA LoginRecoveryInv ==
    ASSUME AuthInv, NEW p \in Procs, login_recovery(p)
    PROVE  AuthInv'
<1>d. PICK state : state = [procs[p] EXCEPT !.pc = "recovery"]
  BY Zenon
<1>1. procs[p] \in ProcStates /\ procs[p].pc = "login"
  BY Zenon DEF AuthInv, AuthTyped, login_recovery, AtFactor
<1>2. procs[p] \in [pc : {"login", "recovery"}, admin : Admins, password : Nat, code : CodeType]
  BY <1>1 DEF ProcStates, Idle
<1>3. state \in ProcStates /\ state.pc # "confirm"
  BY <1>d, <1>2, Zenon DEF ProcStates
<1>4. procs' = Become(p, state) /\ UNCHANGED <<admins, sessions, tokens, signins, fresh, clock, historyVars>>
  BY <1>d, Zenon DEF login_recovery, Become
<1>5. QED
  BY <1>3, <1>4, RequestMoves, Zenon

\* current_principal().
LEMMA PrincipalInv ==
    ASSUME AuthInv, NEW p \in Procs,
           \/ \E i \in Ids : resolve(p, i)
           \/ \E t \in Tokens : token_principal(p, t)
    PROVE  AuthInv'
<1>1. ASSUME NEW i \in Ids, resolve(p, i) PROVE AuthInv'
  <2>1. sessions[i] # None
    BY <1>1, Zenon DEF resolve
  <2>2. PICK row : row = sessions[i] /\ row \in SessionRows
    BY <2>1, Zenon DEF AuthInv, AuthTyped
  <2>3. PICK view \in BOOLEAN, sees \in BOOLEAN, may \in BOOLEAN :
            /\ view = ~Restricted(admins[row.admin])
            /\ sees = (admins[row.admin].role # "VIEWER")
            /\ may = (admins[row.admin].role = "SUPERUSER" /\ ~Restricted(admins[row.admin]))
    BY Zenon
  <2>4. PICK state : state = [pc |-> "route", id |-> i, serial |-> row.serial, admin |-> row.admin,
                              token |-> None, view |-> view, sees |-> sees, may |-> may]
    BY Zenon
  <2>5. row.admin \in Admins /\ row.serial \in Nat
    BY <2>2, Zenon DEF SessionRows
  <2>6. state \in ProcStates /\ state.pc # "confirm"
    BY <2>4, <2>5, Zenon DEF ProcStates
  <2>7. procs' = Become(p, state) /\ UNCHANGED <<admins, sessions, tokens, signins, fresh, clock, historyVars>>
    BY <1>1, <2>2, <2>3, <2>4, Zenon DEF resolve
  <2>8. QED
    BY <2>6, <2>7, RequestMoves, Zenon
<1>2. ASSUME NEW t \in Tokens, token_principal(p, t) PROVE AuthInv'
  <2>1. PICK state : state = [pc |-> "route", id |-> 0, serial |-> 0, admin |-> 0, token |-> t, view |-> TRUE,
                              sees |-> TRUE, may |-> TRUE]
    BY Zenon
  <2>2. state \in ProcStates /\ state.pc # "confirm"
    BY <2>1, Zenon DEF ProcStates
  <2>3. procs' = Become(p, state) /\ UNCHANGED <<admins, sessions, tokens, signins, fresh, clock, historyVars>>
    BY <1>2, <2>1, Zenon DEF token_principal
  <2>4. QED
    BY <2>2, <2>3, RequestMoves, Zenon
<1>3. QED
  BY <1>1, <1>2, Zenon

\* What a request of a session has read; what a paused one keeps of it.
LEMMA RouteState ==
    ASSUME AuthInv, NEW p \in Procs, AtRoute(p)
    PROVE  /\ procs[p].id \in Ids /\ procs[p].serial \in Nat /\ procs[p].admin \in Admins
           /\ Current(p) \in AdminRows
<1>1. procs[p] \in ProcStates /\ procs[p].pc = "route" /\ procs[p].admin # 0 /\ admins[procs[p].admin] # None
  BY Zenon DEF AuthInv, AuthTyped, AtRoute, Current
<1>2. procs[p] \in [pc : {"route"}, id : Ids, serial : Nat, admin : Admins, token : {None},
                    view : BOOLEAN, sees : BOOLEAN, may : BOOLEAN]
  BY <1>1 DEF ProcStates, Idle
<1>3. procs[p].id \in Ids /\ procs[p].serial \in Nat /\ procs[p].admin \in Admins
  BY <1>2, Zenon
<1>4. QED
  BY <1>1, <1>3, Zenon DEF AuthInv, AuthTyped, Current

\* change_password(), totp_setup(), totp_confirm() and totp_disable(), up to the
\* hash; requests that end.
LEMMA PauseInv ==
    ASSUME AuthInv, NEW p \in Procs,
           \/ change_password(p) \/ totp_setup(p) \/ leave(p)
           \/ AtRoute(p) /\ \E code \in Codes(Current(p)) : totp_confirm(p, code) \/ totp_disable(p, code)
    PROVE  AuthInv'
<1>1. ASSUME leave(p) PROVE AuthInv'
  <2>1. Idle \in ProcStates /\ Idle.pc # "confirm"
    BY Zenon DEF ProcStates, Idle
  <2>2. QED
    BY <1>1, <2>1, RequestMoves, Zenon DEF leave
<1>2. ASSUME AtRoute(p), NEW pc \in {"password", "setup", "confirm", "disable"}, NEW code \in CodeType
      PROVE  Paused(p, pc, code) \in ProcStates
             /\ Paused(p, pc, code).pc = pc /\ Paused(p, pc, code).code = code
  BY <1>2, RouteState, Zenon DEF Paused, ProcStates
<1>3. NoCode \in CodeType
  BY DEF NoCode, CodeType
<1>4. ASSUME change_password(p) PROVE AuthInv'
  <2>1. Paused(p, "password", NoCode) \in ProcStates /\ Paused(p, "password", NoCode).pc = "password"
    BY <1>2, <1>3, <1>4, Zenon DEF change_password
  <2>2. QED
    BY <1>4, <2>1, RequestMoves, Zenon DEF change_password, Pause
<1>5. ASSUME totp_setup(p) PROVE AuthInv'
  <2>1. Paused(p, "setup", NoCode) \in ProcStates /\ Paused(p, "setup", NoCode).pc = "setup"
    BY <1>2, <1>3, <1>5, Zenon DEF totp_setup
  <2>2. QED
    BY <1>5, <2>1, RequestMoves, Zenon DEF totp_setup, Pause
<1>6. ASSUME AtRoute(p), NEW code \in Codes(Current(p)), totp_confirm(p, code) PROVE AuthInv'
  <2> DEFINE n == Current(p).pending
  <2>1. code \in CodeType
    BY <1>6, RouteState, CodesTyped, Zenon DEF AuthInv
  <2>2. n # NoSecret /\ totp_match(n, code, NoStep) # NoStep /\ Pause(p, Paused(p, "confirm", code))
    BY <1>6, Zenon DEF totp_confirm
  <2>3. clock \in Nat
    BY DEF AuthInv, AuthTyped
  <2>4. PICK step \in (clock - 1)..(clock + 1) : code = TotpCode(n, step) /\ code[3] > NoStep
    BY <2>2, Zenon DEF totp_match
  <2>5. code[1] = "totp" /\ code[2] # NoSecret /\ code[3] = step
    BY <2>2, <2>4, Zenon DEF TotpCode
  <2>6. code[3] \in 0..(clock + 1)
    BY <2>3, <2>4, <2>5 DEF NoStep
  <2>7. Paused(p, "confirm", code) \in ProcStates /\ Paused(p, "confirm", code).code = code
    BY <1>2, <1>6, <2>1, Zenon
  <2>8. QED
    BY <2>2, <2>5, <2>6, <2>7, RequestMoves, Zenon DEF Pause
<1>7. ASSUME AtRoute(p), NEW code \in Codes(Current(p)), totp_disable(p, code) PROVE AuthInv'
  <2>1. code \in CodeType
    BY <1>7, RouteState, CodesTyped, Zenon DEF AuthInv
  <2>2. Paused(p, "disable", code) \in ProcStates /\ Paused(p, "disable", code).pc = "disable"
    BY <1>2, <1>7, <2>1, Zenon
  <2>3. QED
    BY <1>7, <2>2, RequestMoves, Zenon DEF totp_disable, Pause
<1>8. QED
  BY <1>1, <1>4, <1>5, <1>6, <1>7, Zenon

\* A session is deleted, by expiry, logout() or end_session().
LEMMA SessionEndsInv ==
    ASSUME AuthInv, NEW i, sessions' = [sessions EXCEPT ![i] = None],
           procs' \in [Procs -> ProcStates], ProcInv',
           UNCHANGED <<admins, tokens, signins, fresh, clock, historyVars>>
    PROVE  AuthInv'
<1>1. sessions' \in [Ids -> SessionRows \cup {None}] /\ tokens' \in [Tokens -> {"unused", "live", "revoked"}]
  BY ZenonT(60), Zenon DEF AuthInv, AuthTyped
<1>2. \A j \in Ids : sessions'[j] # None => sessions'[j] = sessions[j]
  BY Zenon DEF AuthInv, AuthTyped
<1>3. clock' \in 1..MaxStep /\ clock <= clock'
  BY DEF AuthInv, AuthTyped
<1>4. QED
  BY <1>1, <1>2, <1>3, AccountsKept, Zenon

\* expire(), logout(), end_session(), save_token and the clock.
LEMMA OtherTablesInv ==
    ASSUME AuthInv,
           \/ tick
           \/ \E i \in Ids : expire(i)
           \/ \E p \in Procs : \/ logout(p)
                               \/ \E i \in Ids : end_session(p, i)
                               \/ \E t \in Tokens : save_token(p, t)
    PROVE  AuthInv'
<1> USE DEF AuthInv
<1>1. ASSUME tick PROVE AuthInv'
  <2>1. UNCHANGED <<admins, sessions, tokens, signins, procs, fresh, historyVars>> /\ clock' = clock + 1
        /\ clock < MaxStep
    BY <1>1, Zenon DEF tick
  <2>2. clock' \in 1..MaxStep /\ clock <= clock'
    BY <2>1, AuthBoundAssumption DEF AuthTyped
  <2>3. ProcInv'
    BY <2>1 DEF ProcInv, AuthTyped
  <2>4. QED
    BY <2>1, <2>2, <2>3, AccountsKept, Zenon DEF AuthTyped
<1>2. ASSUME NEW i \in Ids, expire(i) PROVE AuthInv'
  <2>1. UNCHANGED <<admins, tokens, signins, procs, fresh, clock, historyVars>>
        /\ sessions' = [sessions EXCEPT ![i] = None]
    BY <1>2, Zenon DEF expire
  <2>2. procs' \in [Procs -> ProcStates] /\ ProcInv'
    BY <2>1, Zenon DEF AuthTyped, ProcInv
  <2>3. QED
    BY <2>1, <2>2, SessionEndsInv, ZenonT(60), Zenon
<1>3. ASSUME NEW p \in Procs, logout(p) PROVE AuthInv'
  <2>1. UNCHANGED <<admins, tokens, signins, fresh, clock, historyVars>>
        /\ sessions' = [sessions EXCEPT ![procs[p].id] = None] /\ procs' = Become(p, Idle)
    BY <1>3, Zenon DEF logout
  <2>2. QED
    BY <2>1, RequestEnds, SessionEndsInv, ZenonT(60), Zenon
<1>4. ASSUME NEW p \in Procs, NEW i \in Ids, end_session(p, i) PROVE AuthInv'
  <2>1. UNCHANGED <<admins, tokens, signins, fresh, clock, historyVars>>
        /\ sessions' = [sessions EXCEPT ![i] = None] /\ procs' = Become(p, Idle)
    BY <1>4, Zenon DEF end_session
  <2>2. QED
    BY <2>1, RequestEnds, SessionEndsInv, ZenonT(60), Zenon
<1>5. ASSUME NEW p \in Procs, NEW t \in Tokens, save_token(p, t) PROVE AuthInv'
  <2>1. UNCHANGED <<admins, sessions, signins, fresh, clock, historyVars>> /\ procs' = Become(p, Idle)
        /\ tokens' = [tokens EXCEPT ![t] = IF @ = "unused" THEN "live" ELSE "revoked"]
    BY <1>5, Zenon DEF save_token
  <2>2. tokens' \in [Tokens -> {"unused", "live", "revoked"}]
    BY <2>1, Zenon DEF AuthTyped
  <2>3. clock' \in 1..MaxStep /\ clock <= clock' /\ sessions' \in [Ids -> SessionRows \cup {None}]
    BY <2>1 DEF AuthTyped
  <2>4. QED
    BY <2>1, <2>2, <2>3, RequestEnds, AccountsKept, Zenon
<1>6. QED
  BY <1>1, <1>2, <1>3, <1>4, <1>5, Zenon

---------------------------------------------------------------------------
(* Sign-ins.                                                               *)

\* What a request that signs in has read.
LEMMA LoginState ==
    ASSUME AuthInv, NEW p \in Procs, procs[p].pc \in {"login", "recovery"}, Current(p) # None
    PROVE  /\ procs[p].admin \in Admins /\ procs[p].password \in Nat /\ procs[p].code \in CodeType
           /\ Current(p) \in AdminRows /\ RowSound(Current(p))
<1>1. procs[p] \in ProcStates
  BY Zenon DEF AuthInv, AuthTyped
<1>2. procs[p] \in [pc : {"login", "recovery"}, admin : Admins, password : Nat, code : CodeType]
  BY <1>1 DEF ProcStates, Idle
<1>3. procs[p].admin \in Admins /\ procs[p].password \in Nat /\ procs[p].code \in CodeType
  BY <1>2, Zenon
<1>4. QED
  BY <1>3, Zenon DEF AuthInv, AuthTyped, FactorInv, Current

\* The session a sign-in opens, with a row that differs in the second factor only.
LEMMA SignInKeeps ==
    ASSUME AuthInv, NEW p \in Procs, procs[p].pc \in {"login", "recovery"}, Current(p) # None,
           NEW row \in AdminRows, row.enabled = Current(p).enabled, row.role = Current(p).role,
           SignIn(p, row), FactorInv', spent' \in SUBSET CodeType
    PROVE  AuthInv'
<1> USE DEF AuthInv
<1>d. PICK a, new : a = procs[p].admin /\ new = Session(a, procs[p].password)
  BY Zenon
<1>1. /\ a \in Admins /\ procs[p].password \in Nat
      /\ signins < MaxSignIns /\ signins' = signins + 1 /\ signins \in Nat
      /\ admins' = [admins EXCEPT ![a] = row] /\ sessions' = [sessions EXCEPT ![NextId] = new]
      /\ procs' = Become(p, Idle) /\ UNCHANGED <<tokens, fresh, clock, shown>>
  BY <1>d, LoginState DEF SignIn, AuthTyped
<1>2. admins' \in [Admins -> AdminRows \cup {None}] /\ admins'[a] = row /\ row # None
      /\ \A b \in Admins : b # a => admins'[b] = admins[b]
  BY <1>1, NoRowAssumption, Zenon DEF AuthTyped
<1>3. admins[a] # None /\ admins[a].enabled = row.enabled /\ admins[a].role = row.role /\ row.enabled \in BOOLEAN
  BY <1>d, Zenon DEF Current, AdminRows
<1>4. new \in SessionRows /\ new.admin = a /\ new.serial = signins' /\ new.enabled = row.enabled
  BY <1>d, <1>1, <1>3 DEF Session, SessionRows
<1>5. sessions' \in [Ids -> SessionRows \cup {None}]
      /\ \A i \in Ids : sessions'[i] = new \/ sessions'[i] = sessions[i]
  BY <1>1, <1>4, ZenonT(60), Zenon DEF AuthTyped
<1>6. signins' \in 0..MaxSignIns
  BY <1>1, AuthBoundAssumption
<1>7. procs' \in [Procs -> ProcStates] /\ ProcInv'
  BY <1>1, RequestEnds, Zenon
<1>8. AuthTyped'
  BY <1>1, <1>2, <1>5, <1>6, <1>7, Zenon DEF AuthTyped
<1>9. SessionInv'
  <2> SUFFICES ASSUME NEW i \in Ids, sessions'[i] # None
               PROVE  /\ sessions'[i].serial <= signins'
                      /\ admins'[sessions'[i].admin] # None
                      /\ admins'[sessions'[i].admin].enabled => sessions'[i].enabled
    BY Zenon DEF SessionInv
  <2>1. CASE sessions'[i] = new
    BY <1>1, <1>2, <1>4, <2>1
  <2>2. CASE sessions'[i] = sessions[i]
    <3>1. sessions[i] \in SessionRows /\ sessions[i].admin \in Admins /\ sessions[i].serial \in Nat
      BY <2>2, Zenon DEF AuthTyped, SessionRows
    <3>2. sessions[i].serial <= signins /\ admins[sessions[i].admin] # None
          /\ (admins[sessions[i].admin].enabled => sessions[i].enabled)
      BY <2>2, Zenon DEF SessionInv
    <3>3. sessions[i].serial <= signins'
      BY <1>1, <3>1, <3>2
    <3>4. QED
      BY <1>2, <1>3, <2>2, <3>1, <3>2, <3>3, Zenon
  <2>3. QED
    BY <1>5, <2>1, <2>2, Zenon
<1>10. SuperuserRemains'
  BY <1>1, <1>2, <1>3, Zenon DEF SuperuserRemains
<1>11. QED
  BY <1>7, <1>8, <1>9, <1>10, Zenon

\* match() finds the step of a code of the secret, newer than the last one.
LEMMA MatchFinds ==
    ASSUME clock \in Nat, NEW secret, NEW code, NEW last \in Int, totp_match(secret, code, last) # NoStep
    PROVE  /\ code[1] = "totp" /\ code[2] = secret
           /\ code[3] \in Int /\ code[3] > last /\ code[3] <= clock + 1
           /\ totp_match(secret, code, last) = code[3]
<1>1. PICK step \in (clock - 1)..(clock + 1) : code = TotpCode(secret, step)
  BY Zenon DEF totp_match
<1>2. code[1] = "totp" /\ code[2] = secret /\ code[3] = step
  BY <1>1, Zenon DEF TotpCode
<1>3. code[3] > last /\ totp_match(secret, code, last) = code[3]
  BY Zenon DEF totp_match
<1>4. QED
  BY <1>1, <1>2, <1>3

\* An account without a second factor.
LEMMA LoginWithoutFactorInv ==
    ASSUME AuthInv, NEW p \in Procs, login_without_factor(p)
    PROVE  AuthInv'
<1> USE DEF AuthInv
<1>d. PICK row : row = Current(p)
  BY Zenon
<1>1. procs[p].pc = "login" /\ row # None /\ SignIn(p, row) /\ UNCHANGED <<spent, twice>>
  BY <1>d, Zenon DEF login_without_factor, AtFactor
<1>2. procs[p].admin \in Admins /\ row \in AdminRows
  BY <1>d, <1>1, LoginState, Zenon
<1>3. admins' = admins /\ UNCHANGED <<fresh, clock, shown>>
  BY <1>d, <1>1, <1>2, Zenon DEF SignIn, Current, AuthTyped
<1>4. FactorInv'
  BY <1>1, <1>3 DEF FactorInv, RowSound, Apart, Spent, Shown, CodeSet
<1>5. QED
  BY <1>d, <1>1, <1>2, <1>4, SignInKeeps, Zenon DEF AuthTyped

\* A TOTP code is spent, and last_step rules it out from then on.
LEMMA LoginTotpInv ==
    ASSUME AuthInv, NEW p \in Procs, login_totp(p)
    PROVE  AuthInv'
<1> USE DEF AuthInv
<1>d. PICK old, a, code : old = Current(p) /\ a = procs[p].admin /\ code = procs[p].code
  BY Zenon
<1>0. PICK row : row = [old EXCEPT !.last_step = code[3]]
  BY ZenonT(60), Zenon
<1>1. procs[p].pc = "login" /\ old # None /\ old.secret # NoSecret
      /\ totp_match(old.secret, code, old.last_step) # NoStep
      /\ SignIn(p, [old EXCEPT !.last_step = totp_match(old.secret, code, old.last_step)])
      /\ spent' = spent \cup {code} /\ (code \notin spent => twice' = twice)
  BY <1>d, Zenon DEF login_totp, AtFactor, Spend
<1>2. a \in Admins /\ old \in AdminRows /\ RowSound(old) /\ code \in CodeType
  BY <1>d, <1>1, LoginState, Zenon
<1>3. fresh \in Nat /\ clock \in Nat /\ old.last_step \in Int /\ old.last_step >= -1 /\ old.secret \in Nat
      /\ old.secret <= fresh
  BY <1>2 DEF AuthTyped, AdminRows, RowSound, NoStep
<1>4. code[1] = "totp" /\ code[2] = old.secret /\ code[3] \in Int /\ code[3] > old.last_step
      /\ code[3] <= clock + 1 /\ SignIn(p, row)
  <2>1. totp_match(old.secret, code, old.last_step) = code[3] /\ code[1] = "totp" /\ code[2] = old.secret
        /\ code[3] \in Int /\ code[3] > old.last_step /\ code[3] <= clock + 1
    BY <1>1, <1>3, MatchFinds
  <2>2. QED
    BY <1>0, <1>1, <2>1, Zenon
<1>5. row \in AdminRows /\ row.secret = old.secret /\ row.pending = old.pending /\ row.recovery = old.recovery
      /\ row.password = old.password /\ row.last_step = code[3] /\ row.enabled = old.enabled
      /\ row.role = old.role
  BY <1>0, <1>2, <1>4, Zenon DEF AdminRows
<1>6. admins' = [admins EXCEPT ![a] = row] /\ UNCHANGED <<fresh, clock, shown>>
  BY <1>d, <1>4, Zenon DEF SignIn
<1>7. code \notin spent /\ twice' = {}
  <2>1. code \notin spent
    <3>1. \A c \in spent : c[1] = "totp" /\ old.secret = c[2] => c[3] <= old.last_step
      BY <1>d, <1>1, <1>2, Zenon DEF FactorInv, Spent, Current
    <3>2. QED
      BY <1>3, <1>4, <3>1
  <2>2. QED
    BY <1>1, <2>1, Zenon DEF FactorInv
<1>8. RowSound(row)'
  <2>1. row.last_step \in NoStep..(clock + 1)
    BY <1>3, <1>4, <1>5 DEF NoStep
  <2>2. QED
    BY <1>2, <1>5, <1>6, <2>1, Zenon DEF RowSound
<1>9. ASSUME NEW b \in Admins, b # a, admins[b] # None PROVE Apart(row, admins[b]) /\ Apart(admins[b], row)
  <2>1. Apart(old, admins[b]) /\ Apart(admins[b], old)
    BY <1>d, <1>1, <1>2, <1>9, Zenon DEF FactorInv, Current
  <2>2. QED
    BY <1>5, <2>1, Zenon DEF Apart
<1>10. ASSUME NEW c \in spent'
       PROVE  c[2] <= fresh' /\ (c[1] = "totp" => c[2] # NoSecret) /\ Spent(c, row)
  <2>1. CASE c \in spent
    <3>1. c[2] <= fresh /\ (c[1] = "totp" => c[2] # NoSecret) /\ Spent(c, old)
      BY <1>d, <1>1, <1>2, <2>1, Zenon DEF FactorInv, Current
    <3>2. c[3] \in Int
      BY <2>1, Zenon DEF AuthTyped, CodeType
    <3>3. c[1] = "totp" /\ row.secret = c[2] => c[3] <= row.last_step
      BY <1>3, <1>4, <1>5, <3>1, <3>2 DEF Spent
    <3>4. QED
      BY <1>5, <1>6, <3>1, <3>3, Zenon DEF Spent
  <2>2. CASE c = code
    <3>1. c \notin row.recovery
      BY <1>2, <1>4, <1>5, <2>2, Zenon DEF RowSound
    <3>2. row.pending # c[2]
      BY <1>1, <1>2, <1>4, <1>5, <2>2, Zenon DEF RowSound
    <3>3. c[3] <= row.last_step
      BY <1>4, <1>5, <2>2
    <3>4. QED
      BY <1>1, <1>3, <1>4, <1>6, <2>2, <3>1, <3>2, <3>3, Zenon DEF Spent
  <2>3. QED
    BY <1>1, <2>1, <2>2, Zenon
<1>11. ASSUME NEW c \in spent' \ spent, NEW b \in Admins, b # a, admins[b] # None PROVE Spent(c, admins[b])
  <2>1. c = code
    BY <1>1, <1>11, Zenon
  <2>2. Apart(old, admins[b]) /\ RowSound(admins[b])
    BY <1>d, <1>1, <1>2, <1>11, Zenon DEF FactorInv, Current
  <2>3. c \notin admins[b].recovery
    BY <1>4, <2>1, <2>2, Zenon DEF RowSound
  <2>4. QED
    BY <1>1, <1>4, <2>1, <2>2, <2>3, Zenon DEF Spent, Apart
<1>12. \A pair \in shown' : pair[1] # NoSecret /\ pair[1] <= fresh' /\ Shown(pair, row)
  <2>1. \A pair \in shown : pair[1] # NoSecret /\ pair[1] <= fresh /\ Shown(pair, old)
    BY <1>d, <1>1, <1>2, Zenon DEF FactorInv, Current
  <2>2. QED
    BY <1>5, <1>6, <2>1, Zenon DEF Shown
<1>13. fresh' \in Nat /\ fresh <= fresh' /\ clock' = clock /\ shown' \ shown = {}
  BY <1>3, <1>6
<1>14. FactorInv'
  BY <1>2, <1>5, <1>6, <1>7, <1>8, <1>9, <1>10, <1>11, <1>12, <1>13, FactorStep, ZenonT(60), Zenon
<1>15. spent' \in SUBSET CodeType
  BY <1>1, <1>2, Zenon DEF AuthTyped
<1>16. QED
  BY <1>d, <1>1, <1>4, <1>5, <1>14, <1>15, SignInKeeps, Zenon

\* A recovery code is spent, and in no row any more.
LEMMA LoginRecoveryEndInv ==
    ASSUME AuthInv, NEW p \in Procs, login_recovery_end(p)
    PROVE  AuthInv'
<1> USE DEF AuthInv
<1>d. PICK old, a, code : old = Current(p) /\ a = procs[p].admin /\ code = procs[p].code
  BY Zenon
<1>0. PICK row : row = [old EXCEPT !.recovery = @ \ {code}]
  BY ZenonT(60), Zenon
<1>1. procs[p].pc = "recovery" /\ old # None /\ code \in old.recovery /\ SignIn(p, row)
      /\ spent' = spent \cup {code} /\ (code \notin spent => twice' = twice)
  BY <1>d, <1>0, Zenon DEF login_recovery_end, Spend
<1>2. a \in Admins /\ old \in AdminRows /\ RowSound(old) /\ code \in CodeType
  BY <1>d, <1>1, LoginState, Zenon
<1>3. fresh \in Nat /\ code[1] = "recovery" /\ code[2] <= fresh
  BY <1>1, <1>2 DEF AuthTyped, RowSound
<1>4. row \in AdminRows /\ row.secret = old.secret /\ row.pending = old.pending
      /\ row.recovery = old.recovery \ {code}
      /\ row.password = old.password /\ row.last_step = old.last_step /\ row.enabled = old.enabled
      /\ row.role = old.role
  BY <1>0, <1>2, Zenon DEF AdminRows
<1>5. admins' = [admins EXCEPT ![a] = row] /\ UNCHANGED <<fresh, clock, shown>>
  BY <1>d, <1>1, Zenon DEF SignIn
<1>6. code \notin spent /\ twice' = {}
  BY <1>d, <1>1, <1>2, Zenon DEF FactorInv, Spent, Current
<1>7. RowSound(row)'
  BY <1>2, <1>4, <1>5, Zenon DEF RowSound
<1>8. ASSUME NEW b \in Admins, b # a, admins[b] # None PROVE Apart(row, admins[b]) /\ Apart(admins[b], row)
  <2>1. Apart(old, admins[b]) /\ Apart(admins[b], old)
    BY <1>d, <1>1, <1>2, <1>8, Zenon DEF FactorInv, Current
  <2>2. QED
    BY <1>4, <2>1, Zenon DEF Apart
<1>9. ASSUME NEW c \in spent'
      PROVE  c[2] <= fresh' /\ (c[1] = "totp" => c[2] # NoSecret) /\ Spent(c, row)
  <2>1. CASE c \in spent
    <3>1. c[2] <= fresh /\ (c[1] = "totp" => c[2] # NoSecret) /\ Spent(c, old)
      BY <1>d, <1>1, <1>2, <2>1, Zenon DEF FactorInv, Current
    <3>2. QED
      BY <1>4, <1>5, <3>1, Zenon DEF Spent
  <2>2. CASE c = code
    BY <1>3, <1>4, <1>5, <2>2, Zenon DEF Spent
  <2>3. QED
    BY <1>1, <2>1, <2>2, Zenon
<1>10. ASSUME NEW c \in spent' \ spent, NEW b \in Admins, b # a, admins[b] # None PROVE Spent(c, admins[b])
  <2>1. c = code
    BY <1>1, <1>10, Zenon
  <2>2. Apart(old, admins[b])
    BY <1>d, <1>1, <1>2, <1>10, Zenon DEF FactorInv, Current
  <2>3. QED
    BY <1>1, <1>3, <2>1, <2>2, Zenon DEF Spent, Apart
<1>11. \A pair \in shown' : pair[1] # NoSecret /\ pair[1] <= fresh' /\ Shown(pair, row)
  <2>1. \A pair \in shown : pair[1] # NoSecret /\ pair[1] <= fresh /\ Shown(pair, old)
    BY <1>d, <1>1, <1>2, Zenon DEF FactorInv, Current
  <2>2. QED
    BY <1>4, <1>5, <2>1, Zenon DEF Shown
<1>12. fresh' \in Nat /\ fresh <= fresh' /\ clock' = clock /\ shown' \ shown = {}
  BY <1>3, <1>5
<1>13. FactorInv'
  BY <1>2, <1>4, <1>5, <1>6, <1>7, <1>8, <1>9, <1>10, <1>11, <1>12, FactorStep, ZenonT(60), Zenon
<1>14. spent' \in SUBSET CodeType
  BY <1>1, <1>2, Zenon DEF AuthTyped
<1>15. QED
  BY <1>d, <1>1, <1>4, <1>13, <1>14, SignInKeeps, Zenon

---------------------------------------------------------------------------
(* An administrator's own password and second factor.                      *)

\* What a request waits with for a hash.
LEMMA PausedState ==
    ASSUME AuthInv, NEW p \in Procs, procs[p].pc \in {"password", "setup", "confirm", "disable"}, Current(p) # None
    PROVE  /\ procs[p].admin \in Admins /\ procs[p].id \in Ids /\ procs[p].serial \in Nat
           /\ procs[p].code \in CodeType /\ Current(p) \in AdminRows /\ RowSound(Current(p))
<1>1. procs[p] \in ProcStates
  BY Zenon DEF AuthInv, AuthTyped
<1>2. procs[p] \in [pc : {"password", "setup", "confirm", "disable"}, code : CodeType, id : Ids, serial : Nat,
                    admin : Admins]
  BY <1>1 DEF ProcStates, Idle
<1>3. procs[p].admin \in Admins /\ procs[p].id \in Ids /\ procs[p].serial \in Nat /\ procs[p].code \in CodeType
  BY <1>2, Zenon
<1>4. QED
  BY <1>3, Zenon DEF AuthInv, AuthTyped, FactorInv, Current

\* A number is drawn.
LEMMA DrawTyped ==
    ASSUME AuthTyped, Draw
    PROVE  fresh' = fresh + 1 /\ fresh' \in 1..MaxFresh /\ fresh' \in Nat /\ fresh \in Nat /\ fresh < fresh'
  BY AuthBoundAssumption DEF AuthTyped, Draw

\* The sessions a request leaves whose account became row: each is the one it was.
LEMMA ReauthenticatedSessions ==
    ASSUME AuthInv, NEW p \in Procs, procs[p].admin \in Admins, procs[p].id \in Ids, NEW row \in AdminRows,
           Reauthenticated(p, row)
    PROVE  /\ sessions' \in [Ids -> SessionRows \cup {None}]
           /\ \A i \in Ids : sessions'[i] # None =>
                 /\ sessions[i] # None /\ sessions'[i].admin = sessions[i].admin
                 /\ sessions'[i].serial = sessions[i].serial /\ sessions'[i].enabled = sessions[i].enabled
<1> USE DEF AuthInv
<1>d. PICK a, id, kept : a = procs[p].admin /\ id = procs[p].id /\ kept = revoke_all(a, id)
  BY Zenon
<1>1. a \in Admins /\ id \in Ids
  BY <1>d, Zenon
<1>2. sessions' = IF kept[id] # None /\ kept[id].serial = procs[p].serial
                  THEN [kept EXCEPT ![id].password = row.password] ELSE kept
  BY <1>d, Zenon DEF Reauthenticated
<1>3. kept \in [Ids -> SessionRows \cup {None}]
      /\ \A i \in Ids : kept[i] # None => sessions[i] # None /\ kept[i] = sessions[i]
  BY <1>d, <1>1, RevokeAll
<1>4. row.password \in Nat
  BY Zenon DEF AdminRows
<1>5. CASE sessions' = kept
  BY <1>3, <1>5, Zenon
<1>6. CASE kept[id] # None /\ sessions' = [kept EXCEPT ![id].password = row.password]
  <2>1. PICK new : new = [kept[id] EXCEPT !.password = row.password]
    BY ZenonT(60), Zenon
  <2>2. kept[id] \in SessionRows /\ kept[id] = sessions[id]
    BY <1>1, <1>3, <1>6, Zenon
  <2>3. new \in SessionRows /\ new.admin = sessions[id].admin /\ new.serial = sessions[id].serial
        /\ new.enabled = sessions[id].enabled
    BY <1>4, <2>1, <2>2, Zenon DEF SessionRows
  <2>4. sessions' = [kept EXCEPT ![id] = new]
    BY <1>6, <2>1, Zenon
  <2>5. QED
    BY <1>1, <1>3, <1>6, <2>3, <2>4
<1>7. QED
  BY <1>2, <1>5, <1>6, ZenonT(60), Zenon

\* Whatever the account's row becomes, as long as the role and the rest stand.
LEMMA ReauthenticatedKeeps ==
    ASSUME AuthInv, NEW p \in Procs, procs[p].pc \in {"password", "setup", "confirm", "disable"},
           Current(p) # None, NEW row \in AdminRows, row.enabled = Current(p).enabled, row.role = Current(p).role,
           Reauthenticated(p, row), FactorInv', fresh' \in 1..MaxFresh,
           spent' \in SUBSET CodeType, shown' \in SUBSET (Nat \X Nat)
    PROVE  AuthInv'
<1> USE DEF AuthInv
<1>d. PICK a, id : a = procs[p].admin /\ id = procs[p].id
  BY Zenon
<1>1. a \in Admins /\ id \in Ids
  BY <1>d, PausedState, Zenon
<1>2. /\ admins' = [admins EXCEPT ![a] = row]
      /\ procs' = Become(p, Idle) /\ UNCHANGED <<tokens, signins, clock>>
  BY <1>d, Zenon DEF Reauthenticated
<1>3. admins' \in [Admins -> AdminRows \cup {None}] /\ admins'[a] = row /\ row # None
      /\ \A b \in Admins : b # a => admins'[b] = admins[b]
  BY <1>1, <1>2, NoRowAssumption, Zenon DEF AuthTyped
<1>4. admins[a] # None /\ admins[a].enabled = row.enabled /\ admins[a].role = row.role
  BY <1>d, Zenon DEF Current
<1>5. /\ sessions' \in [Ids -> SessionRows \cup {None}]
      /\ \A i \in Ids : sessions'[i] # None =>
            /\ sessions[i] # None /\ sessions'[i].admin = sessions[i].admin
            /\ sessions'[i].serial = sessions[i].serial /\ sessions'[i].enabled = sessions[i].enabled
  BY <1>d, <1>1, ReauthenticatedSessions, Zenon
<1>6. procs' \in [Procs -> ProcStates] /\ ProcInv'
  BY <1>2, RequestEnds, Zenon
<1>7. AuthTyped'
  BY <1>2, <1>3, <1>5, <1>6, Zenon DEF AuthTyped
<1>8. SessionInv'
  <2>1. ASSUME NEW i \in Ids, sessions'[i] # None
        PROVE  admins'[sessions[i].admin] # None
               /\ (admins'[sessions[i].admin].enabled => admins[sessions[i].admin].enabled)
    <3>1. sessions[i] \in SessionRows /\ admins[sessions[i].admin] # None
      BY <1>5, <2>1, Zenon DEF AuthTyped, SessionInv
    <3>2. sessions[i].admin \in Admins
      BY <3>1, Zenon DEF SessionRows
    <3>3. QED
      BY <1>3, <1>4, <3>1, <3>2, Zenon
  <2>2. QED
    BY <1>2, <1>5, <2>1, SessionsKept, Zenon
<1>9. SuperuserRemains'
  BY <1>1, <1>3, <1>4, Zenon DEF SuperuserRemains
<1>10. QED
  BY <1>6, <1>7, <1>8, <1>9, Zenon

\* change_password(): the second factor stays.
LEMMA ChangePasswordInv ==
    ASSUME AuthInv, NEW p \in Procs, change_password_end(p)
    PROVE  AuthInv'
<1> USE DEF AuthInv
<1>d. PICK old, a : old = Current(p) /\ a = procs[p].admin
  BY Zenon
<1>0. PICK row : row = [old EXCEPT !.password = fresh', !.must_change = FALSE]
  BY Zenon
<1>1. procs[p].pc = "password" /\ old # None /\ Draw /\ Reauthenticated(p, row) /\ UNCHANGED historyVars
  BY <1>d, <1>0, Zenon DEF change_password_end
<1>2. a \in Admins /\ old \in AdminRows /\ RowSound(old)
  BY <1>d, <1>1, PausedState, Zenon
<1>3. fresh' \in 1..MaxFresh /\ fresh' \in Nat /\ fresh \in Nat /\ fresh < fresh'
  BY <1>1, DrawTyped, Zenon
<1>4. row \in AdminRows /\ row.secret = old.secret /\ row.pending = old.pending /\ row.recovery = old.recovery
      /\ row.password = fresh' /\ row.last_step = old.last_step /\ row.enabled = old.enabled
      /\ row.role = old.role
  BY <1>0, <1>2, <1>3, ZenonT(60), Zenon DEF AdminRows
<1>5. admins' = [admins EXCEPT ![a] = row] /\ clock' = clock
  BY <1>d, <1>1, Zenon DEF Reauthenticated
<1>6. admins[a] = old /\ admins'[a] = row /\ \A b \in Admins : b # a => admins'[b] = admins[b]
  BY <1>d, <1>2, <1>5, Zenon DEF AuthTyped, Current
<1>7. FactorInv'
  <2>1. ASSUME NEW b \in Admins, b # a, admins[b] # None PROVE admins[b].password \in 1..fresh'
    BY <1>3, <2>1 DEF FactorInv, RowSound
  <2>2. row.password \in 1..fresh'
    BY <1>3, <1>4
  <2>3. clock' \in Nat /\ clock <= clock' /\ fresh <= fresh'
    BY <1>3, <1>5 DEF AuthTyped
  <2>4. \A b \in Admins : admins'[b] # None =>
           /\ admins[b] # None
           /\ admins'[b].secret = admins[b].secret /\ admins'[b].pending = admins[b].pending
           /\ admins'[b].last_step = admins[b].last_step /\ admins'[b].recovery = admins[b].recovery
           /\ admins'[b].password \in 1..fresh'
    BY <1>1, <1>4, <1>6, <2>1, <2>2, Zenon
  <2>5. QED
    BY <1>1, <1>3, <2>3, <2>4, FactorKept, Zenon
<1>8. spent' \in SUBSET CodeType /\ shown' \in SUBSET (Nat \X Nat)
  BY <1>1, Zenon DEF AuthTyped, historyVars
<1>9. QED
  BY <1>d, <1>1, <1>3, <1>4, <1>7, <1>8, ReauthenticatedKeeps, Zenon

\* One row of admin_users changes, appears or goes; the account's sessions go as
\* well, or it had none, or whether it is enabled stays.
LEMMA AccountChanged ==
    ASSUME AuthInv, NEW b \in Admins, NEW row \in AdminRows \cup {None}, admins' = [admins EXCEPT ![b] = row],
           \/ sessions' = revoke_all(b, 0)
           \/ sessions' = sessions /\ (admins[b] # None => row # None /\ row.enabled = admins[b].enabled),
           procs' \in [Procs -> ProcStates], ProcInv', fresh' \in 1..MaxFresh,
           UNCHANGED <<tokens, signins, clock, historyVars>>, FactorInv', SuperuserRemains'
    PROVE  AuthInv'
<1> USE DEF AuthInv
<1>1. admins' \in [Admins -> AdminRows \cup {None}] /\ admins'[b] = row
      /\ \A a \in Admins : a # b => admins'[a] = admins[a]
  BY Zenon DEF AuthTyped
<1>2. sessions' \in [Ids -> SessionRows \cup {None}]
      /\ \A i \in Ids : sessions'[i] # None =>
            /\ sessions[i] # None /\ sessions'[i] = sessions[i]
            /\ sessions[i].admin # b \/ sessions' = sessions
  <2>1. CASE sessions' = sessions
    BY <2>1, Zenon DEF AuthTyped
  <2>2. CASE sessions' = revoke_all(b, 0)
    <3>1. \A i \in Ids : i # 0
      BY DEF Ids
    <3>2. QED
      BY <2>2, <3>1, RevokeAll
  <2>3. QED
    BY <2>1, <2>2, Zenon
<1>3. AuthTyped'
  BY <1>1, <1>2, Zenon DEF AuthTyped, historyVars
<1>4. SessionInv'
  <2>1. ASSUME NEW i \in Ids, sessions'[i] # None
        PROVE  admins'[sessions[i].admin] # None
               /\ (admins'[sessions[i].admin].enabled => admins[sessions[i].admin].enabled)
    <3>1. sessions[i] \in SessionRows /\ admins[sessions[i].admin] # None
      BY <1>2, <2>1, Zenon DEF AuthTyped, SessionInv
    <3>2. sessions[i].admin \in Admins
      BY <3>1, Zenon DEF SessionRows
    <3>3. CASE sessions[i].admin # b
      BY <1>1, <3>1, <3>2, <3>3, Zenon
    <3>4. CASE sessions[i].admin = b
      <4>1. admins'[b] # None /\ admins'[b].enabled = admins[b].enabled
        <5>1. CASE sessions' = sessions /\ (admins[b] # None => row # None /\ row.enabled = admins[b].enabled)
          BY <1>1, <3>1, <3>4, <5>1, Zenon
        <5>2. CASE sessions' = revoke_all(b, 0)
          <6>1. revoke_all(b, 0)[i] = None
            BY <1>2, <2>1, <3>4 DEF revoke_all, Ids
          <6>2. QED
            BY <2>1, <5>2, <6>1, Zenon
        <5>3. QED
          BY <5>1, <5>2, Zenon
      <4>2. QED
        BY <3>4, <4>1, Zenon
    <3>5. QED
      BY <3>3, <3>4, Zenon
  <2>2. QED
    BY <1>2, <2>1, SessionsKept, Zenon
<1>5. QED
  BY <1>3, <1>4, Zenon

\* totp_setup(): a new secret waits to be confirmed.
LEMMA TotpSetupInv ==
    ASSUME AuthInv, NEW p \in Procs, totp_setup_end(p)
    PROVE  AuthInv'
<1> USE DEF AuthInv
<1>d. PICK old, a : old = Current(p) /\ a = procs[p].admin
  BY Zenon
<1>0. PICK row : row = [old EXCEPT !.pending = fresh']
  BY ZenonT(60), Zenon
<1>1. procs[p].pc = "setup" /\ old # None /\ old.secret = NoSecret /\ Draw
      /\ admins' = [admins EXCEPT ![a].pending = fresh'] /\ procs' = Become(p, Idle)
      /\ UNCHANGED <<sessions, tokens, signins, clock, historyVars>>
  BY <1>d, Zenon DEF totp_setup_end
<1>2. a \in Admins /\ old \in AdminRows /\ RowSound(old) /\ old = admins[a] /\ clock \in Nat
  BY <1>d, <1>1, PausedState DEF Current, AuthTyped
<1>3. fresh' \in 1..MaxFresh /\ fresh' \in Nat /\ fresh \in Nat /\ fresh < fresh'
  BY <1>1, DrawTyped, Zenon
<1>4. row \in AdminRows /\ row.secret = NoSecret /\ row.pending = fresh' /\ row.recovery = {}
      /\ row.password = old.password /\ row.last_step = old.last_step /\ row.enabled = old.enabled
      /\ row.role = old.role
  <2>1. old.recovery = {}
    BY <1>1, <1>2, Zenon DEF RowSound
  <2>2. QED
    BY <1>0, <1>1, <1>2, <1>3, <2>1, Zenon DEF AdminRows
<1>5. admins' = [admins EXCEPT ![a] = row]
  BY <1>d, <1>0, <1>1, Zenon DEF Current
<1>6. row # None /\ admins'[a] = row /\ \A b \in Admins : b # a => admins'[b] = admins[b]
  BY <1>2, <1>4, <1>5, NoRowAssumption, Zenon DEF AuthTyped
<1>7. RowSound(row)'
  <2>1. row.password \in 1..fresh' /\ row.last_step \in NoStep..(clock + 1)
    BY <1>2, <1>3, <1>4 DEF RowSound
  <2>2. row.secret <= fresh' /\ row.pending <= fresh'
    BY <1>3, <1>4 DEF NoSecret
  <2>3. QED
    BY <1>1, <1>4, <2>1, <2>2, Zenon DEF RowSound
<1>8. ASSUME NEW b \in Admins, b # a, admins[b] # None PROVE Apart(row, admins[b]) /\ Apart(admins[b], row)
  <2>1. admins[b] \in AdminRows /\ RowSound(admins[b])
    BY <1>8, Zenon DEF AuthTyped, FactorInv
  <2>2. admins[b].secret # fresh' /\ admins[b].pending # fresh'
    BY <1>3, <2>1 DEF RowSound, AdminRows
  <2>3. QED
    BY <1>4, <2>2, Zenon DEF Apart
<1>9. ASSUME NEW c \in spent PROVE c[2] <= fresh' /\ (c[1] = "totp" => c[2] # NoSecret) /\ Spent(c, row)
  <2>1. c[2] \in Nat /\ c[2] <= fresh /\ (c[1] = "totp" => c[2] # NoSecret)
    BY <1>9, Zenon DEF AuthTyped, CodeType, FactorInv
  <2>2. c[2] <= fresh' /\ c[2] # fresh'
    BY <1>3, <2>1
  <2>3. QED
    BY <1>4, <2>1, <2>2, Zenon DEF Spent
<1>10. ASSUME NEW pair \in shown PROVE pair[1] # NoSecret /\ pair[1] <= fresh' /\ Shown(pair, row)
  <2>1. pair[1] \in Nat /\ pair[1] <= fresh /\ pair[1] # NoSecret
    BY <1>10, Zenon DEF AuthTyped, FactorInv
  <2>2. pair[1] <= fresh' /\ pair[1] # fresh'
    BY <1>3, <2>1
  <2>3. QED
    BY <1>4, <2>1, <2>2, Zenon DEF Shown
<1>11. spent' = spent /\ shown' = shown /\ twice' = {} /\ clock' = clock /\ fresh <= fresh'
  BY <1>1, <1>3 DEF historyVars, FactorInv
<1>12. FactorInv'
  BY <1>2, <1>3, <1>4, <1>5, <1>7, <1>8, <1>9, <1>10, <1>11, FactorStep, ZenonT(60), Zenon
<1>13. procs' \in [Procs -> ProcStates] /\ ProcInv'
  BY <1>1, RequestEnds, Zenon
<1>14. SuperuserRemains'
  BY <1>2, <1>4, <1>6 DEF SuperuserRemains
<1>15. QED
  BY <1>d, <1>1, <1>2, <1>3, <1>4, <1>5, <1>6, <1>12, <1>13, <1>14, AccountChanged, ZenonT(60)

\* A set of recovery codes is of codes that have its number.
LEMMA CodeSetTyped ==
    ASSUME NEW n \in Nat
    PROVE  CodeSet(n) \in SUBSET CodeType /\ \A c \in CodeSet(n) : c[1] = "recovery" /\ c[2] = n
<1> SUFFICES ASSUME NEW i \in 1..RecoveryCodes, NEW c, c = <<"recovery", n, i>>
             PROVE  c \in CodeType /\ c[1] = "recovery" /\ c[2] = n
  BY Zenon DEF CodeSet
<1>1. i \in Int
  BY AuthBoundAssumption
<1>2. QED
  BY <1>1, Zenon DEF CodeType

\* totp_confirm(): the secret that waited becomes the account's, with new codes.
LEMMA TotpConfirmInv ==
    ASSUME AuthInv, NEW p \in Procs, totp_confirm_end(p)
    PROVE  AuthInv'
<1> USE DEF AuthInv
<1>d. PICK old, a, code : old = Current(p) /\ a = procs[p].admin /\ code = procs[p].code
  BY Zenon
<1>0. PICK row : row = [old EXCEPT !.secret = code[2], !.pending = NoSecret,
                                   !.last_step = code[3], !.recovery = CodeSet(fresh')]
  BY Zenon
<1>1. procs[p].pc = "confirm" /\ old # None /\ old.pending = code[2] /\ Draw
      /\ Reauthenticated(p, row) /\ shown' = shown \cup {<<code[2], fresh'>>}
      /\ spent' = spent \cup {code} /\ (code \notin spent => twice' = twice)
  BY <1>d, <1>0, Zenon DEF totp_confirm_end, Spend
<1>2. a \in Admins /\ old \in AdminRows /\ RowSound(old) /\ old = admins[a] /\ clock \in Nat /\ code \in CodeType
  BY <1>d, <1>1, PausedState DEF Current, AuthTyped
<1>3. fresh' \in 1..MaxFresh /\ fresh' \in Nat /\ fresh \in Nat /\ fresh < fresh'
  BY <1>1, DrawTyped, Zenon
<1>4. code[1] = "totp" /\ code[2] # NoSecret /\ code[3] \in 0..(clock + 1) /\ code[2] \in Nat /\ code[3] \in Int
      /\ code[2] <= fresh
  <2>1. code[1] = "totp" /\ code[2] # NoSecret /\ code[3] \in 0..(clock + 1)
    BY <1>d, <1>1, Zenon DEF ProcInv
  <2>2. code[2] \in Nat /\ code[3] \in Int
    BY <1>2, Zenon DEF CodeType
  <2>3. code[2] <= fresh
    BY <1>1, <1>2, Zenon DEF RowSound
  <2>4. QED
    BY <2>1, <2>2, <2>3, Zenon
<1>5. CodeSet(fresh') \in SUBSET CodeType /\ \A c \in CodeSet(fresh') : c[1] = "recovery" /\ c[2] = fresh'
  BY <1>3, CodeSetTyped, Zenon
<1>6. row \in AdminRows /\ row.secret = code[2] /\ row.pending = NoSecret /\ row.recovery = CodeSet(fresh')
      /\ row.password = old.password /\ row.last_step = code[3] /\ row.enabled = old.enabled
      /\ row.role = old.role
  BY <1>0, <1>2, <1>4, <1>5, ZenonT(60), Zenon DEF AdminRows, NoSecret
<1>7. admins' = [admins EXCEPT ![a] = row] /\ clock' = clock
  BY <1>d, <1>1, Zenon DEF Reauthenticated
<1>8. code \notin spent /\ twice' = {}
  BY <1>1, <1>2, <1>4, Zenon DEF FactorInv, Spent
<1>9. RowSound(row)'
  <2>1. row.password \in 1..fresh'
    BY <1>2, <1>3, <1>6 DEF RowSound
  <2>2. row.last_step \in NoStep..(clock + 1)
    BY <1>2, <1>4, <1>6 DEF NoStep
  <2>3. row.secret <= fresh' /\ row.pending <= fresh'
    BY <1>3, <1>4, <1>6 DEF NoSecret
  <2>4. \A c \in row.recovery : c[1] = "recovery" /\ c[2] <= fresh'
    BY <1>3, <1>5, <1>6
  <2>5. QED
    BY <1>4, <1>6, <1>7, <2>1, <2>2, <2>3, <2>4, Zenon DEF RowSound
<1>10. ASSUME NEW b \in Admins, b # a, admins[b] # None
       PROVE  /\ Apart(row, admins[b]) /\ Apart(admins[b], row)
              /\ admins[b].secret # code[2] /\ admins[b].pending # code[2] /\ code \notin admins[b].recovery
  <2>1. admins[b] \in AdminRows /\ RowSound(admins[b]) /\ Apart(old, admins[b])
    BY <1>1, <1>2, <1>10, Zenon DEF AuthTyped, FactorInv
  <2>2. admins[b].secret # code[2] /\ admins[b].pending # code[2]
    BY <1>1, <1>4, <2>1, Zenon DEF Apart
  <2>3. ASSUME NEW c \in admins[b].recovery PROVE c \notin CodeSet(fresh')
    <3>1. c[2] <= fresh
      BY <2>1, <2>3, Zenon DEF RowSound
    <3>2. c[2] \in Nat
      BY <2>1, <2>3, Zenon DEF AdminRows, CodeType
    <3>3. QED
      BY <1>3, <1>5, <3>1, <3>2
  <2>4. Apart(row, admins[b]) /\ Apart(admins[b], row)
    BY <1>6, <2>2, <2>3, Zenon DEF Apart
  <2>5. code \notin admins[b].recovery
    BY <1>4, <2>1, Zenon DEF RowSound
  <2>6. QED
    BY <2>2, <2>4, <2>5, Zenon
<1>11. ASSUME NEW c \in spent'
       PROVE  c[2] <= fresh' /\ (c[1] = "totp" => c[2] # NoSecret) /\ Spent(c, row)
  <2>1. CASE c \in spent
    <3>1. c[2] \in Nat /\ c[2] <= fresh /\ (c[1] = "totp" => c[2] # NoSecret)
      BY <2>1, Zenon DEF AuthTyped, CodeType, FactorInv
    <3>2. Spent(c, old)
      BY <1>1, <1>2, <2>1, Zenon DEF FactorInv
    <3>3. c[2] <= fresh' /\ c[2] # fresh'
      BY <1>3, <3>1
    <3>4. c \notin row.recovery
      BY <1>5, <1>6, <3>3, Zenon
    <3>5. QED
      BY <1>1, <1>6, <3>1, <3>2, <3>3, <3>4, Zenon DEF Spent
  <2>2. CASE c = code
    <3>1. c \notin row.recovery
      BY <1>4, <1>5, <1>6, <2>2, Zenon
    <3>2. c[2] <= fresh' /\ c[3] <= row.last_step
      BY <1>3, <1>4, <1>6, <2>2
    <3>3. QED
      BY <1>4, <1>6, <2>2, <3>1, <3>2, Zenon DEF Spent
  <2>3. QED
    BY <1>1, <2>1, <2>2, Zenon
<1>12. ASSUME NEW c \in spent' \ spent, NEW b \in Admins, b # a, admins[b] # None PROVE Spent(c, admins[b])
  <2>1. c = code
    BY <1>1, <1>12, Zenon
  <2>2. QED
    BY <1>10, <1>12, <2>1, Zenon DEF Spent
<1>13. ASSUME NEW pair \in shown' PROVE pair[1] # NoSecret /\ pair[1] <= fresh' /\ Shown(pair, row)
  <2>1. CASE pair \in shown
    <3>1. pair[1] \in Nat /\ pair[1] <= fresh /\ pair[1] # NoSecret /\ Shown(pair, old)
      BY <1>1, <1>2, <2>1, Zenon DEF AuthTyped, FactorInv
    <3>2. pair[1] <= fresh'
      BY <1>3, <3>1
    <3>3. QED
      BY <1>1, <1>6, <3>1, <3>2, Zenon DEF Shown
  <2>2. CASE pair = <<code[2], fresh'>>
    <3>1. pair[1] = code[2] /\ pair[2] = fresh'
      BY <2>2, Zenon
    <3>2. pair[1] <= fresh'
      BY <1>3, <1>4, <3>1
    <3>3. QED
      BY <1>4, <1>6, <3>1, <3>2, Zenon DEF Shown
  <2>3. QED
    BY <1>1, <2>1, <2>2, Zenon
<1>14. ASSUME NEW pair \in shown' \ shown, NEW b \in Admins, b # a, admins[b] # None PROVE Shown(pair, admins[b])
  <2>1. pair[1] = code[2]
    BY <1>1, <1>14
  <2>2. QED
    BY <1>10, <1>14, <2>1, Zenon DEF Shown
<1>15. FactorInv'
  <2>1. fresh <= fresh'
    BY <1>3
  <2>2. QED
    BY <1>2, <1>3, <1>6, <1>7, <1>8, <1>9, <1>10, <1>11, <1>12, <1>13, <1>14, <2>1, FactorStep, ZenonT(60), Zenon
<1>16. spent' \in SUBSET CodeType /\ shown' \in SUBSET (Nat \X Nat)
  BY <1>1, <1>2, <1>3, <1>4 DEF AuthTyped
<1>17. QED
  BY <1>d, <1>1, <1>3, <1>6, <1>15, <1>16, ReauthenticatedKeeps, Zenon

\* A row without a second factor, new or cleared, perhaps by a code that is spent.
LEMMA FactorCleared ==
    ASSUME AuthInv, NEW a \in Admins, NEW row \in AdminRows, admins' = [admins EXCEPT ![a] = row],
           row.secret = NoSecret, row.pending = NoSecret, row.last_step = NoStep, row.recovery = {},
           fresh' \in Nat, fresh <= fresh', row.password \in 1..fresh', clock' = clock,
           spent \subseteq spent', shown' = shown, twice' = {},
           \A c \in spent' \ spent :
               /\ c[2] <= fresh' /\ (c[1] = "totp" => c[2] # NoSecret)
               /\ \A b \in Admins : b # a /\ admins[b] # None => Spent(c, admins[b])
    PROVE  FactorInv'
<1> USE DEF AuthInv
<1>1. fresh \in Nat /\ clock \in Nat
  BY DEF AuthTyped
<1>2. RowSound(row)'
  <2>1. row.last_step \in NoStep..(clock' + 1) /\ row.secret <= fresh' /\ row.pending <= fresh'
    BY <1>1 DEF NoStep, NoSecret
  <2>2. QED
    BY <2>1, Zenon DEF RowSound
<1>3. \A b \in Admins : b # a /\ admins[b] # None => Apart(row, admins[b]) /\ Apart(admins[b], row)
  BY Zenon DEF Apart
<1>4. ASSUME NEW c \in spent' PROVE c[2] <= fresh' /\ (c[1] = "totp" => c[2] # NoSecret) /\ Spent(c, row)
  <2>1. c[2] <= fresh' /\ (c[1] = "totp" => c[2] # NoSecret)
    <3>1. CASE c \in spent
      <4>1. c[2] \in Nat /\ c[2] <= fresh /\ (c[1] = "totp" => c[2] # NoSecret)
        BY <3>1, Zenon DEF AuthTyped, CodeType, FactorInv
      <4>2. QED
        BY <1>1, <4>1
    <3>2. CASE c \notin spent
      BY <1>4, <3>2, Zenon
    <3>3. QED
      BY <3>1, <3>2, Zenon
  <2>2. QED
    BY <2>1, Zenon DEF Spent
<1>5. ASSUME NEW pair \in shown PROVE pair[1] # NoSecret /\ pair[1] <= fresh' /\ Shown(pair, row)
  <2>1. pair[1] \in Nat /\ pair[1] <= fresh /\ pair[1] # NoSecret
    BY <1>5, Zenon DEF AuthTyped, FactorInv
  <2>2. pair[1] <= fresh'
    BY <1>1, <2>1
  <2>3. QED
    BY <2>1, <2>2, Zenon DEF Shown
<1>6. \A c \in spent' \ spent : \A b \in Admins : b # a /\ admins[b] # None => Spent(c, admins[b])
  BY Zenon
<1>7. shown' \ shown = {}
  BY Zenon
<1>8. QED
  BY <1>2, <1>3, <1>4, <1>5, <1>6, <1>7, FactorStep, ZenonT(60), Zenon

\* totp_disable(): the secret and the codes go; the code given is spent.
LEMMA TotpDisableInv ==
    ASSUME AuthInv, NEW p \in Procs, totp_disable_end(p)
    PROVE  AuthInv'
<1> USE DEF AuthInv
<1>d. PICK old, a, code : old = Current(p) /\ a = procs[p].admin /\ code = procs[p].code
  BY Zenon
<1>0. PICK row : row = [old EXCEPT !.secret = NoSecret, !.last_step = NoStep, !.recovery = {}]
  BY Zenon
<1>1. procs[p].pc = "disable" /\ old # None /\ old.secret # NoSecret
      /\ totp_match(old.secret, code, old.last_step) # NoStep
      /\ Reauthenticated(p, row) /\ spent' = spent \cup {code} /\ (code \notin spent => twice' = twice)
      /\ UNCHANGED <<fresh, shown>>
  BY <1>d, <1>0, Zenon DEF totp_disable_end, Spend
<1>2. a \in Admins /\ old \in AdminRows /\ RowSound(old) /\ old = admins[a] /\ clock \in Nat /\ code \in CodeType
  BY <1>d, <1>1, PausedState DEF Current, AuthTyped
<1>3. fresh \in 1..MaxFresh /\ fresh \in Nat /\ fresh <= fresh /\ old.last_step \in Int /\ old.secret <= fresh
      /\ old.pending = NoSecret /\ old.password \in 1..fresh
  BY <1>1, <1>2 DEF AuthTyped, AdminRows, RowSound
<1>4. code[1] = "totp" /\ code[2] = old.secret /\ code[3] \in Int /\ code[3] > old.last_step
  BY <1>1, <1>2, <1>3, MatchFinds
<1>5. row \in AdminRows /\ row.secret = NoSecret /\ row.pending = NoSecret /\ row.recovery = {}
      /\ row.last_step = NoStep /\ row.password = old.password /\ row.enabled = old.enabled /\ row.role = old.role
  <2>1. NoSecret \in Nat /\ NoStep \in Int
    BY DEF NoSecret, NoStep
  <2>2. QED
    BY <1>0, <1>2, <1>3, <2>1, ZenonT(60), Zenon DEF AdminRows
<1>6. admins' = [admins EXCEPT ![a] = row] /\ clock' = clock
  BY <1>d, <1>1, Zenon DEF Reauthenticated
<1>7. twice' = {}
  <2>1. \A c \in spent : c[1] = "totp" /\ old.secret = c[2] => c[3] <= old.last_step
    BY <1>1, <1>2, Zenon DEF FactorInv, Spent
  <2>2. code \notin spent
    BY <1>3, <1>4, <2>1
  <2>3. QED
    BY <1>1, <2>2, Zenon DEF FactorInv
<1>8. ASSUME NEW b \in Admins, b # a, admins[b] # None PROVE Spent(code, admins[b])
  <2>1. Apart(old, admins[b]) /\ RowSound(admins[b])
    BY <1>1, <1>2, <1>8, Zenon DEF FactorInv
  <2>2. code \notin admins[b].recovery
    BY <1>4, <2>1, Zenon DEF RowSound
  <2>3. QED
    BY <1>1, <1>4, <2>1, <2>2, Zenon DEF Apart, Spent
<1>9. \A c \in spent' \ spent :
          /\ c[2] <= fresh' /\ (c[1] = "totp" => c[2] # NoSecret)
          /\ \A b \in Admins : b # a /\ admins[b] # None => Spent(c, admins[b])
  BY <1>1, <1>3, <1>4, <1>8, Zenon
<1>10. FactorInv'
  <2>1. fresh' \in Nat /\ fresh <= fresh' /\ row.password \in 1..fresh' /\ spent \subseteq spent' /\ shown' = shown
    BY <1>1, <1>3, <1>5, Zenon
  <2>2. QED
    BY <1>2, <1>5, <1>6, <1>7, <1>9, <2>1, FactorCleared, ZenonT(60), Zenon
<1>11. fresh' \in 1..MaxFresh /\ spent' \in SUBSET CodeType /\ shown' \in SUBSET (Nat \X Nat)
  BY <1>1, <1>2, <1>3, Zenon DEF AuthTyped
<1>12. QED
  BY <1>d, <1>1, <1>5, <1>10, <1>11, ReauthenticatedKeeps, Zenon

---------------------------------------------------------------------------
(* Superusers and the command line.                                        *)

\* create_admin(): a new row, under a key that is no other's.
LEMMA CreateAdminInv ==
    ASSUME AuthInv, NEW p \in Procs, NEW role \in Roles, create_admin(p, role)
    PROVE  AuthInv'
<1> USE DEF AuthInv
<1>0. PICK row : row = Admin(role, fresh')
  BY Zenon
<1>1. Draw /\ procs' = Become(p, Idle) /\ UNCHANGED <<sessions, tokens, signins, clock, historyVars>>
  BY <1>0, Zenon DEF create_admin
<1>2. PICK b \in Admins : NextAdmin(b) /\ admins' = [admins EXCEPT ![b] = row]
  BY <1>0, ZenonT(60), Zenon DEF create_admin
<1>3. admins[b] = None /\ admins' = [admins EXCEPT ![b] = row]
  BY <1>2, NextAdminIsNew, Zenon
<1>4. fresh' \in 1..MaxFresh /\ fresh' \in Nat /\ fresh \in Nat /\ fresh <= fresh' /\ fresh' \in 1..fresh'
  BY <1>1, DrawTyped
<1>5. row \in AdminRows /\ row.secret = NoSecret /\ row.pending = NoSecret /\ row.recovery = {}
      /\ row.last_step = NoStep /\ row.password = fresh'
  BY <1>0, <1>4 DEF Admin, AdminRows, NoSecret, NoStep
<1>6. spent \subseteq spent' /\ spent' \ spent = {} /\ shown' = shown /\ twice' = {} /\ clock' = clock
  BY <1>1, Zenon DEF historyVars, FactorInv
<1>7. FactorInv'
  BY <1>3, <1>4, <1>5, <1>6, FactorCleared, ZenonT(60), Zenon
<1>8. procs' \in [Procs -> ProcStates] /\ ProcInv'
  BY <1>1, RequestEnds, Zenon
<1>9. SuperuserRemains'
  <2>1. \A d \in Admins : d # b => admins'[d] = admins[d]
    BY <1>3, Zenon DEF AuthTyped
  <2>2. QED
    BY <1>3, <2>1, Zenon DEF SuperuserRemains
<1>10. QED
  BY <1>1, <1>3, <1>4, <1>5, <1>7, <1>8, <1>9, AccountChanged, ZenonT(60), Zenon

\* The row of an administrator becomes another with the same second factor, or goes.
LEMMA FactorKeptInRow ==
    ASSUME AuthInv, NEW b \in Admins, admins[b] # None, NEW row \in AdminRows \cup {None},
           admins' = [admins EXCEPT ![b] = row],
           row # None => /\ row.secret = admins[b].secret /\ row.pending = admins[b].pending
                         /\ row.last_step = admins[b].last_step /\ row.recovery = admins[b].recovery
                         /\ row.password \in 1..fresh',
           fresh' \in Nat, fresh <= fresh', clock' = clock, UNCHANGED historyVars
    PROVE  FactorInv'
<1> USE DEF AuthInv
<1>1. admins'[b] = row /\ \A a \in Admins : a # b => admins'[a] = admins[a]
  BY Zenon DEF AuthTyped
<1>2. clock' \in Nat /\ clock <= clock' /\ fresh \in Nat
  BY DEF AuthTyped
<1>3. \A a \in Admins : admins[a] # None => admins[a].password \in 1..fresh'
  BY <1>2 DEF FactorInv, RowSound
<1>4. \A a \in Admins : admins'[a] # None =>
         /\ admins[a] # None
         /\ admins'[a].secret = admins[a].secret /\ admins'[a].pending = admins[a].pending
         /\ admins'[a].last_step = admins[a].last_step /\ admins'[a].recovery = admins[a].recovery
         /\ admins'[a].password \in 1..fresh'
  BY <1>1, <1>3, Zenon
<1>5. QED
  BY <1>2, <1>4, FactorKept, Zenon

\* A number that none is drawn after is a number.
LEMMA FreshKept ==
    ASSUME AuthInv, fresh' = fresh
    PROVE  fresh' \in 1..MaxFresh /\ fresh' \in Nat /\ fresh <= fresh'
  BY DEF AuthInv, AuthTyped

\* update_admin(): the last superuser keeps the role.
LEMMA UpdateAdminInv ==
    ASSUME AuthInv, NEW p \in Procs, NEW b \in Admins, NEW role \in Roles, NEW on \in BOOLEAN,
           update_admin(p, b, role, on)
    PROVE  AuthInv'
<1> USE DEF AuthInv
<1>d. PICK old : old = admins[b]
  BY Zenon
<1>0. PICK row : row = [old EXCEPT !.role = role, !.enabled = on]
  BY Zenon
<1>1. /\ old # None
      /\ old.role = "SUPERUSER" /\ (role # "SUPERUSER" \/ ~on) => OtherSuperusers(b) # {}
      /\ admins' = [admins EXCEPT ![b].role = role, ![b].enabled = on]
      /\ sessions' = IF old.role # role \/ old.enabled # on THEN revoke_all(b, 0) ELSE sessions
      /\ procs' = Become(p, Idle) /\ UNCHANGED <<tokens, signins, fresh, clock, historyVars>>
  BY <1>d, Zenon DEF update_admin, OnOther
<1>2. old \in AdminRows /\ RowSound(old)
  BY <1>d, <1>1, Zenon DEF AuthTyped, FactorInv
<1>3. row \in AdminRows /\ row.secret = old.secret /\ row.pending = old.pending /\ row.recovery = old.recovery
      /\ row.password = old.password /\ row.last_step = old.last_step /\ row.enabled = on /\ row.role = role
  BY <1>0, <1>2, ZenonT(60), Zenon DEF AdminRows
<1>4. admins' = [admins EXCEPT ![b] = row] /\ row # None
  BY <1>d, <1>0, <1>1, <1>3, NoRowAssumption, ZenonT(60), Zenon DEF AuthTyped
<1>5. fresh' \in 1..MaxFresh /\ fresh' \in Nat /\ fresh <= fresh' /\ row.password \in 1..fresh'
  BY <1>1, <1>2, <1>3, FreshKept, Zenon DEF RowSound
<1>6. FactorInv'
  BY <1>d, <1>1, <1>3, <1>4, <1>5, FactorKeptInRow, ZenonT(60), Zenon
<1>7. procs' \in [Procs -> ProcStates] /\ ProcInv'
  BY <1>1, RequestEnds, Zenon
<1>8. SuperuserRemains'
  <2>1. admins'[b] = row /\ \A a \in Admins : a # b => admins'[a] = admins[a]
    BY <1>4, Zenon DEF AuthTyped
  <2>2. CASE old.role = "SUPERUSER" /\ role = "SUPERUSER" /\ on
    BY <1>3, <1>4, <2>1, <2>2, ZenonT(60), Zenon DEF SuperuserRemains
  <2>3. CASE old.role # "SUPERUSER"
    BY <1>d, <2>1, <2>3, Zenon DEF SuperuserRemains
  <2>4. CASE old.role = "SUPERUSER" /\ (role # "SUPERUSER" \/ ~on)
    BY <1>1, <2>1, <2>4, ZenonT(60) DEF SuperuserRemains, OtherSuperusers
  <2>5. QED
    BY <2>2, <2>3, <2>4, Zenon
<1>9. sessions' = revoke_all(b, 0) \/ (sessions' = sessions /\ row.enabled = old.enabled)
  BY <1>1, <1>3, Zenon
<1>10. QED
  BY <1>d, <1>1, <1>3, <1>4, <1>5, <1>6, <1>7, <1>8, <1>9, AccountChanged, ZenonT(60), Zenon

\* delete_admin(): not the last superuser.
LEMMA DeleteAdminInv ==
    ASSUME AuthInv, NEW p \in Procs, NEW b \in Admins, delete_admin(p, b)
    PROVE  AuthInv'
<1> USE DEF AuthInv
<1>1. /\ admins[b] # None
      /\ admins[b].role = "SUPERUSER" /\ admins[b].enabled => OtherSuperusers(b) # {}
      /\ admins' = [admins EXCEPT ![b] = None] /\ sessions' = revoke_all(b, 0)
      /\ procs' = Become(p, Idle) /\ UNCHANGED <<tokens, signins, fresh, clock, historyVars>>
  BY Zenon DEF delete_admin, OnOther
<1>2. fresh' \in 1..MaxFresh /\ fresh' \in Nat /\ fresh <= fresh'
  BY <1>1, FreshKept, Zenon
<1>3. FactorInv'
  BY <1>1, <1>2, FactorKeptInRow, ZenonT(60), Zenon
<1>4. procs' \in [Procs -> ProcStates] /\ ProcInv'
  BY <1>1, RequestEnds, Zenon
<1>5. SuperuserRemains'
  <2>1. \A a \in Admins : a # b => admins'[a] = admins[a]
    BY <1>1, Zenon DEF AuthTyped
  <2>2. QED
    BY <1>1, <2>1 DEF SuperuserRemains, OtherSuperusers
<1>6. QED
  BY <1>1, <1>2, <1>3, <1>4, <1>5, AccountChanged, ZenonT(60), Zenon

\* A temporary password, by a superuser or by nacoctl.
LEMMA NewPasswordInv ==
    ASSUME AuthInv, NEW b \in Admins, NEW on \in BOOLEAN, admins[b] # None, NewPassword(b, on),
           procs' \in [Procs -> ProcStates], ProcInv'
    PROVE  AuthInv'
<1> USE DEF AuthInv
<1>d. PICK old : old = admins[b]
  BY Zenon
<1>0. PICK row : row = [old EXCEPT !.password = fresh', !.must_change = TRUE, !.enabled = @ \/ on]
  BY Zenon
<1>1. Draw /\ admins' = [admins EXCEPT ![b].password = fresh', ![b].must_change = TRUE, ![b].enabled = @ \/ on]
      /\ sessions' = revoke_all(b, 0) /\ UNCHANGED <<tokens, signins, clock, historyVars>>
  BY <1>d, Zenon DEF NewPassword
<1>2. old \in AdminRows /\ fresh' \in 1..MaxFresh /\ fresh' \in Nat /\ fresh <= fresh' /\ fresh' \in 1..fresh'
  BY <1>d, <1>1, DrawTyped DEF AuthTyped
<1>3. row \in AdminRows /\ row.secret = old.secret /\ row.pending = old.pending /\ row.recovery = old.recovery
      /\ row.password = fresh' /\ row.last_step = old.last_step /\ row.role = old.role
      /\ (old.enabled => row.enabled)
  BY <1>0, <1>2, ZenonT(60), Zenon DEF AdminRows
<1>4. admins' = [admins EXCEPT ![b] = row] /\ row # None
  BY <1>d, <1>0, <1>1, <1>3, NoRowAssumption, ZenonT(60), Zenon DEF AuthTyped
<1>5. FactorInv'
  BY <1>d, <1>1, <1>2, <1>3, <1>4, FactorKeptInRow, ZenonT(60), Zenon
<1>6. SuperuserRemains'
  <2>1. admins'[b] = row /\ \A a \in Admins : a # b => admins'[a] = admins[a]
    BY <1>4, Zenon DEF AuthTyped
  <2>2. QED
    BY <1>d, <1>3, <1>4, <2>1 DEF SuperuserRemains
<1>7. QED
  BY <1>d, <1>1, <1>2, <1>3, <1>4, <1>5, <1>6, AccountChanged, ZenonT(60), Zenon

\* The second factor is taken away, by a superuser or by nacoctl.
LEMMA NoFactorInv ==
    ASSUME AuthInv, NEW b \in Admins, admins[b] # None, NoFactor(b),
           procs' \in [Procs -> ProcStates], ProcInv'
    PROVE  AuthInv'
<1> USE DEF AuthInv
<1>d. PICK old : old = admins[b]
  BY Zenon
<1>0. PICK row : row = [old EXCEPT !.secret = NoSecret, !.pending = NoSecret, !.last_step = NoStep,
                                   !.recovery = {}]
  BY Zenon
<1>1. admins' = [admins EXCEPT ![b].secret = NoSecret, ![b].pending = NoSecret, ![b].last_step = NoStep,
                               ![b].recovery = {}]
      /\ sessions' = revoke_all(b, 0) /\ UNCHANGED <<tokens, signins, fresh, clock, historyVars>>
  BY <1>d, Zenon DEF NoFactor
<1>2. old \in AdminRows /\ old.password \in 1..fresh /\ NoSecret \in Nat /\ NoStep \in Int
  BY <1>d DEF AuthTyped, FactorInv, RowSound, NoSecret, NoStep
<1>3. row \in AdminRows /\ row.secret = NoSecret /\ row.pending = NoSecret /\ row.recovery = {}
      /\ row.password = old.password /\ row.last_step = NoStep /\ row.role = old.role
      /\ row.enabled = old.enabled
  BY <1>0, <1>2, ZenonT(60), Zenon DEF AdminRows
<1>4. admins' = [admins EXCEPT ![b] = row] /\ row # None
  BY <1>d, <1>0, <1>1, <1>3, NoRowAssumption, ZenonT(60), Zenon DEF AuthTyped
<1>5. fresh' \in 1..MaxFresh /\ fresh' \in Nat /\ fresh <= fresh' /\ row.password \in 1..fresh'
  BY <1>1, <1>2, <1>3, FreshKept, Zenon
<1>6. spent \subseteq spent' /\ spent' \ spent = {} /\ shown' = shown /\ twice' = {} /\ clock' = clock
  BY <1>1, Zenon DEF historyVars, FactorInv
<1>7. FactorInv'
  BY <1>3, <1>4, <1>5, <1>6, FactorCleared, ZenonT(60), Zenon
<1>8. SuperuserRemains'
  <2>1. admins'[b] = row /\ \A a \in Admins : a # b => admins'[a] = admins[a]
    BY <1>4, Zenon DEF AuthTyped
  <2>2. QED
    BY <1>d, <1>3, <1>4, <2>1 DEF SuperuserRemains
<1>9. QED
  BY <1>d, <1>1, <1>3, <1>4, <1>5, <1>7, <1>8, AccountChanged, ZenonT(60), Zenon

---------------------------------------------------------------------------
(* The theorems.                                                           *)

\* One enabled superuser with a password of their own, and nobody signed in.
LEMMA AuthInitInv == AuthInit => AuthInv
<1> SUFFICES ASSUME AuthInit PROVE AuthInv
  BY Zenon
<1> USE DEF AuthInit
<1>0. PICK row : row = Admin("SUPERUSER", 1)
  BY Zenon
<1>1. row \in AdminRows /\ row.role = "SUPERUSER" /\ row.enabled /\ row.secret = NoSecret
      /\ row.pending = NoSecret /\ row.last_step = NoStep /\ row.recovery = {} /\ row.password = 1
  BY <1>0 DEF Admin, AdminRows, Roles, NoSecret, NoStep
<1>2. 1 \in Admins /\ row # None
  BY <1>1, AdminKeys, NoRowAssumption, Zenon
<1>3. admins[1] = row /\ \A a \in Admins : admins[a] # None => admins[a] = row /\ a = 1
  BY <1>0, <1>2, Zenon
<1>4. AuthTyped
  <2>1. admins \in [Admins -> AdminRows \cup {None}]
    BY <1>0, <1>1, Zenon
  <2>2. procs \in [Procs -> ProcStates]
    BY Zenon DEF ProcStates
  <2>3. signins \in 0..MaxSignIns /\ fresh \in 1..MaxFresh /\ clock \in 1..MaxStep
    BY AuthBoundAssumption
  <2>4. QED
    BY <2>1, <2>2, <2>3, Zenon DEF AuthTyped
<1>5. FactorInv
  <2>1. RowSound(row)
    BY <1>1 DEF RowSound, NoSecret, NoStep
  <2>2. QED
    BY <1>3, <2>1, Zenon DEF FactorInv
<1>6. SessionInv /\ ProcInv
  BY Zenon DEF SessionInv, ProcInv, Idle
<1>7. SuperuserRemains
  BY <1>1, <1>2, <1>3, Zenon DEF SuperuserRemains
<1>8. QED
  BY <1>4, <1>5, <1>6, <1>7, Zenon DEF AuthInv

\* Every transaction of every request keeps the invariant.
LEMMA AuthNextInv == AuthInv /\ [AuthNext]_authVars => AuthInv'
<1> SUFFICES ASSUME AuthInv, [AuthNext]_authVars PROVE AuthInv'
  BY Zenon
<1>1. ASSUME NEW p \in Procs, SignInSteps(p) PROVE AuthInv'
  BY <1>1, LoginInv, LoginWithoutFactorInv, LoginTotpInv, LoginRecoveryInv, LoginRecoveryEndInv, Zenon DEF SignInSteps
<1>2. ASSUME NEW p \in Procs, OwnSteps(p) PROVE AuthInv'
  BY <1>2, PrincipalInv, OtherTablesInv, PauseInv, ChangePasswordInv, TotpSetupInv, TotpConfirmInv, TotpDisableInv, Zenon
     DEF OwnSteps
<1>3. ASSUME NEW p \in Procs, SuperuserSteps(p) PROVE AuthInv'
  <2>1. ASSUME NEW t \in Tokens, token_principal(p, t) \/ save_token(p, t) PROVE AuthInv'
    BY <2>1, PrincipalInv, OtherTablesInv, Zenon
  <2>2. ASSUME NEW role \in Roles, create_admin(p, role) PROVE AuthInv'
    BY <2>2, CreateAdminInv, Zenon
  <2>3. ASSUME NEW b \in Admins, delete_admin(p, b) PROVE AuthInv'
    BY <2>3, DeleteAdminInv, Zenon
  <2>4. ASSUME NEW b \in Admins, NEW role \in Roles, NEW on \in BOOLEAN, update_admin(p, b, role, on)
        PROVE  AuthInv'
    BY <2>4, UpdateAdminInv, Zenon
  <2>5. ASSUME NEW b \in Admins, reset_admin_password(p, b) PROVE AuthInv'
    <3>1. admins[b] # None /\ NewPassword(b, FALSE) /\ procs' = Become(p, Idle) /\ clock' = clock
      BY <2>5, Zenon DEF reset_admin_password, OnOther, NewPassword
    <3>2. QED
      BY <3>1, RequestEnds, NewPasswordInv, ZenonT(60), Zenon DEF AuthInv
  <2>6. ASSUME NEW b \in Admins, reset_admin_totp(p, b) PROVE AuthInv'
    <3>1. admins[b] # None /\ NoFactor(b) /\ procs' = Become(p, Idle) /\ clock' = clock
      BY <2>6, Zenon DEF reset_admin_totp, OnOther, NoFactor
    <3>2. QED
      BY <3>1, RequestEnds, NoFactorInv, Zenon DEF AuthInv
  <2>7. QED
    BY <1>3, <2>1, <2>2, <2>3, <2>4, <2>5, <2>6, Zenon DEF SuperuserSteps
<1>4. ASSUME NEW b \in Admins, cli_reset_password(b) PROVE AuthInv'
  <2>1. admins[b] # None /\ NewPassword(b, TRUE) /\ UNCHANGED <<procs, clock>>
    BY <1>4, Zenon DEF cli_reset_password, NewPassword
  <2>2. procs' \in [Procs -> ProcStates] /\ ProcInv'
    BY <2>1, Zenon DEF AuthInv, AuthTyped, ProcInv
  <2>3. QED
    BY <2>1, <2>2, NewPasswordInv, ZenonT(60), Zenon
<1>5. ASSUME NEW b \in Admins, cli_reset_totp(b) PROVE AuthInv'
  <2>1. admins[b] # None /\ NoFactor(b) /\ UNCHANGED <<procs, clock>>
    BY <1>5, Zenon DEF cli_reset_totp, NoFactor
  <2>2. procs' \in [Procs -> ProcStates] /\ ProcInv'
    BY <2>1, Zenon DEF AuthInv, AuthTyped, ProcInv
  <2>3. QED
    BY <2>1, <2>2, NoFactorInv, Zenon
<1>6. CASE UNCHANGED authVars
  <2>1. UNCHANGED <<admins, sessions, tokens, signins, procs, fresh, clock, historyVars>>
    BY <1>6, Zenon DEF authVars, historyVars
  <2>2. clock' \in 1..MaxStep /\ clock <= clock' /\ procs' \in [Procs -> ProcStates] /\ ProcInv'
        /\ sessions' \in [Ids -> SessionRows \cup {None}] /\ tokens' \in [Tokens -> {"unused", "live", "revoked"}]
    BY <2>1 DEF AuthInv, AuthTyped, ProcInv
  <2>3. QED
    BY <2>1, <2>2, AccountsKept, Zenon
<1>7. QED
  BY <1>1, <1>2, <1>3, <1>4, <1>5, <1>6, OtherTablesInv, Zenon DEF AuthNext

\* The inductive invariant of the administrators' accounts and sessions.
THEOREM AuthInvariant == AuthSpec => []AuthInv
  BY AuthInitInv, AuthNextInv, PTL DEF AuthSpec

\* Accounts, sessions and tokens are of their types: a session is of an account
\* that exists, an account without a secret has no recovery codes.
THEOREM AuthTypeCorrect == AuthSpec => []AuthTypeOK
<1>1. AuthInv => AuthTypeOK
  <2> SUFFICES ASSUME AuthInv PROVE AuthTypeOK
    BY Zenon
  <2>1. DOMAIN admins = Admins /\ DOMAIN sessions = Ids /\ DOMAIN procs = Procs
        /\ tokens \in [Tokens -> {"unused", "live", "revoked"}]
    BY Zenon DEF AuthInv, AuthTyped
  <2>2. fresh \in 0..MaxFresh /\ clock \in 1..MaxStep /\ signins \in 0..MaxSignIns
    BY DEF AuthInv, AuthTyped
  <2>3. ASSUME NEW a \in Admins, admins[a] # None PROVE admins[a].role \in Roles /\ RowSound(admins[a])
    BY <2>3, Zenon DEF AuthInv, AuthTyped, FactorInv, AdminRows
  <2>4. ASSUME NEW i \in Ids, sessions[i] # None
        PROVE  sessions[i].admin \in Admins /\ admins[sessions[i].admin] # None
    BY <2>4, Zenon DEF AuthInv, AuthTyped, SessionInv, SessionRows
  <2>5. QED
    BY <2>1, <2>2, <2>3, <2>4, Zenon DEF AuthTypeOK, RowSound
<1>2. QED
  BY <1>1, AuthInvariant, PTL

\* No code opens a second session, of however many requests interleaved.
THEOREM CodesWorkOnce == AuthSpec => []CodeWorksOnce
<1>1. AuthInv => CodeWorksOnce
  BY Zenon DEF AuthInv, FactorInv, CodeWorksOnce
<1>2. QED
  BY <1>1, AuthInvariant, PTL

\* The recovery codes of an account are among those its confirmation returned.
THEOREM CodesShownAreStored == AuthSpec => []ShownCodesAreStored
<1>1. AuthInv => ShownCodesAreStored
  BY Zenon DEF AuthInv, FactorInv, Shown, ShownCodesAreStored
<1>2. QED
  BY <1>1, AuthInvariant, PTL

\* A session of an account that was disabled meanwhile is never of use again.
THEOREM DisablingEndsSessions == AuthSpec => []DisabledEndsSessions
<1>1. AuthInv => DisabledEndsSessions
  BY Zenon DEF AuthInv, SessionInv, DisabledEndsSessions
<1>2. QED
  BY <1>1, AuthInvariant, PTL

\* Superusers cannot take the role from, disable or delete the last of them,
\* whatever they do at the same time.
THEOREM LastSuperuserRemains == AuthSpec => []SuperuserRemains
<1>1. AuthInv => SuperuserRemains
  BY Zenon DEF AuthInv
<1>2. QED
  BY <1>1, AuthInvariant, PTL

\* A row replaced by one with the same password changes no password.
LEMMA SamePassword ==
    ASSUME AuthInv, NEW b \in Admins, NEW row, row.password = admins[b].password,
           admins' = [admins EXCEPT ![b] = row], NEW a \in Admins
    PROVE  admins'[a].password = admins[a].password
  BY Zenon DEF AuthInv, AuthTyped

\* Only change_password() changes the password of an account and leaves one of its
\* sessions, the one with the key of its own.
LEMMA PasswordSteps ==
    ASSUME AuthInv, AuthNext, NEW i \in Ids, sessions[i] # None, sessions'[i] # None,
           NEW a \in Admins, a = sessions[i].admin, admins'[a].password # admins[a].password
    PROVE  \E p \in Procs : procs[p].pc = "password" /\ procs[p].id = i /\ procs'[p] = Idle
<1>1. admins[a] # None /\ i # 0
  BY DEF AuthInv, SessionInv, Ids
<1>2. ~ UNCHANGED admins
  BY Zenon
<1>3. ASSUME NEW b \in Admins, NEW row, admins' = [admins EXCEPT ![b] = row], sessions' = revoke_all(b, 0)
      PROVE  FALSE
  <2>1. a # b
    BY <1>1, <1>3, Zenon DEF revoke_all
  <2>2. admins'[a] = admins[a]
    BY <1>3, <2>1, Zenon DEF AuthInv, AuthTyped
  <2>3. QED
    BY <2>2, Zenon
<1>4. ASSUME NEW p \in Procs, SignInSteps(p) PROVE FALSE
  <2>1. PICK row : SignIn(p, row) /\ row.password = Current(p).password
                   /\ procs[p].pc \in {"login", "recovery"} /\ Current(p) # None
    <3>1. CASE login_without_factor(p)
      BY <3>1, Zenon DEF login_without_factor, AtFactor
    <3>2. CASE login_totp(p)
      <4>1. PICK old, row : /\ old = Current(p)
                            /\ row = [old EXCEPT !.last_step = totp_match(old.secret, procs[p].code, old.last_step)]
        BY ZenonT(60), Zenon
      <4>2. SignIn(p, row) /\ procs[p].pc = "login" /\ old # None
        BY <3>2, <4>1, Zenon DEF login_totp, AtFactor
      <4>3. old \in AdminRows
        BY <4>1, <4>2, LoginState, Zenon
      <4>4. row.password = old.password
        BY <4>1, <4>3, Zenon DEF AdminRows
      <4>5. QED
        BY <4>1, <4>2, <4>4, Zenon
    <3>3. CASE login_recovery_end(p)
      <4>1. PICK old, row : old = Current(p) /\ row = [old EXCEPT !.recovery = @ \ {procs[p].code}]
        BY ZenonT(60), Zenon
      <4>2. SignIn(p, row) /\ procs[p].pc = "recovery" /\ old # None
        BY <3>3, <4>1, Zenon DEF login_recovery_end
      <4>3. old \in AdminRows
        BY <4>1, <4>2, LoginState, Zenon
      <4>4. row.password = old.password
        BY <4>1, <4>3, Zenon DEF AdminRows
      <4>5. QED
        BY <4>1, <4>2, <4>4, Zenon
    <3>4. QED
      BY <1>2, <1>4, <3>1, <3>2, <3>3, ZenonT(60), Zenon DEF SignInSteps, login, login_recovery
  <2>2. procs[p].admin \in Admins
    BY <2>1, LoginState, Zenon
  <2>3. admins' = [admins EXCEPT ![procs[p].admin] = row] /\ row.password = admins[procs[p].admin].password
    BY <2>1, Zenon DEF SignIn, Current
  <2>4. QED
    BY <2>2, <2>3, SamePassword, Zenon
<1>5. ASSUME NEW p \in Procs, change_password_end(p)
      PROVE  procs[p].pc = "password" /\ procs[p].id = i /\ procs'[p] = Idle
  <2>1. PICK row : Reauthenticated(p, row)
    BY <1>5, Zenon DEF change_password_end
  <2>2. procs[p].pc = "password" /\ Current(p) # None
    BY <1>5, Zenon DEF change_password_end
  <2>3. PICK b, id, kept : /\ b = procs[p].admin /\ id = procs[p].id /\ kept = revoke_all(b, id)
                           /\ b \in Admins /\ id \in Ids
    BY <2>2, PausedState, Zenon
  <2>4. admins' = [admins EXCEPT ![b] = row] /\ procs' = Become(p, Idle)
        /\ (sessions' = kept \/ \E r : sessions' = [kept EXCEPT ![id] = r])
    BY <2>1, <2>3, Zenon DEF Reauthenticated
  <2>5. procs'[p] = Idle
    BY <2>4, Zenon DEF Become, AuthInv, AuthTyped
  <2>6. a = b
    BY <2>3, <2>4, Zenon DEF AuthInv, AuthTyped
  <2>7. id = i
    <3> SUFFICES ASSUME id # i PROVE FALSE
      BY Zenon
    <3>1. kept \in [Ids -> SessionRows \cup {None}]
      BY <2>3, RevokeAll, Zenon DEF AuthInv
    <3>2. kept[i] = None
      BY <2>3, <2>6, Zenon DEF revoke_all
    <3>3. QED
      BY <2>3, <2>4, <3>1, <3>2, Zenon
  <2>8. QED
    BY <2>2, <2>3, <2>5, <2>7, Zenon
<1>6. ASSUME NEW p \in Procs, totp_setup_end(p) \/ totp_confirm_end(p) \/ totp_disable_end(p) PROVE FALSE
  <2>1. PICK b, old : b = procs[p].admin /\ old = Current(p) /\ old = admins[b]
    BY Zenon DEF Current
  <2>2. b \in Admins /\ old \in AdminRows
    <3>1. procs[p].pc \in {"setup", "confirm", "disable"} /\ Current(p) # None
      BY <1>6, Zenon DEF totp_setup_end, totp_confirm_end, totp_disable_end
    <3>2. QED
      BY <2>1, <3>1, PausedState, Zenon
  <2>3. PICK row : admins' = [admins EXCEPT ![b] = row] /\ row.password = old.password
    <3>1. CASE totp_setup_end(p)
      <4>1. PICK row : row = [old EXCEPT !.pending = fresh']
        BY Zenon
      <4>2. admins' = [admins EXCEPT ![b] = row]
        BY <2>1, <3>1, <4>1, Zenon DEF totp_setup_end
      <4>3. row.password = old.password
        BY <2>2, <4>1, Zenon DEF AdminRows
      <4>4. QED
        BY <4>2, <4>3, Zenon
    <3>2. CASE totp_confirm_end(p)
      <4>1. PICK row : row = [old EXCEPT !.secret = procs[p].code[2], !.pending = NoSecret,
                                         !.last_step = procs[p].code[3], !.recovery = CodeSet(fresh')]
        BY Zenon
      <4>2. Reauthenticated(p, row)
        BY <2>1, <3>2, <4>1, Zenon DEF totp_confirm_end
      <4>3. admins' = [admins EXCEPT ![b] = row]
        BY <2>1, <4>2, Zenon DEF Reauthenticated
      <4>4. row.password = old.password
        BY <2>2, <4>1, Zenon DEF AdminRows
      <4>5. QED
        BY <4>3, <4>4, Zenon
    <3>3. CASE totp_disable_end(p)
      <4>1. PICK row : row = [old EXCEPT !.secret = NoSecret, !.last_step = NoStep, !.recovery = {}]
        BY Zenon
      <4>2. Reauthenticated(p, row)
        BY <2>1, <3>3, <4>1, Zenon DEF totp_disable_end
      <4>3. admins' = [admins EXCEPT ![b] = row]
        BY <2>1, <4>2, Zenon DEF Reauthenticated
      <4>4. row.password = old.password
        BY <2>2, <4>1, Zenon DEF AdminRows
      <4>5. QED
        BY <4>3, <4>4, Zenon
    <3>4. QED
      BY <1>6, <3>1, <3>2, <3>3, Zenon
  <2>4. QED
    BY <2>1, <2>2, <2>3, SamePassword, Zenon
<1>7. ASSUME NEW p \in Procs, OwnSteps(p) PROVE \E q \in Procs : change_password_end(q)
  BY <1>2, <1>6, <1>7, ZenonT(60), Zenon DEF OwnSteps, resolve, end_session, logout, leave, change_password, totp_setup,
                          totp_confirm, totp_disable, Pause
<1>8. ASSUME NEW p \in Procs, SuperuserSteps(p) PROVE FALSE
  <2>1. ASSUME NEW role \in Roles, create_admin(p, role) PROVE FALSE
    <3>1. PICK b \in Admins : NextAdmin(b) /\ admins' = [admins EXCEPT ![b] = Admin(role, fresh')]
      BY <2>1, ZenonT(60), Zenon DEF create_admin
    <3>2. a # b
      BY <1>1, <3>1, NextAdminIsNew, Zenon
    <3>3. QED
      BY <2>1, <3>1, <3>2, Zenon DEF create_admin, AuthInv, AuthTyped
  <2>2. ASSUME NEW b \in Admins, delete_admin(p, b) PROVE FALSE
    BY <1>3, <2>2, ZenonT(60), Zenon DEF delete_admin
  <2>3. ASSUME NEW b \in Admins, reset_admin_password(p, b) PROVE FALSE
    BY <1>3, <2>3, ZenonT(60), Zenon DEF reset_admin_password, NewPassword
  <2>4. ASSUME NEW b \in Admins, reset_admin_totp(p, b) PROVE FALSE
    BY <1>3, <2>4, ZenonT(60), Zenon DEF reset_admin_totp, NoFactor
  <2>5. ASSUME NEW b \in Admins, NEW role \in Roles, NEW on \in BOOLEAN, update_admin(p, b, role, on) PROVE FALSE
    <3>1. PICK row : row = [admins[b] EXCEPT !.role = role, !.enabled = on]
      BY Zenon
    <3>2. admins[b] \in AdminRows /\ admins' = [admins EXCEPT ![b] = row]
      BY <2>5, <3>1, Zenon DEF update_admin, OnOther, AuthInv, AuthTyped
    <3>3. row.password = admins[b].password
      BY <3>1, <3>2, Zenon DEF AdminRows
    <3>4. QED
      BY <3>2, <3>3, SamePassword, Zenon
  <2>6. QED
    BY <1>2, <1>8, <2>1, <2>2, <2>3, <2>4, <2>5, ZenonT(60), Zenon DEF SuperuserSteps, token_principal, save_token
<1>9. ASSUME NEW b \in Admins, cli_reset_password(b) \/ cli_reset_totp(b) PROVE FALSE
  BY <1>3, <1>9, Zenon DEF cli_reset_password, NewPassword, cli_reset_totp, NoFactor
<1>10. \E p \in Procs : change_password_end(p)
  BY <1>2, <1>4, <1>7, <1>8, <1>9, Zenon DEF AuthNext, expire, tick
<1>11. QED
  BY <1>5, <1>10, Zenon

\* Of the sessions an account has when its password changes, only one with the
\* key of the session that changed it is left: change_password(), a superuser's
\* reset and nacoctl end all the others.
THEOREM PasswordChangeEndsOthers == AuthSpec => PasswordChangeEndsSessions
<1> DEFINE Step ==
      \A i \in Ids : sessions[i] # None /\ sessions'[i] # None /\ sessions'[i].serial = sessions[i].serial
          => LET a == sessions[i].admin
             IN  admins'[a].password # admins[a].password =>
                    \E p \in Procs : procs[p].pc = "password" /\ procs[p].id = i /\ procs'[p] = Idle
<1>1. ASSUME AuthInv, AuthNext PROVE Step
  <2> SUFFICES ASSUME NEW i \in Ids, sessions[i] # None, sessions'[i] # None,
                      admins'[sessions[i].admin].password # admins[sessions[i].admin].password
               PROVE  \E p \in Procs : procs[p].pc = "password" /\ procs[p].id = i /\ procs'[p] = Idle
    BY Zenon
  <2>1. sessions[i].admin \in Admins
    BY <1>1, Zenon DEF AuthInv, AuthTyped, SessionRows
  <2>2. QED
    BY <1>1, <2>1, PasswordSteps, Zenon
<1>2. AuthInv /\ [AuthNext]_authVars => [Step]_authVars
  BY <1>1, Zenon
<1>3. QED
  BY <1>2, AuthInvariant, PTL DEF AuthSpec, PasswordChangeEndsSessions

=============================================================================
