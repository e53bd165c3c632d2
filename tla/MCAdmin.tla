------------------------------ MODULE MCAdmin ------------------------------
(***************************************************************************)
(* Feed and AdminAuth from states a running system is in, in three         *)
(* scenarios: one administrator, with and without two-factor               *)
(* authentication; two superusers; and a stream of one of the two.         *)
(***************************************************************************)
EXTENDS Feed, TLC

VARIABLE scenario

\* The password has been changed (2); Enrolled has a secret (3) and codes (4).
Plain == [Admin("SUPERUSER", 2) EXCEPT !.must_change = FALSE]
Enrolled == [Plain EXCEPT !.secret = 3, !.recovery = CodeSet(4)]

MCInit(first, second) ==
    /\ admins = [a \in Admins |-> IF a = 1 THEN first ELSE second]
    /\ procs = [p \in Procs |-> Idle]
    /\ spent = {} /\ twice = {} /\ shown = {}
    /\ FeedInit

NobodyIn == sessions = [i \in Ids |-> None] /\ signins = 0

\* The n-th sign-in was a's, and the only one whose session is left.
SignedIn(a, n) ==
    /\ signins = n
    /\ sessions = [i \in Ids |-> IF i = 1 THEN [admin |-> a, serial |-> n, password |-> 2, enabled |-> TRUE]
                                ELSE None]

FactorInit ==
    /\ tokens = [t \in Tokens |-> "revoked"]
    /\ \/ MCInit(Enrolled, None) /\ NobodyIn /\ fresh = MaxFresh /\ clock = 1
       \/ MCInit(Plain, None) /\ SignedIn(1, MaxSignIns) /\ fresh = MaxFresh - 3 /\ clock = MaxStep

SuperusersInit ==
    /\ NobodyIn
    /\ tokens = [t \in Tokens |-> "unused"]
    /\ clock = MaxStep
    /\ \/ MCInit(Plain, Enrolled) /\ fresh = MaxFresh
       \/ MCInit(Plain, Plain) /\ fresh = MaxFresh - 1

\* The second superuser is signed in; the first works by an API token.
StreamInit ==
    /\ tokens = [t \in Tokens |-> "live"]
    /\ MCInit(Plain, Plain) /\ fresh = MaxFresh /\ clock = MaxStep
    /\ SignedIn(2, 1)

\* One administrator alone makes no others; two use recovery codes.  These routes
\* tell an operator from a viewer nowhere.
FactorNext == AuthNext /\ (\A a \in Admins \ {1} : admins'[a] = None) /\ UNCHANGED feedVars
SuperusersNext ==
    /\ AuthNext /\ UNCHANGED feedVars
    /\ \A a \in Admins : admins'[a] # None => admins'[a].role # "OPERATOR"
    /\ \A p \in Procs : procs'[p].pc = "login" => procs'[p].code[1] # "totp"

\* The requests that open a stream and those that take its session or token
\* away, one at a time.
OneRequest(p) ==
    \/ login(p, 1, NoCode) \/ login_without_factor(p) \/ leave(p)
    \/ \E i \in Ids : resolve(p, i)
    \/ logout(p)
    \/ \E t \in Tokens : token_principal(p, t) \/ save_token(p, t)
    \/ \E role \in Roles \ {"SUPERUSER"} : update_admin(p, 2, role, TRUE)
    \/ update_admin(p, 2, "SUPERUSER", FALSE)

\* One stream, at whose opening time begins.
StreamNext ==
    \/ /\ FeedSteps
       /\ <<now, events>>' # <<now, events>> => Open # {}
       /\ events' # events => signins = 1
       /\ now > 0 => Open' \subseteq Open
    \/ /\ \E p \in Procs : (\A q \in Procs \ {p} : procs[q] = Idle) /\ OneRequest(p)
       /\ UNCHANGED feedVars

MCAdminInit ==
    \/ scenario = "factor" /\ FactorInit
    \/ scenario = "superusers" /\ SuperusersInit
    \/ scenario = "stream" /\ StreamInit

MCAdminNext ==
    /\ \/ scenario = "factor" /\ FactorNext
       \/ scenario = "superusers" /\ SuperusersNext
       \/ scenario = "stream" /\ StreamNext
    /\ Noted
    /\ UNCHANGED scenario

MCAdminSpec == MCAdminInit /\ [][MCAdminNext]_<<authVars, feedVars, gone, scenario>>

Symmetry == Permutations(Procs)
============================================================================
