------------------------------- MODULE Policy -------------------------------
(***************************************************************************)
(* The decision on one request, as a pure function of what is known of it: *)
(* the hard rules and the context (naco/aaa/subject.py), the conditions    *)
(* (naco/policy/conditions.py) and the ordered policies                    *)
(* (naco/policy/engine.py).                                                *)
(*                                                                         *)
(* A value is a member of a small set and None stands for both Python's    *)
(* None and the empty string.  A condition keeps the field it tests, its   *)
(* polarity and the set of values it lists: `equals` and `in` are "in",    *)
(* `matches` is "in" over the values its pattern matches, `not_equals` and *)
(* `not_in` are "not_in".  The reply (VLAN and attributes) is one value.   *)
(* The device's type and vendor and the hour are not among the fields: no  *)
(* condition here tests them.                                              *)
(***************************************************************************)
EXTENDS Naturals, FiniteSets

CONSTANT None

Methods == {"PAP", "EAP-TTLS", "PEAP", "EAP-TLS", "MAB"}
PASSWORD_METHODS == {"PAP", "EAP-TTLS", "PEAP"}
DeviceStatus == {"PENDING", "APPROVED", "BLOCKED"}

---------------------------------------------------------------------------
(* Decisions.                                                              *)

deny == [action |-> "DENY", reply |-> None]
permit(reply) == [action |-> "PERMIT", reply |-> reply]
accepted(decision) == decision.action = "PERMIT"

\* What the NAS was told: the action and the reply, not the policy that said so.
digest(decision) == <<decision.action, decision.reply>>

---------------------------------------------------------------------------
(* Who and what is asking.                                                 *)

device_state(device, is_guest) ==
    CASE device = None -> (IF is_guest THEN "guest" ELSE None)
      [] device = "APPROVED" -> "approved"
      [] device = "PENDING" -> (IF is_guest THEN "guest" ELSE "pending")
      [] OTHER -> None

\* subject_context() ends in a denial before any policy is looked at.
HardRule(method, username, user, device) ==
    \/ method # "MAB" /\ (username = None \/ user = None)
    \/ method # "MAB" /\ user # None /\ ~user.enabled
    \/ device = "BLOCKED"

\* The AuthContext subject_context() builds otherwise.
AuthContext(method, username, user, mac, device, is_guest, nas, ssid) ==
    [auth_method |-> method,
     username |-> IF method = "MAB" THEN None ELSE username,
     group |-> IF user = None THEN None ELSE user.group,
     mac |-> mac,
     device_status |-> device_state(device, is_guest),
     nas |-> nas,
     ssid |-> ssid]

---------------------------------------------------------------------------
(* Conditions and policies.                                                *)

\* A condition's test on one value: an absent value is in no list, and so
\* satisfies every "not_in".
condition_matches(c, ctx) ==
    CASE c.op = "always" -> TRUE
      [] c.op = "in" -> ctx[c.field] # None /\ ctx[c.field] \in c.values
      [] c.op = "not_in" -> ctx[c.field] \notin c.values

matches(policy, ctx) == \A c \in policy.conditions : condition_matches(c, ctx)

\* ORDER BY priority, id.
Before(p, q) == p.priority < q.priority \/ (p.priority = q.priority /\ p.id < q.id)

\* The enabled rows of the policy table, which evaluation goes through in order.
enabled(table) == {p \in table : p.enabled}

\* load_policies() compiles every enabled row; one invalid row is a PolicyLoadError.
Loads(table) == \A p \in enabled(table) : p.valid

\* The first policy that matches decides; without one the request is denied.
decide(table, ctx) ==
    LET hits == {p \in enabled(table) : matches(p, ctx)}
    IN  IF hits = {} THEN deny
        ELSE LET first == CHOOSE p \in hits : \A q \in hits \ {p} : Before(p, q)
             IN  IF first.action = "DENY" THEN deny ELSE permit(first.reply)

\* Policies that do not load deny every request.
evaluate(table, ctx) == IF Loads(table) THEN decide(table, ctx) ELSE deny
============================================================================
