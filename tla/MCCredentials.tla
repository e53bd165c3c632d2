--------------------------- MODULE MCCredentials ---------------------------
(***************************************************************************)
(* Credentials in two scenarios.  In "edits" alice's account is created,   *)
(* edited, imported, deleted and signed in to at a standing clock; bob's   *)
(* is imported with it, or created while the import hashes.  In "guesses"  *)
(* alice's account holds still while stations try passwords and time       *)
(* passes.                                                                 *)
(***************************************************************************)
EXTENDS Credentials, TLC

VARIABLE scenario

MCGroupMap == <<[ldap_group |-> "cn=staff", group |-> "staff"]>>
MCEntries == {[pw |-> "q", groups |-> {"cn=staff"}], [pw |-> "q", groups |-> {}]}
MCFiles == {<<[name |-> "alice", pw |-> "p", group |-> "staff", enabled |-> TRUE],
              [name |-> "bob", pw |-> "p", group |-> None, enabled |-> TRUE],
              [name |-> "alice", pw |-> "p", group |-> None, enabled |-> FALSE]>>}

MCInit ==
    /\ scenario \in {"edits", "guesses"}
    /\ ServiceInit
    /\ groups = [g \in GroupIds |-> IF g = 1 THEN "staff" ELSE None]
    /\ users = [n \in Names |-> IF scenario = "edits" \/ n = "bob" THEN None
                                ELSE [source |-> "LOCAL", enabled |-> TRUE, group |-> None, pw |-> "p"]]

Busy == {r \in Requests : requests[r] # Idle}

\* A request or an import begins before any has failed, and while bob has no account.
MayBegin == pair = <<>> /\ users["bob"] = None

\* bob's account is created, by whomever, while an import hashes; it may be deleted.
BobsAccount ==
    /\ directory'["bob"] = None
    /\ users'["bob"] \in {None, users["bob"], Local([enabled |-> TRUE, group |-> None, pw |-> "p"])}
    /\ upload.st = "idle" => users'["bob"] \in {None, users["bob"]}

\* Two requests, or one and an import; the directory fails, or answers again,
\* while it is asked.
EditSteps ==
    /\ \/ MayBegin /\ \E r \in Requests, pw \in Passwords \cup {None} : authenticate(r, "alice", 1, pw)
       \/ \E r \in Requests : Serve(r)
       \/ Edits
    /\ BobsAccount
    /\ upload.st = "idle" /\ upload'.st = "hash" => MayBegin
    /\ (upload.st = "hash" \/ users["bob"] # None => Cardinality(Busy) <= 1)'
    /\ reachable' # reachable => \E r \in Busy : requests[r].st \in {"find", "bind"}

GuessSteps ==
    \/ \E r \in Requests, s \in Sources, pw \in Passwords :
          /\ IF pw = "p" THEN sources = <<>> \/ s = 1 ELSE verified = <<>> \/ s = 1
          /\ authenticate(r, "alice", s, pw)
    \/ \E r \in Requests : Serve(r)
    \/ Passes

MCNext ==
    /\ IF scenario = "edits" THEN EditSteps ELSE GuessSteps
    /\ UNCHANGED scenario

MCSpec == MCInit /\ [][MCNext]_<<credVars, scenario>>

Symmetry == Permutations(Requests)
============================================================================
