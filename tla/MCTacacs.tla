------------------------------ MODULE MCTacacs ------------------------------
(***************************************************************************)
(* Tacacs with a user, a group, two command sets and three devices.        *)
(***************************************************************************)
EXTENDS Tacacs, TLC

MCGroupRows ==
    {[privilege |-> 1, set |-> s, services |-> {}] : s \in {"readonly", "all", None}}
    \cup {[privilege |-> 15, set |-> "all", services |-> {"junos-exec"}], [privilege |-> None, set |-> None, services |-> {}]}

Rule(action, lines) == [action |-> action, lines |-> lines]
ReadOnly == [default |-> "DENY", rules |-> <<Rule("PERMIT", {"show"})>>]
NoReload == [default |-> "PERMIT", rules |-> <<Rule("DENY", {"reload"}), Rule("PERMIT", {"reload", "show"})>>]
MCSetRows == {ReadOnly, NoReload}

MCStarts ==
    {[type |-> "PAP", user |-> "alice", service |-> "login", level |-> 1],
     [type |-> "ASCII", user |-> "alice", service |-> "enable", level |-> 15],
     [type |-> "ASCII", user |-> None, service |-> "login", level |-> 15],
     [type |-> "CHAP", user |-> "alice", service |-> "login", level |-> 1]}

\* One user of a group that has a command set.
MCInit ==
    /\ TacacsInit
    /\ users = [u \in Users |-> [enabled |-> TRUE, group |-> "ops"]]
    /\ groups = [g \in Groups |-> [privilege |-> 1, set |-> "readonly", services |-> {}]]
    /\ sets = [readonly |-> ReadOnly, all |-> NoReload]

\* Connections share nothing but the counters: two of them, one of which is in a
\* dialogue, and one in two dialogues, on tables that hold still; and one in one
\* dialogue on tables that change.
Dialogues == {<<c, s>> \in Open \X Sids : conns[c].logins[s] # None \/ conns[c].said[s] # <<>>}
Alone == Cardinality(Open) <= 1 /\ (edits > 0 => Cardinality(Dialogues) <= 1)
Apart == edits = 0 /\ Cardinality(Dialogues) <= 1

MCNext == TacacsNext /\ (Alone \/ Apart)'

MCSpec == MCInit /\ [][MCNext]_tacacsVars

Symmetry == Permutations(Conns)
=============================================================================
