--------------------------- MODULE MCMaintenance ---------------------------
(***************************************************************************)
(* A guest whose registration may end before a pass, as it begins or while *)
(* it runs, be revoked before or after, and a policy change.               *)
(***************************************************************************)
EXTENDS Maintenance

MCBegins == [g \in Guests |-> CHOOSE c \in WorldChange \ Guests : TRUE]

\* The passes between which a policy changes have no rows to delete and succeed.
MCNext == MaintenanceNext /\ (PolicyChange \cap committed' # {} => failures' = 0 /\ old' = 0)
MCSpec == MaintenanceInit /\ [][MCNext]_maintenanceVars /\ MaintenanceFairness
============================================================================
