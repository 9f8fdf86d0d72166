----------------------- MODULE ManagedHostsRefinement -----------------------
(* SyncLifecycle implements ManagedHosts.                                   *)
EXTENDS SyncLifecycle

\* The host a run has created and not linked yet is the one between host.create
\* and the save of the custom field (create_in_zabbix).
Making == {<<cur[d], hid[d]>> : d \in {e \in Deployments : pc[e] = "createSave"}}

Managed == INSTANCE ManagedHosts
    WITH host <- zbx, making <- Making, lost <- orphans, byHand <- handDeleted

\* Every step of the runs and of people, crashes and refusals included, is a step
\* that ManagedHosts allows, or leaves hosts and links alone: created hosts get
\* linked or are lost, links follow their host, and the tool deletes no host but
\* a linked or a lost one (create_in_zabbix, cleanup, _cleanup_deleted_hosts,
\* adopt_existing_zabbix_host, consistency_check).
ImplementsManagedHosts == Managed!Spec
=============================================================================
