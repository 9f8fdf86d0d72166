--------------------------- MODULE SyncLifecycle ---------------------------
(***************************************************************************)
(* The life of the Zabbix hosts that netbox-zabbix-sync manages.           *)
(*                                                                         *)
(* A deployment is one configuration of the tool with a cleanup_instance_id *)
(* of its own; deployments share one Zabbix server.  Sync.start() of a     *)
(* deployment reads NetBox once, then handles its sources (a device, the   *)
(* OOB import of a device, a VM, an ONTAP cluster) one after the other, and *)
(* ends with the pass that deletes the marked hosts of vanished sources.   *)
(* Every action below is what happens between two API calls whose order    *)
(* with the other deployments, or with people editing NetBox and Zabbix,   *)
(* matters.  Runs of one deployment do not overlap, and a record is         *)
(* imported by one deployment only.                                        *)
(*                                                                         *)
(* Abstractions: a host is an id, its technical name and the sources whose *)
(* ownership tags it carries (one tag pair per source, so two members are  *)
(* the "ambiguous" tags of the code); templates, groups, interfaces and    *)
(* the other settings are not here, only that preparing them may fail; no  *)
(* host is created by Zabbix discovery; Azure tenants are not here.        *)
(***************************************************************************)
EXTENDS Naturals, FiniteSets

CONSTANTS
    Deployments,           \* configurations of the tool sharing the Zabbix server
    Records,               \* NetBox objects: devices, VMs and clusters
    Sources,               \* imports of a record: the ownership marker "type:id"
    RecordOf,              \* the record a source belongs to
    DeploymentOf,          \* the deployment that imports a source
    OOBSources,            \* the sources that are OOB imports of a device
    ClusterSources,        \* the sources that are ONTAP clusters
    Names,                 \* host names
    ShortName,             \* a name without its domain
    Hosts,                 \* Zabbix host ids; Zabbix never hands one out twice
    NoHost, NoSource,      \* the empty custom field; no target at hand
    AdoptExisting,         \* the deployments with adopt_existing_hosts on, and every
                           \* object in adopt_scope
    AdoptFqdn,             \* those with adopt_fqdn_normalization
    MetadataOnly,          \* with adopt_enrich_mode = "metadata_only"
    ClearStale,            \* with clear_stale_zabbix_hostids
    CleanupDeleted,        \* with cleanup_deleted_hosts
    TagSync,               \* with tag_sync
    MaxEdits,              \* bound on changes by people in NetBox and Zabbix
    MaxFaults,             \* bound on refused API calls
    MaxCrashes             \* bound on runs that end early

ASSUME MappingAssumption ==
    /\ RecordOf \in [Sources -> Records]
    /\ DeploymentOf \in [Sources -> Deployments]
    /\ ShortName \in [Names -> Names]
    /\ OOBSources \subseteq Sources
    /\ ClusterSources \subseteq Sources
    /\ \A s, t \in Sources :
          RecordOf[s] = RecordOf[t] => DeploymentOf[s] = DeploymentOf[t]
ASSUME NoneAssumption == NoHost \notin Hosts /\ NoSource \notin Sources
ASSUME NamesAssumption == Names # {}
ASSUME OptionAssumption ==
    {AdoptExisting, AdoptFqdn, MetadataOnly, ClearStale, CleanupDeleted, TagSync}
        \subseteq SUBSET Deployments
ASSUME BoundAssumption == MaxEdits \in Nat /\ MaxFaults \in Nat /\ MaxCrashes \in Nat

VARIABLES
    life, mode,            \* of a record: does it exist, how do filters and status treat it
    import, name,          \* of a source: can it be imported, and under which name
    link,                  \* of a source: its host-id custom field
    zbx, hostName, marks,  \* of a host: its existence, name and ownership tags
    pc,                    \* of a deployment: the call its run makes next
    task, wanted,          \* of a source: what the run's reading of NetBox asks for
    todo, synced,          \* of a run: sources not handled yet, sources reported synced
    cur, hid,              \* of a run: the source at hand and its zabbix_id
    linkedBefore, adopted, \* of a run: linked_before_run and adopted of that source
    seenName, seenMarks,   \* of a run: the host as its last host.get returned it
    ids, doomed,           \* of a run: existing NetBox ids, hosts the cleanup goes through
    orphans,               \* history: hosts created by a run that never saved the link
    handDeleted,           \* history: hosts deleted in Zabbix by people
    edits, faults, crashes \* how much of each bound is spent

netbox == <<life, mode, import, name, link>>
zabbix == <<zbx, hostName, marks>>
target == <<cur, hid, linkedBefore, adopted>>
lookup == <<seenName, seenMarks>>
plan   == <<task, wanted>>
sweep  == <<ids, doomed>>
past   == <<orphans, handDeleted>>
spent  == <<edits, faults, crashes>>
vars   == <<netbox, zabbix, pc, plan, todo, synced, target, lookup, sweep, past, spent>>

Lives   == {"new", "live", "gone"}
Modes   == {"selected", "retired", "excluded", "passed"}
Imports == {"usable", "unusable", "absent"}
Tasks   == {"sync", "retire", "exclude", "leave"}

\* The calls at which a source is at hand, and those of the cleanup pass.
TargetPCs  == {"remove", "unlink", "check", "rename", "mark",
               "adopt", "adoptSave", "create", "createSave"}
CleanupPCs == {"ids", "hosts", "clusters", "sweep", "clear"}
PCs        == {"idle", "next"} \cup TargetPCs \cup CleanupPCs

NetBoxTypeOK ==
    /\ life \in [Records -> Lives]
    /\ mode \in [Records -> Modes]
    /\ import \in [Sources -> Imports]
    /\ name \in [Sources -> Names]
    /\ link \in [Sources -> Hosts \cup {NoHost}]
ZabbixTypeOK ==
    /\ zbx \in [Hosts -> {"unused", "live", "gone"}]
    /\ hostName \in [Hosts -> Names]
    /\ marks \in [Hosts -> SUBSET Sources]
RunTypeOK ==
    /\ pc \in [Deployments -> PCs]
    /\ task \in [Sources -> Tasks]
    /\ wanted \in [Sources -> Names]
    /\ todo \in [Deployments -> SUBSET Sources]
    /\ synced \in [Deployments -> SUBSET Sources]
TargetTypeOK ==
    /\ cur \in [Deployments -> Sources \cup {NoSource}]
    /\ hid \in [Deployments -> Hosts \cup {NoHost}]
    /\ linkedBefore \in [Deployments -> BOOLEAN]
    /\ adopted \in [Deployments -> BOOLEAN]
    /\ seenName \in [Deployments -> Names]
    /\ seenMarks \in [Deployments -> SUBSET Sources]
SweepTypeOK ==
    /\ ids \in [Deployments -> SUBSET Sources]
    /\ doomed \in [Deployments -> SUBSET (Hosts \X Sources)]
PastTypeOK ==
    /\ orphans \subseteq Hosts
    /\ handDeleted \subseteq Hosts
    /\ edits \in 0..MaxEdits
    /\ faults \in 0..MaxFaults
    /\ crashes \in 0..MaxCrashes

TypeOK == /\ NetBoxTypeOK /\ ZabbixTypeOK /\ RunTypeOK
          /\ TargetTypeOK /\ SweepTypeOK /\ PastTypeOK
-----------------------------------------------------------------------------
AnyName   == CHOOSE n \in Names : TRUE  \* the name of what has none yet
Mine(d)   == {s \in Sources : DeploymentOf[s] = d}
Live(h)   == h \in Hosts /\ zbx[h] = "live"
Exists(s) == life[RecordOf[s]] = "live"

\* Zabbix keeps the technical names of its hosts distinct.
NameTaken(n, h) == \E g \in Hosts \ {h} : Live(g) /\ hostName[g] = n

\* A custom-field filter rejects the record, for all its sources.
Excluded(s) == Exists(s) /\ mode[RecordOf[s]] = "excluded"

\* The run leaves what an API filter leaves out, what lacks an IP, a template or
\* an OOB context, and all but the primary member of a virtual chassis.
Importable(s) == Exists(s) /\ mode[RecordOf[s]] # "passed" /\ import[s] = "usable"

\* The status is one of zabbix_device_removal.
ToRemove(s) == mode[RecordOf[s]] = "retired"

\* What start() makes of a source.
TaskOf(s) == IF Excluded(s) THEN "exclude"
             ELSE IF ~Importable(s) THEN "leave"
             ELSE IF ToRemove(s) THEN "retire" ELSE "sync"

AlikeShortOnly(d, n) ==
    d \in AdoptFqdn /\ ShortName[n] = ShortName[wanted[cur[d]]] /\ n # wanted[cur[d]]

\* The names adoption takes for that of the source at hand, and their hosts.
Alike(d, n) ==
    \/ n = wanted[cur[d]]
    \/ d \in AdoptFqdn /\ ShortName[n] = ShortName[wanted[cur[d]]]
Matches(d) == {h \in Hosts : Live(h) /\ Alike(d, hostName[h])}

\* host.get by the zabbix_id at hand found no host.
MissingOrUnreadable(d) == hid[d] \in Hosts
Missing(d) == ~Live(hid[d])

\* Everything NetBox holds, whatever the configured filters.
InventoryFiltered(d) == {s \in Mine(d) : TaskOf(s) = "sync"}
InventoryEver(d)     == {s \in Mine(d) : life[RecordOf[s]] # "new"}
Inventory(d)         == {s \in Mine(d) : Exists(s)}

\* One source value, and one instance value, on the host: both this source's.
OwnedOrUntagged(h, s) == marks[h] \subseteq {s}
OwnedBy(h, s)         == marks[h] = {s}

\* A source that is there keeps its host, unless a custom-field filter excluded
\* it when the run began.
CondemnedAbsent(s, there) == s \notin there
Condemned(s, there)       == s \notin there \/ task[s] = "exclude"

\* The call a run makes first for a source.
FirstCallAnyStatus(s) == IF link[s] # NoHost THEN "check" ELSE "adopt"
FirstCall(s) == IF task[s] = "retire" THEN "remove"
                ELSE IF link[s] # NoHost THEN "check" ELSE "adopt"

\* cleanup_ownership of consistency_check.
MarksOwn(d) == d \in CleanupDeleted /\ (linkedBefore[d] \/ ~adopted[d])

Goto(d, l) == pc' = [pc EXCEPT ![d] = l]

\* The run is done with the source at hand and turns to the next one.
Settle(d) ==
    /\ Goto(d, "next")
    /\ cur' = [cur EXCEPT ![d] = NoSource]
    /\ hid' = [hid EXCEPT ![d] = NoHost]
    /\ linkedBefore' = [linkedBefore EXCEPT ![d] = FALSE]
    /\ adopted' = [adopted EXCEPT ![d] = FALSE]
    /\ seenMarks' = [seenMarks EXCEPT ![d] = {}]
    /\ seenName' = [seenName EXCEPT ![d] = AnyName]

ReportSyncedHost(d) == synced' = [synced EXCEPT ![d] = @ \cup {hid[d]}]
ReportSynced(d) == synced' = [synced EXCEPT ![d] = @ \cup {cur[d]}]

\* The run is over, in whatever way: the process keeps nothing.
Leave(d) ==
    /\ Goto(d, "idle")
    /\ cur' = [cur EXCEPT ![d] = NoSource]
    /\ hid' = [hid EXCEPT ![d] = NoHost]
    /\ linkedBefore' = [linkedBefore EXCEPT ![d] = FALSE]
    /\ adopted' = [adopted EXCEPT ![d] = FALSE]
    /\ seenMarks' = [seenMarks EXCEPT ![d] = {}]
    /\ todo' = [todo EXCEPT ![d] = {}]
    /\ ids' = [ids EXCEPT ![d] = {}]
    /\ doomed' = [doomed EXCEPT ![d] = {}]
    /\ task' = [s \in Sources |-> IF s \in Mine(d) THEN "leave" ELSE task[s]]
    /\ seenName' = [seenName EXCEPT ![d] = AnyName]
    /\ UNCHANGED wanted

Init ==
    /\ life \in [Records -> {"new", "live"}]
    /\ mode \in [Records -> Modes]
    /\ import \in [Sources -> Imports]
    /\ \A s \in Sources \ OOBSources : import[s] # "absent"
    /\ name \in [Sources -> Names]
    /\ link = [s \in Sources |-> NoHost]
    /\ zbx = [h \in Hosts |-> "unused"]
    /\ hostName = [h \in Hosts |-> AnyName]
    /\ marks = [h \in Hosts |-> {}]
    /\ pc = [d \in Deployments |-> "idle"]
    /\ task = [s \in Sources |-> "leave"]
    /\ wanted = name
    /\ todo = [d \in Deployments |-> {}]
    /\ synced = [d \in Deployments |-> {}]
    /\ cur = [d \in Deployments |-> NoSource]
    /\ hid = [d \in Deployments |-> NoHost]
    /\ linkedBefore = [d \in Deployments |-> FALSE]
    /\ adopted = [d \in Deployments |-> FALSE]
    /\ seenName = [d \in Deployments |-> AnyName]
    /\ seenMarks = [d \in Deployments |-> {}]
    /\ ids = [d \in Deployments |-> {}]
    /\ doomed = [d \in Deployments |-> {}]
    /\ orphans = {} /\ handDeleted = {}
    /\ edits = 0 /\ faults = 0 /\ crashes = 0
-----------------------------------------------------------------------------
(* One run of a deployment: reading NetBox, then one source at a time.      *)

\* start() reads the records and works from this reading to its end.
StartRun(d) ==
    /\ pc[d] = "idle"
    /\ Goto(d, "next")
    /\ task' = [s \in Sources |-> IF s \in Mine(d) THEN TaskOf(s) ELSE task[s]]
    /\ wanted' = [s \in Sources |-> IF s \in Mine(d) THEN name[s] ELSE wanted[s]]
    /\ todo' = [todo EXCEPT ![d] = {s \in Mine(d) : TaskOf(s) \in {"sync", "retire"}}]
    /\ synced' = [synced EXCEPT ![d] = {}]
    /\ UNCHANGED <<netbox, zabbix, target, lookup, sweep, past, spent>>

\* A status in zabbix_device_removal and no host: nothing to remove.
SkipRetired(d) == \E s \in todo[d] :
    /\ pc[d] = "next"
    /\ task[s] = "retire" /\ link[s] = NoHost
    /\ todo' = [todo EXCEPT ![d] = @ \ {s}]
    /\ UNCHANGED <<netbox, zabbix, pc, plan, synced, target, lookup, sweep, past, spent>>

\* The link was read with the record; only this run writes it.
Take(d) == \E s \in todo[d] :
    /\ pc[d] = "next"
    /\ task[s] = "sync" \/ link[s] # NoHost
    /\ todo' = [todo EXCEPT ![d] = @ \ {s}]
    /\ cur' = [cur EXCEPT ![d] = s]
    /\ hid' = [hid EXCEPT ![d] = link[s]]
    /\ linkedBefore' = [linkedBefore EXCEPT ![d] = link[s] # NoHost]
    /\ Goto(d, FirstCall(s))
    /\ UNCHANGED <<netbox, zabbix, plan, synced, adopted, lookup, sweep, past, spent>>

\* cleanup(): the host is deleted unless host.get no longer finds it ...
RemoveHost(d) ==
    /\ pc[d] = "remove"
    /\ zbx' = [zbx EXCEPT ![hid[d]] = "gone"]
    /\ Goto(d, "unlink")
    /\ UNCHANGED <<netbox, hostName, marks, plan, todo, synced, target, lookup, sweep,
                   past, spent>>

\* ... and the custom field emptied, if NetBox still has the record to save.
Unlink(d) ==
    /\ pc[d] = "unlink"
    /\ Exists(cur[d])
    /\ link' = [link EXCEPT ![cur[d]] = NoHost]
    /\ Settle(d)
    /\ UNCHANGED <<life, mode, import, name, zabbix, plan, todo, synced, sweep, past, spent>>

\* consistency_check reads the linked host: what it compares with from here on.
CheckHost(d) ==
    /\ pc[d] = "check"
    /\ Live(hid[d])
    /\ seenName' = [seenName EXCEPT ![d] = hostName[hid[d]]]
    /\ seenMarks' = [seenMarks EXCEPT ![d] = marks[hid[d]]]
    /\ Goto(d, IF adopted[d] /\ d \in MetadataOnly THEN "mark" ELSE "rename")
    /\ UNCHANGED <<netbox, zabbix, plan, todo, synced, target, sweep, past, spent>>

\* The linked host is gone and clear_stale_zabbix_hostids is set.
ClearStaleLink(d) ==
    /\ pc[d] = "check"
    /\ Missing(d) /\ d \in ClearStale
    /\ Exists(cur[d])
    /\ link' = [link EXCEPT ![cur[d]] = NoHost]
    /\ hid' = [hid EXCEPT ![d] = NoHost]
    /\ Goto(d, IF adopted[d] THEN "create" ELSE "adopt")
    /\ UNCHANGED <<life, mode, import, name, zabbix, plan, todo, synced, cur,
                   linkedBefore, adopted, lookup, sweep, past, spent>>

\* The linked host is gone and the option is off: SyncInventoryError.
StaleLinkFails(d) ==
    /\ pc[d] = "check"
    /\ Missing(d) /\ d \notin ClearStale
    /\ Settle(d)
    /\ UNCHANGED <<netbox, zabbix, plan, todo, synced, sweep, past, spent>>

\* host.update(host=...) when the name read differs from the wanted one.
RenameHost(d) ==
    /\ pc[d] = "rename"
    /\ \/ /\ seenName[d] = wanted[cur[d]]
          /\ UNCHANGED hostName
       \/ /\ seenName[d] # wanted[cur[d]]
          /\ Live(hid[d]) /\ ~NameTaken(wanted[cur[d]], hid[d])
          /\ hostName' = [hostName EXCEPT ![hid[d]] = wanted[cur[d]]]
    /\ Goto(d, "mark")
    /\ UNCHANGED <<netbox, zbx, marks, plan, todo, synced, target, lookup, sweep, past, spent>>

\* Zabbix refuses the name of another host, and to update a deleted one.
RenameRefused(d) ==
    /\ pc[d] = "rename"
    /\ seenName[d] # wanted[cur[d]]
    /\ ~Live(hid[d]) \/ NameTaken(wanted[cur[d]], hid[d])
    /\ Settle(d)
    /\ UNCHANGED <<netbox, zabbix, plan, todo, synced, sweep, past, spent>>

DesiredMarksAlone(d) == IF MarksOwn(d) THEN {cur[d]} ELSE {}

\* The tags to write: those read, and the ownership tags when they are due.
DesiredMarks(d) == seenMarks[d] \cup (IF MarksOwn(d) THEN {cur[d]} ELSE {})

\* With tag_sync the tags are also written when ordinary tags differ.
MarkHost(d) ==
    /\ pc[d] = "mark"
    /\ \/ /\ DesiredMarks(d) = seenMarks[d]
          /\ UNCHANGED marks
       \/ /\ DesiredMarks(d) # seenMarks[d] \/ d \in TagSync
          /\ Live(hid[d])
          /\ marks' = [marks EXCEPT ![hid[d]] = DesiredMarks(d)]
    /\ ReportSynced(d)
    /\ Settle(d)
    /\ UNCHANGED <<netbox, zbx, hostName, plan, todo, sweep, past, spent>>

\* The tags cannot be written: the host was deleted since it was read.
MarkRefused(d) ==
    /\ pc[d] = "mark"
    /\ DesiredMarks(d) # seenMarks[d] \/ d \in TagSync
    /\ ~Live(hid[d])
    /\ Settle(d)
    /\ UNCHANGED <<netbox, zabbix, plan, todo, synced, sweep, past, spent>>

\* Adoption whether or not adopt_existing_zabbix_hosts asks for it.
AdoptUnasked(d) ==
    /\ pc[d] = "adopt"
    /\ \E h \in Hosts : /\ Matches(d) = {h}
                       /\ hid' = [hid EXCEPT ![d] = h]
    /\ Goto(d, "adoptSave")
    /\ UNCHANGED <<netbox, zabbix, plan, todo, synced, cur, linkedBefore, adopted,
                   lookup, sweep, past, spent>>

\* adopt_existing_zabbix_host(): exactly one host of that name.
AdoptMatch(d) ==
    /\ pc[d] = "adopt"
    /\ d \in AdoptExisting
    /\ \E h \in Hosts : /\ Matches(d) = {h}
                       /\ hid' = [hid EXCEPT ![d] = h]
    /\ Goto(d, "adoptSave")
    /\ UNCHANGED <<netbox, zabbix, plan, todo, synced, cur, linkedBefore, adopted,
                   lookup, sweep, past, spent>>

AdoptNone(d) ==
    /\ pc[d] = "adopt"
    /\ d \in AdoptExisting => Cardinality(Matches(d)) # 1
    /\ Goto(d, "create")
    /\ UNCHANGED <<netbox, zabbix, plan, todo, synced, target, lookup, sweep, past, spent>>

\* The link is saved; the adopted host gets a consistency check of its own.
SaveAdoption(d) ==
    /\ pc[d] = "adoptSave"
    /\ Exists(cur[d])
    /\ link' = [link EXCEPT ![cur[d]] = hid[d]]
    /\ adopted' = [adopted EXCEPT ![d] = TRUE]
    /\ Goto(d, "check")
    /\ UNCHANGED <<life, mode, import, name, zabbix, plan, todo, synced, cur, hid,
                   linkedBefore, lookup, sweep, past, spent>>

\* create_in_zabbix(): host.create carries the ownership tags.
CreateHost(d) == \E h \in Hosts :
    /\ pc[d] = "create"
    /\ zbx[h] = "unused"
    /\ ~NameTaken(wanted[cur[d]], h)
    /\ zbx' = [zbx EXCEPT ![h] = "live"]
    /\ hostName' = [hostName EXCEPT ![h] = wanted[cur[d]]]
    /\ marks' = [marks EXCEPT ![h] = IF d \in CleanupDeleted THEN {cur[d]} ELSE {}]
    /\ hid' = [hid EXCEPT ![d] = h]
    /\ Goto(d, "createSave")
    /\ UNCHANGED <<netbox, plan, todo, synced, cur, linkedBefore, adopted, lookup,
                   sweep, past, spent>>

\* A host of that name exists: not created, reported without NetBox linkage.
\* The bound on host ids shows as Zabbix refusing to create one more.
CreateRefused(d) ==
    /\ pc[d] = "create"
    /\ \/ \E h \in Hosts : Live(h) /\ hostName[h] = wanted[cur[d]]
       \/ \A h \in Hosts : zbx[h] # "unused"
    /\ Settle(d)
    /\ UNCHANGED <<netbox, zabbix, plan, todo, synced, sweep, past, spent>>

SaveCreation(d) ==
    /\ pc[d] = "createSave"
    /\ Exists(cur[d])
    /\ link' = [link EXCEPT ![cur[d]] = hid[d]]
    /\ ReportSynced(d)
    /\ Settle(d)
    /\ UNCHANGED <<life, mode, import, name, zabbix, plan, todo, sweep, past, spent>>
-----------------------------------------------------------------------------
(* Failures of a run.                                                       *)

\* A host created by this run whose id has not been saved.
Unsaved(d) == IF pc[d] = "createSave" THEN {hid[d]} ELSE {}

\* The record vanished: NetBox refuses to save it.  Adoption reports that for
\* the source alone; every other save lets the error end the whole run.
AdoptionRefused(d) ==
    /\ pc[d] = "adoptSave"
    /\ ~Exists(cur[d])
    /\ Settle(d)
    /\ UNCHANGED <<netbox, zabbix, plan, todo, synced, sweep, past, spent>>

AbortRun(d) ==
    /\ \/ pc[d] \in {"unlink", "createSave"}
       \/ pc[d] = "check" /\ Missing(d) /\ d \in ClearStale
    /\ ~Exists(cur[d])
    /\ orphans' = orphans \cup Unsaved(d)
    /\ Leave(d)
    /\ UNCHANGED <<netbox, zabbix, synced, handDeleted, spent>>

\* A SyncError (a refused Zabbix call, a missing template or host group) is
\* caught in start(): the source failed, the run goes on.
TargetFails(d) ==
    /\ pc[d] \in TargetPCs \ {"unlink", "createSave"}
    /\ faults < MaxFaults
    /\ faults' = faults + 1
    /\ Settle(d)
    /\ UNCHANGED <<netbox, zabbix, plan, todo, synced, sweep, past, edits, crashes>>

\* The process is killed, or an error start() does not catch ends the run.
RunDies(d) ==
    /\ pc[d] # "idle"
    /\ crashes < MaxCrashes
    /\ crashes' = crashes + 1
    /\ orphans' = orphans \cup Unsaved(d)
    /\ Leave(d)
    /\ UNCHANGED <<netbox, zabbix, synced, handDeleted, edits, faults>>
-----------------------------------------------------------------------------
(* _cleanup_deleted_hosts: the end of every run.                            *)

\* Without cleanup_deleted_hosts the run ends with its last source.
FinishWithoutCleanup(d) ==
    /\ pc[d] = "next" /\ todo[d] = {} /\ d \notin CleanupDeleted
    /\ Leave(d)
    /\ UNCHANGED <<netbox, zabbix, synced, past, spent>>

BeginCleanup(d) ==
    /\ pc[d] = "next" /\ todo[d] = {} /\ d \in CleanupDeleted
    /\ Goto(d, "ids")
    /\ UNCHANGED <<netbox, zabbix, plan, todo, synced, target, lookup, sweep, past, spent>>

\* All devices and VMs NetBox has, whatever the filters ...
FetchIds(d) ==
    /\ pc[d] = "ids"
    /\ ids' = [ids EXCEPT ![d] = Inventory(d) \ ClusterSources]
    /\ Goto(d, "hosts")
    /\ UNCHANGED <<netbox, zabbix, plan, todo, synced, target, lookup, doomed, past, spent>>

\* ... then the hosts with this deployment's tag, less the ambiguous ones ...
FetchHosts(d) ==
    /\ pc[d] = "hosts"
    /\ doomed' = [doomed EXCEPT ![d] =
           {p \in Hosts \X Mine(d) : Live(p[1]) /\ OwnedBy(p[1], p[2])}]
    /\ Goto(d, "clusters")
    /\ UNCHANGED <<netbox, zabbix, plan, todo, synced, target, lookup, ids, past, spent>>

\* ... then the clusters, and with them all it takes to tell what to delete.
FetchClusters(d) ==
    /\ pc[d] = "clusters"
    /\ LET there == ids[d] \cup (Inventory(d) \cap ClusterSources)
       IN  /\ ids' = [ids EXCEPT ![d] = there]
           /\ doomed' = [doomed EXCEPT ![d] = {p \in @ : Condemned(p[2], there)}]
    /\ Goto(d, "sweep")
    /\ UNCHANGED <<netbox, zabbix, plan, todo, synced, target, lookup, past, spent>>

\* An answer that cannot be had makes the pass skip everything.
CleanupSkipped(d) ==
    /\ pc[d] \in {"ids", "hosts", "clusters"}
    /\ faults < MaxFaults
    /\ faults' = faults + 1
    /\ Leave(d)
    /\ UNCHANGED <<netbox, zabbix, synced, past, edits, crashes>>

\* host.delete by the id fetched; nothing is looked up again before it.
ReapHost(d) == \E p \in doomed[d] :
    /\ pc[d] = "sweep"
    /\ Live(p[1])
    /\ zbx' = [zbx EXCEPT ![p[1]] = "gone"]
    /\ doomed' = [doomed EXCEPT ![d] = @ \ {p}]
    /\ IF task[p[2]] = "exclude"
         THEN /\ cur' = [cur EXCEPT ![d] = p[2]]
              /\ hid' = [hid EXCEPT ![d] = p[1]]
              /\ Goto(d, "clear")
         ELSE UNCHANGED <<cur, hid, pc>>
    /\ UNCHANGED <<netbox, hostName, marks, plan, todo, synced, linkedBefore, adopted,
                   lookup, ids, past, spent>>

\* Deleted by somebody else since: an API error, the host is passed over.
ReapRefused(d) == \E p \in doomed[d] :
    /\ pc[d] = "sweep"
    /\ ~Live(p[1])
    /\ doomed' = [doomed EXCEPT ![d] = @ \ {p}]
    /\ UNCHANGED <<netbox, zabbix, pc, plan, todo, synced, target, lookup, ids, past, spent>>

ReapFails(d) == \E p \in doomed[d] :
    /\ pc[d] = "sweep"
    /\ faults < MaxFaults
    /\ faults' = faults + 1
    /\ doomed' = [doomed EXCEPT ![d] = @ \ {p}]
    /\ UNCHANGED <<netbox, zabbix, pc, plan, todo, synced, target, lookup, ids, past,
                   edits, crashes>>

BackToSweep(d) ==
    /\ Goto(d, "sweep")
    /\ cur' = [cur EXCEPT ![d] = NoSource]
    /\ hid' = [hid EXCEPT ![d] = NoHost]

\* _clear_filter_excluded_host_link: only a link to the host just deleted.
ClearLink(d) ==
    /\ pc[d] = "clear"
    /\ link[cur[d]] = hid[d] => Exists(cur[d])
    /\ link' = [link EXCEPT ![cur[d]] = IF @ = hid[d] THEN NoHost ELSE @]
    /\ BackToSweep(d)
    /\ UNCHANGED <<life, mode, import, name, zabbix, plan, todo, synced, linkedBefore,
                   adopted, lookup, sweep, past, spent>>

\* The save fails, for a vanished record or otherwise: recorded, no retry.
ClearFails(d) ==
    /\ pc[d] = "clear"
    /\ link[cur[d]] = hid[d]
    /\ \/ ~Exists(cur[d]) /\ UNCHANGED faults
       \/ faults < MaxFaults /\ faults' = faults + 1
    /\ BackToSweep(d)
    /\ UNCHANGED <<netbox, zabbix, plan, todo, synced, linkedBefore, adopted, lookup,
                   sweep, past, edits, crashes>>

FinishRun(d) ==
    /\ pc[d] = "sweep" /\ doomed[d] = {}
    /\ Leave(d)
    /\ UNCHANGED <<netbox, zabbix, synced, past, spent>>
-----------------------------------------------------------------------------
(* People at work in NetBox and Zabbix.                                     *)

Edit == edits < MaxEdits /\ edits' = edits + 1
KeepTheRest == UNCHANGED <<pc, plan, todo, synced, target, lookup, sweep, faults, crashes>>

AddRecord(r) ==
    /\ Edit
    /\ life[r] = "new"
    /\ life' = [life EXCEPT ![r] = "live"]
    /\ KeepTheRest
    /\ UNCHANGED <<mode, import, name, link, zabbix, past>>

DeleteRecord(r) ==
    /\ Edit
    /\ life[r] = "live"
    /\ life' = [life EXCEPT ![r] = "gone"]
    /\ KeepTheRest
    /\ UNCHANGED <<mode, import, name, link, zabbix, past>>

\* A new status, or another answer to the filters.
ChangeMode(r) == \E m \in Modes \ {mode[r]} :
    /\ Edit
    /\ life[r] = "live"
    /\ mode' = [mode EXCEPT ![r] = m]
    /\ KeepTheRest
    /\ UNCHANGED <<life, import, name, link, zabbix, past>>

\* Addresses, templates and OOB contexts come and go.
ChangeImport(s) == \E i \in Imports \ {import[s]} :
    /\ Edit
    /\ Exists(s)
    /\ i = "absent" => s \in OOBSources
    /\ import' = [import EXCEPT ![s] = i]
    /\ KeepTheRest
    /\ UNCHANGED <<life, mode, name, link, zabbix, past>>

Rename(s) == \E n \in Names \ {name[s]} :
    /\ Edit
    /\ Exists(s)
    /\ name' = [name EXCEPT ![s] = n]
    /\ KeepTheRest
    /\ UNCHANGED <<life, mode, import, link, zabbix, past>>

HandDelete(h) ==
    /\ Edit
    /\ Live(h)
    /\ zbx' = [zbx EXCEPT ![h] = "gone"]
    /\ handDeleted' = handDeleted \cup {h}
    /\ KeepTheRest
    /\ UNCHANGED <<netbox, hostName, marks, orphans>>

HandCreate(h) == \E n \in Names :
    /\ Edit
    /\ zbx[h] = "unused"
    /\ ~NameTaken(n, h)
    /\ zbx' = [zbx EXCEPT ![h] = "live"]
    /\ hostName' = [hostName EXCEPT ![h] = n]
    /\ KeepTheRest
    /\ UNCHANGED <<netbox, marks, past>>
-----------------------------------------------------------------------------
\* What a run does when no call is refused beyond what the state implies.
RunStep(d) ==
    \/ StartRun(d) \/ SkipRetired(d) \/ Take(d)
    \/ RemoveHost(d) \/ Unlink(d)
    \/ CheckHost(d) \/ ClearStaleLink(d) \/ StaleLinkFails(d)
    \/ RenameHost(d) \/ RenameRefused(d) \/ MarkHost(d) \/ MarkRefused(d)
    \/ AdoptMatch(d) \/ AdoptNone(d) \/ SaveAdoption(d) \/ AdoptionRefused(d)
    \/ CreateHost(d) \/ CreateRefused(d) \/ SaveCreation(d) \/ AbortRun(d)
    \/ FinishWithoutCleanup(d) \/ BeginCleanup(d)
    \/ FetchIds(d) \/ FetchHosts(d) \/ FetchClusters(d)
    \/ ReapHost(d) \/ ReapRefused(d) \/ ClearLink(d) \/ ClearFails(d)
    \/ FinishRun(d)

FailStep(d) == TargetFails(d) \/ RunDies(d) \/ CleanupSkipped(d) \/ ReapFails(d)

NetBoxEdit == \/ \E r \in Records : AddRecord(r) \/ DeleteRecord(r) \/ ChangeMode(r)
              \/ \E s \in Sources : ChangeImport(s) \/ Rename(s)

ZabbixEdit == \E h \in Hosts : HandDelete(h) \/ HandCreate(h)

Next == \/ \E d \in Deployments : RunStep(d) \/ FailStep(d)
        \/ NetBoxEdit \/ ZabbixEdit

Spec == Init /\ [][Next]_vars

\* A scheduler starts the tool again and again, and a started run goes on.
Fairness == \A d \in Deployments : WF_vars(RunStep(d))

FairSpec == Spec /\ Fairness
-----------------------------------------------------------------------------
(* Safety.                                                                  *)

\* The host h is accounted for by s: linked, about to be, or a known orphan.
InFlight(s, h) == \E d \in Deployments :
                      pc[d] = "createSave" /\ cur[d] = s /\ hid[d] = h
Held(s, h) == link[s] = h \/ h \in orphans \/ InFlight(s, h)

\* A host that carries the ownership tags of a source is the host that source
\* links to, or one whose creating run ended before it saved the link.  So at
\* most one host per source can be lost to the cleanup for each such run
\* (create_in_zabbix, consistency_check, adopt_existing_zabbix_host).
OwnedHostIsLinked ==
    \A h \in Hosts : \A s \in marks[h] : Live(h) => Held(s, h)

\* The link to a host that still exists is never emptied and never redirected,
\* by no run and no failure: unlinking always comes after the host is gone
\* (cleanup, the stale-id path of consistency_check, the link clearing).
LinkToLiveHostIsKept ==
    [][\A s \in Sources :
          link[s] # NoHost /\ zbx'[link[s]] = "live" => link'[s] = link[s]]_vars

\* The hosts the cleanup is about to delete belong to sources that NetBox no
\* longer has or that a custom-field filter excluded, however much was added
\* or deleted since the run began and between the cleanup's three queries.
ReapedSourceIsGone ==
    \A d \in Deployments : pc[d] = "sweep" =>
        \A p \in doomed[d] : life[RecordOf[p[2]]] = "gone" \/ task[p[2]] = "exclude"

\* A source that the last run reported as synced, and that NetBox still has,
\* is linked to a host, which exists unless a person deleted it.
SyncedSourceHasHost ==
    \A d \in Deployments : \A s \in synced[d] :
        Exists(s) => link[s] # NoHost /\ (Live(link[s]) \/ link[s] \in handDeleted)

\* A run changes, tags or deletes only hosts that are linked to a source or
\* that a run created: what people add to Zabbix is left alone until adopted.
RunsTouchOnlyTheirHosts ==
    [][\A h \in Hosts :
          Live(h) /\ edits' = edits
            /\ <<zbx[h], hostName[h], marks[h]>> # <<zbx'[h], hostName'[h], marks'[h]>>
          => h \in orphans \/ \E s \in Sources : link[s] = h]_vars

\* Ownership tags outlive every later tag update of their host: writing the
\* tags of one source does not drop those of another
\* (_tags_preserving_cleanup_ownership).
MarksArePreserved ==
    [][\A h \in Hosts : Live(h) => marks[h] \subseteq marks'[h]]_vars

\* The consistency check that follows an adoption does not add the ownership
\* tags of the adopting source (cleanup_ownership in _process_device).
AdoptedHostIsNotMarked ==
    [][\A d \in Deployments :
          pc[d] = "mark" /\ adopted[d] /\ cur[d] \notin marks[hid[d]]
          => cur[d] \notin marks'[hid[d]]]_vars

\* Two sources are never linked to the same existing host: retiring one would
\* delete the host of the other.  It holds while links come from host.create
\* alone (create_in_zabbix).  Adoption looks up names only, never whether another
\* source has the host already (adopt_existing_zabbix_host), so with adoption on
\* sources whose names differ in the domain alone break this.
HostsAreNotShared ==
    \A s, t \in Sources : s # t /\ link[s] = link[t] => ~Live(link[s])
-----------------------------------------------------------------------------
(* Liveness, once people and failures leave the system alone.               *)

\* With adoption and stale-link clearing on, a source that is to be synced ends
\* up linked to an existing host, whatever was deleted and wherever runs died.
SelectedGetsHosted ==
    \A s \in Sources : <>[](TaskOf(s) = "sync" => Live(link[s]))

\* A host marked for a source alone is deleted once NetBox drops the source.
VanishedGetsReaped ==
    \A s \in Sources, h \in Hosts :
        (Live(h) /\ marks[h] = {s} /\ life[RecordOf[s]] = "gone") ~> ~Live(h)

\* A host marked for a source alone is deleted once a custom-field filter keeps
\* excluding the source; a device takes its OOB import with it.
ExcludedGetsReaped ==
    \A s \in Sources, h \in Hosts :
        (Live(h) /\ marks[h] = {s} /\ TaskOf(s) = "exclude")
            ~> (~Live(h) \/ TaskOf(s) # "exclude")

\* A source with a removal status loses its host, and then its link.
RetiredGetsRemoved ==
    \A s \in Sources, h \in Hosts :
        (TaskOf(s) = "retire" /\ link[s] = h)
            ~> (TaskOf(s) # "retire" \/ (~Live(h) /\ link[s] = NoHost))

\* A host marked for an OOB import is deleted once the device drops the import.
DroppedImportGetsReaped ==
    \A s \in OOBSources, h \in Hosts :
        (Live(h) /\ marks[h] = {s} /\ import[s] = "absent")
            ~> (~Live(h) \/ import[s] # "absent")
=============================================================================
