----------------------------- MODULE DualHosts -----------------------------
(***************************************************************************)
(* A VMware VM or an ESXi device and its two Zabbix hosts: the dedicated   *)
(* one, which the tool creates and manages and device_cf names, and the one *)
(* that Zabbix low-level discovery (LLD) created, which a second custom    *)
(* field names and which the tool only enriches.                           *)
(*                                                                         *)
(* One source is followed through run after run while discovery comes and  *)
(* goes, people create and delete hosts, edit the two fields and switch    *)
(* the dual-host option.  A save of the NetBox object writes both fields   *)
(* as the run knows them.                                                  *)
(*                                                                         *)
(* Abstractions: host macros and tags are entries under a key, owned by    *)
(* discovery, by NetBox or by people; a host has one name; a refused call  *)
(* and a killed process are one action, for both end the handling of the   *)
(* source; the record stays in NetBox, ownership tags are in SyncLifecycle. *)
(***************************************************************************)
EXTENDS Naturals, FiniteSets

CONSTANTS
    Kinds,                 \* what the source may be: "vm", "esxi"
    Hosts, NoHost,         \* Zabbix host ids; the empty custom field
    Names, ShortName,      \* host names, and each without its domain
    MyName,                \* the name of the source
    InScope,               \* adopt_existing_hosts, with the source in adopt_scope
    AdoptFqdn,             \* adopt_fqdn_normalization
    MetadataOnly,          \* adopt_enrich_mode = "metadata_only"
    Partial,               \* usermacro_sync = "partial"
    Keys, NetBoxKeys,      \* of macros and tags; those NetBox has a value for
    MaxEdits,              \* bound on what people and discovery do
    MaxFaults              \* bound on refused calls and killed runs

ASSUME KindsAssumption == Kinds \subseteq {"vm", "esxi"}
ASSUME HostsAssumption == NoHost \notin Hosts
ASSUME NamesAssumption == ShortName \in [Names -> Names] /\ MyName \in Names
ASSUME KeysAssumption  == NetBoxKeys \subseteq Keys
ASSUME OptionAssumption == {InScope, AdoptFqdn, MetadataOnly, Partial} \subseteq BOOLEAN
ASSUME BoundAssumption == MaxEdits \in Nat /\ MaxFaults \in Nat

VARIABLES
    kind,                  \* of the source
    mode,                  \* by its status: to be synced or to be removed
    dual,                  \* the option that names the second field
    clearStale,            \* clear_stale_zabbix_hostids, which a run finds as it is set
    link, lld,             \* device_cf and the second field, in NetBox
    handLld,               \* history: ids that people put into the second field and
                           \* that were of no discovered host then
    zbx, name, disc,       \* of a host: existence, name, made by discovery?
    entries,               \* of a host: the owner of the entry under each key
    pc,                    \* the call the run makes next
    myMode, myDual,        \* the status and the option as the run began
    myLink, myLld,         \* the two fields in the run's copy of the record
    adopted,               \* did this run adopt the primary host
    target, seen,          \* the discovered host at hand, as host.get returned it
    outcome,               \* how the last run ended
    edits, faults          \* how much of each bound is spent

fields  == <<link, lld, handLld>>
zabbix  == <<zbx, name, disc, entries>>
reading == <<myMode, myDual, myLink, myLld, adopted>>
merge   == <<target, seen>>
spent   == <<edits, faults>>
vars    == <<kind, mode, dual, clearStale, fields, zabbix, pc, reading, merge, outcome, spent>>

\* The option is not set, names a field the object has, or one it lacks.
Duals   == {"off", "on", "broken"}
Owners  == {"none", "auto", "netbox", "hand"}
PCs     == {"idle", "repair", "repairSave", "next", "remove", "removeSave", "check",
            "rename", "staleSave", "mergeMain", "adopt", "adoptSave", "create", "createSave",
            "lld", "lldSave", "lldRead", "enrich"}

TypeOK ==
    /\ kind \in Kinds /\ mode \in {"sync", "retire"}
    /\ dual \in Duals /\ clearStale \in BOOLEAN
    /\ {link, lld, myLink, myLld, target} \subseteq Hosts \cup {NoHost}
    /\ handLld \subseteq Hosts
    /\ zbx \in [Hosts -> {"unused", "live", "gone"}]
    /\ name \in [Hosts -> Names] /\ disc \in [Hosts -> BOOLEAN]
    /\ entries \in [Hosts -> [Keys -> Owners]]
    /\ pc \in PCs
    /\ myMode \in {"sync", "retire"} /\ myDual \in Duals
    /\ adopted \in BOOLEAN /\ seen \in [Keys -> Owners]
    /\ outcome \in {"none", "synced", "skipped", "failed", "removed"}
    /\ edits \in 0..MaxEdits /\ faults \in 0..MaxFaults
-----------------------------------------------------------------------------
Live(h) == h \in Hosts /\ zbx[h] = "live"
NameTaken(n) == \E h \in Hosts : Live(h) /\ name[h] = n

\* _uses_esxi_dual_host_mode asks for the adoption scope too, the VM's does not.
\* A broken option is an option all the same.
Dual(d) == d # "off" /\ (kind = "esxi" => InScope)

\* _find_unique_existing_zabbix_host: the hosts that go by the source's name.
Alike(h) == Live(h) /\ \/ name[h] = MyName
                       \/ AdoptFqdn /\ ShortName[name[h]] = ShortName[MyName]
Namesakes == {h \in Hosts : Alike(h)}
Dedicated(hs)  == {h \in hs : ~disc[h]}

Nothing == [k \in Keys |-> "none"]

MergedAsManual(e) ==
    [k \in Keys |-> IF e[k] = "auto" THEN "manual" ELSE IF k \in NetBoxKeys THEN "netbox"
                    ELSE IF Partial THEN e[k] ELSE "none"]

\* _sync_discovered_macros and _sync_discovered_tags: what discovery owns stays,
\* a value of NetBox under such a key is left out, and what people added goes
\* unless macros are merged.
Merged(e) == [k \in Keys |-> IF e[k] = "auto" THEN "auto"
                             ELSE IF k \in NetBoxKeys THEN "netbox"
                             ELSE IF Partial THEN e[k] ELSE "none"]

Goto(l) == pc' = l
End(how) ==
    /\ pc' = "idle" /\ outcome' = how
    /\ myMode' = "sync" /\ myDual' = "off" /\ myLink' = NoHost /\ myLld' = NoHost
    /\ adopted' = FALSE /\ target' = NoHost /\ seen' = Nothing

\* self.nb.save(): the custom fields as the run has them.
Save(l, m) == /\ link' = l /\ lld' = m /\ myLink' = l /\ myLld' = m
              /\ UNCHANGED handLld

KeepRecord == UNCHANGED <<kind, mode, dual, clearStale>>
KeepRun    == UNCHANGED <<merge, outcome, spent>>
-----------------------------------------------------------------------------
(* One run.                                                                 *)

StartRun ==
    /\ pc = "idle"
    /\ myMode' = mode /\ myDual' = dual /\ myLink' = link /\ myLld' = lld
    /\ outcome' = "none"
    /\ Goto(IF kind = "vm" /\ link # NoHost THEN "repair" ELSE "next")
    /\ KeepRecord /\ UNCHANGED <<fields, zabbix, adopted, merge, spent>>

\* repair_vmware_vm_lld_host_link: is the primary link that of a discovered
\* host, and may it move to the second field?
LinkIsDiscoveredInSync == Live(myLink) /\ disc[myLink] /\ myMode = "sync"
LinkIsDiscovered == Live(myLink) /\ disc[myLink]
MayMove == myDual = "on" /\ myLld \in {NoHost, myLink}

NothingToRepair ==
    /\ pc = "repair"
    /\ ~LinkIsDiscovered
    /\ Goto("next")
    /\ KeepRecord /\ KeepRun /\ UNCHANGED <<fields, zabbix, reading>>

FindMisplaced ==
    /\ pc = "repair"
    /\ LinkIsDiscovered /\ MayMove
    /\ Goto("repairSave")
    /\ KeepRecord /\ KeepRun /\ UNCHANGED <<fields, zabbix, reading>>

\* Left as it is; the source is not reconciled, nor removed.
RepairImpossible ==
    /\ pc = "repair"
    /\ LinkIsDiscovered /\ ~MayMove
    /\ End("skipped")
    /\ KeepRecord /\ UNCHANGED <<fields, zabbix, spent>>

MoveLinkKeepingPrimary ==
    /\ pc = "repairSave"
    /\ Save(myLink, myLink)
    /\ Goto("next")
    /\ KeepRecord /\ KeepRun /\ UNCHANGED <<zabbix, myMode, myDual, adopted>>

\* Both fields in one save.
MoveLink ==
    /\ pc = "repairSave"
    /\ Save(NoHost, myLink)
    /\ Goto("next")
    /\ KeepRecord /\ KeepRun /\ UNCHANGED <<zabbix, myMode, myDual, adopted>>

SkipRetired ==
    /\ pc = "next"
    /\ myMode = "retire" /\ myLink = NoHost
    /\ End("skipped")
    /\ KeepRecord /\ UNCHANGED <<fields, zabbix, spent>>

Turn ==
    /\ pc = "next"
    /\ myMode = "sync" \/ myLink # NoHost
    /\ Goto(IF myMode = "retire" THEN "remove"
            ELSE IF myLink # NoHost THEN "check" ELSE "adopt")
    /\ KeepRecord /\ KeepRun /\ UNCHANGED <<fields, zabbix, reading>>

\* cleanup() deletes the primary host, and empties the primary field alone.
RemoveHost ==
    /\ pc = "remove"
    /\ zbx' = [zbx EXCEPT ![myLink] = "gone"]
    /\ Goto("removeSave")
    /\ KeepRecord /\ KeepRun /\ UNCHANGED <<fields, name, disc, entries, reading>>

Unlink ==
    /\ pc = "removeSave"
    /\ link' = NoHost /\ lld' = myLld
    /\ End("removed")
    /\ KeepRecord /\ UNCHANGED <<handLld, zabbix, spent>>

\* consistency_check: a dedicated host is brought in line, its name first,
\* unless this run adopted it for its metadata only; a discovered one is merged.
CheckDedicated ==
    /\ pc = "check"
    /\ Live(myLink) /\ ~disc[myLink]
    /\ Goto(IF name[myLink] = MyName \/ (adopted /\ MetadataOnly) THEN "lld" ELSE "rename")
    /\ KeepRecord /\ KeepRun /\ UNCHANGED <<fields, zabbix, reading>>

RenameMain ==
    /\ pc = "rename"
    /\ Live(myLink) /\ ~NameTaken(MyName)
    /\ name' = [name EXCEPT ![myLink] = MyName]
    /\ Goto("lld")
    /\ KeepRecord /\ KeepRun /\ UNCHANGED <<fields, zbx, disc, entries, reading>>

\* The host is gone by now, or another one, discovered or not, has the name.
RenameRefused ==
    /\ pc = "rename"
    /\ ~Live(myLink) \/ NameTaken(MyName)
    /\ End("failed")
    /\ KeepRecord /\ UNCHANGED <<fields, zabbix, spent>>

CheckDiscovered ==
    /\ pc = "check"
    /\ Live(myLink) /\ disc[myLink]
    /\ target' = myLink /\ seen' = entries[myLink]
    /\ Goto("mergeMain")
    /\ KeepRecord /\ UNCHANGED <<fields, zabbix, reading, outcome, spent>>

FindStale ==
    /\ pc = "check"
    /\ ~Live(myLink) /\ clearStale
    /\ Goto("staleSave")
    /\ KeepRecord /\ KeepRun /\ UNCHANGED <<fields, zabbix, reading>>

StaleFails ==
    /\ pc = "check"
    /\ ~Live(myLink) /\ ~clearStale
    /\ End("failed")
    /\ KeepRecord /\ UNCHANGED <<fields, zabbix, spent>>

ClearStaleLink ==
    /\ pc = "staleSave"
    /\ Save(NoHost, myLld)
    /\ Goto(IF adopted THEN "create" ELSE "adopt")
    /\ KeepRecord /\ KeepRun /\ UNCHANGED <<zabbix, myMode, myDual, adopted>>

\* adopt_existing_zabbix_host: one namesake; not a discovered one when there is
\* a field for those, and for a VMware VM in no case.
AdoptablesAnyHost == IF InScope THEN Namesakes ELSE {}
Adoptables == IF ~InScope THEN {}
              ELSE IF Dual(myDual) THEN Dedicated(Namesakes) ELSE Namesakes
MayAdopt == Cardinality(Adoptables) = 1
            /\ \A h \in Adoptables : disc[h] => ~Dual(myDual) /\ kind # "vm"

FindMain ==
    /\ pc = "adopt"
    /\ MayAdopt
    /\ \E h \in Adoptables : myLink' = h
    /\ Goto("adoptSave")
    /\ KeepRecord /\ KeepRun /\ UNCHANGED <<fields, zabbix, myMode, myDual, myLld, adopted>>

FindNone ==
    /\ pc = "adopt"
    /\ ~MayAdopt
    /\ Goto("create")
    /\ KeepRecord /\ KeepRun /\ UNCHANGED <<fields, zabbix, reading>>

AdoptMain ==
    /\ pc = "adoptSave"
    /\ Save(myLink, myLld)
    /\ adopted' = TRUE
    /\ Goto("check")
    /\ KeepRecord /\ KeepRun /\ UNCHANGED <<zabbix, myMode, myDual>>

\* create_in_zabbix: a host of that name, discovered or not, is in the way.
CreateMain == \E h \in Hosts :
    /\ pc = "create"
    /\ ~NameTaken(MyName)
    /\ zbx[h] = "unused"
    /\ zbx' = [zbx EXCEPT ![h] = "live"]
    /\ name' = [name EXCEPT ![h] = MyName]
    /\ myLink' = h
    /\ Goto("createSave")
    /\ KeepRecord /\ KeepRun
    /\ UNCHANGED <<fields, disc, entries, myMode, myDual, myLld, adopted>>

CreateRefused ==
    /\ pc = "create"
    /\ NameTaken(MyName) \/ \A h \in Hosts : zbx[h] # "unused"
    /\ End("skipped")
    /\ KeepRecord /\ UNCHANGED <<fields, zabbix, spent>>

SaveMain ==
    /\ pc = "createSave"
    /\ Save(myLink, myLld)
    /\ Goto("lld")
    /\ KeepRecord /\ KeepRun /\ UNCHANGED <<zabbix, myMode, myDual, adopted>>

\* sync_adopted_lld_host, once the primary host is in place.
NoDual ==
    /\ pc = "lld"
    /\ ~Dual(myDual)
    /\ End("synced")
    /\ KeepRecord /\ UNCHANGED <<fields, zabbix, spent>>

FieldMissing ==
    /\ pc = "lld"
    /\ Dual(myDual) /\ myDual = "broken"
    /\ End("failed")
    /\ KeepRecord /\ UNCHANGED <<fields, zabbix, spent>>

KnownLld ==
    /\ pc = "lld"
    /\ Dual(myDual) /\ myDual = "on" /\ myLld # NoHost
    /\ Goto("lldRead")
    /\ KeepRecord /\ KeepRun /\ UNCHANGED <<fields, zabbix, reading>>

\* The one namesake besides the primary host, if discovery made it.
OthersAll == Namesakes
Others == Namesakes \ {myLink}
FindLld ==
    /\ pc = "lld"
    /\ Dual(myDual) /\ myDual = "on" /\ myLld = NoHost
    /\ \E h \in Hosts : Others = {h} /\ disc[h] /\ myLld' = h
    /\ Goto("lldSave")
    /\ KeepRecord /\ KeepRun /\ UNCHANGED <<fields, zabbix, myMode, myDual, myLink, adopted>>

NoLld ==
    /\ pc = "lld"
    /\ Dual(myDual) /\ myDual = "on" /\ myLld = NoHost
    /\ ~\E h \in Hosts : Others = {h} /\ disc[h]
    /\ End("synced")
    /\ KeepRecord /\ UNCHANGED <<fields, zabbix, spent>>

SaveLld ==
    /\ pc = "lldSave"
    /\ Save(myLink, myLld)
    /\ Goto("lldRead")
    /\ KeepRecord /\ KeepRun /\ UNCHANGED <<zabbix, myMode, myDual, adopted>>

ReadLld ==
    /\ pc = "lldRead"
    /\ Live(myLld) /\ disc[myLld]
    /\ target' = myLld /\ seen' = entries[myLld]
    /\ Goto("enrich")
    /\ KeepRecord /\ UNCHANGED <<fields, zabbix, reading, outcome, spent>>

\* The field names no host, or one that discovery did not make: a warning.
LldUnusable ==
    /\ pc = "lldRead"
    /\ ~(Live(myLld) /\ disc[myLld])
    /\ End("synced")
    /\ KeepRecord /\ UNCHANGED <<fields, zabbix, spent>>

\* The entries are replaced by the merge of those read, unless nothing differs.
WriteMerge ==
    \/ Merged(seen) = seen /\ UNCHANGED zabbix
    \/ /\ Merged(seen) # seen /\ Live(target)
       /\ entries' = [entries EXCEPT ![target] = Merged(seen)]
       /\ UNCHANGED <<zbx, name, disc>>

MergeMainInFull ==
    /\ pc = "mergeMain"
    /\ WriteMerge
    /\ target' = NoHost /\ seen' = Nothing
    /\ Goto(IF name[myLink] = MyName THEN "lld" ELSE "rename")
    /\ KeepRecord /\ UNCHANGED <<fields, reading, outcome, spent>>

\* full_sync = False: nothing else of a discovered host is brought in line.
MergeMain ==
    /\ pc = "mergeMain"
    /\ WriteMerge
    /\ target' = NoHost /\ seen' = Nothing
    /\ Goto("lld")
    /\ KeepRecord /\ UNCHANGED <<fields, reading, outcome, spent>>

Enrich ==
    /\ pc = "enrich"
    /\ WriteMerge
    /\ End("synced")
    /\ KeepRecord /\ UNCHANGED <<fields, spent>>

MergeRefused ==
    /\ pc \in {"mergeMain", "enrich"}
    /\ Merged(seen) # seen /\ ~Live(target)
    /\ End("failed")
    /\ KeepRecord /\ UNCHANGED <<fields, zabbix, spent>>

\* Any call may be refused, and the process killed at any point.
RunFails ==
    /\ pc # "idle"
    /\ faults < MaxFaults /\ faults' = faults + 1
    /\ End("failed")
    /\ KeepRecord /\ UNCHANGED <<fields, zabbix, edits>>
-----------------------------------------------------------------------------
(* Discovery and people.                                                    *)

Edit == /\ edits < MaxEdits /\ edits' = edits + 1
        /\ UNCHANGED <<kind, pc, reading, merge, outcome, faults>>

Discover == \E h \in Hosts, n \in Names, ks \in SUBSET Keys :
    /\ Edit
    /\ zbx[h] = "unused" /\ ~NameTaken(n)
    /\ zbx' = [zbx EXCEPT ![h] = "live"]
    /\ name' = [name EXCEPT ![h] = n]
    /\ disc' = [disc EXCEPT ![h] = TRUE]
    /\ entries' = [entries EXCEPT ![h] = [k \in Keys |-> IF k \in ks THEN "auto" ELSE "none"]]
    /\ UNCHANGED <<mode, dual, clearStale, fields>>

\* A host prototype gains a macro or a tag.
Rediscover == \E h \in Hosts, k \in Keys :
    /\ Edit
    /\ Live(h) /\ disc[h] /\ entries[h][k] # "auto"
    /\ entries' = [entries EXCEPT ![h][k] = "auto"]
    /\ UNCHANGED <<mode, dual, clearStale, fields, zbx, name, disc>>

\* Discovery no longer finds it, or people delete it.
LoseHost == \E h \in Hosts :
    /\ Edit
    /\ Live(h)
    /\ zbx' = [zbx EXCEPT ![h] = "gone"]
    /\ UNCHANGED <<mode, dual, clearStale, fields, name, disc, entries>>

HandCreate == \E h \in Hosts, n \in Names :
    /\ Edit
    /\ zbx[h] = "unused" /\ ~NameTaken(n)
    /\ zbx' = [zbx EXCEPT ![h] = "live"]
    /\ name' = [name EXCEPT ![h] = n]
    /\ UNCHANGED <<mode, dual, clearStale, fields, disc, entries>>

HandEntry == \E h \in Hosts, k \in Keys :
    /\ Edit
    /\ Live(h) /\ disc[h] /\ entries[h][k] \in {"none", "netbox"}
    /\ entries' = [entries EXCEPT ![h][k] = "hand"]
    /\ UNCHANGED <<mode, dual, clearStale, fields, zbx, name, disc>>

Configure == \E d \in Duals \ {dual} :
    /\ Edit
    /\ dual' = d
    /\ UNCHANGED <<mode, clearStale, fields, zabbix>>

\* Between runs, for a run has read its options.
SwitchClearing ==
    /\ Edit
    /\ pc = "idle"
    /\ clearStale' = ~clearStale
    /\ UNCHANGED <<mode, dual, fields, zabbix>>

ChangeStatus ==
    /\ Edit
    /\ mode' = IF mode = "sync" THEN "retire" ELSE "sync"
    /\ UNCHANGED <<dual, clearStale, fields, zabbix>>

\* The migration of README.md: the id of the LLD host goes to the second field.
Migrate ==
    /\ Edit
    /\ link # NoHost /\ disc[link]
    /\ link' = NoHost /\ lld' = link
    /\ UNCHANGED <<mode, dual, clearStale, handLld, zabbix>>

\* The second field is filled by hand, with whatever id, or emptied.
SetLld == \E h \in Hosts \cup {NoHost} :
    /\ Edit
    /\ lld # h /\ lld' = h
    /\ handLld' = handLld \cup {g \in Hosts : g = h /\ ~disc[g]}
    /\ UNCHANGED <<mode, dual, clearStale, link, zabbix>>

\* Discovery may have been there first, and the source linked to its host by a
\* version or an option without dual hosts.
Init ==
    /\ kind \in Kinds /\ mode = "sync"
    /\ dual \in Duals /\ clearStale \in BOOLEAN
    /\ link \in Hosts \cup {NoHost} /\ lld = NoHost /\ handLld = {}
    /\ zbx = [h \in Hosts |-> IF h = link THEN "live" ELSE "unused"]
    /\ \E n \in Names : name = [h \in Hosts |-> IF h = link THEN n ELSE MyName]
    /\ disc = [h \in Hosts |-> h = link]
    /\ \E ks \in SUBSET Keys :
           entries = [h \in Hosts |-> [k \in Keys |->
                          IF h = link /\ k \in ks THEN "auto" ELSE "none"]]
    /\ pc = "idle" /\ outcome = "none"
    /\ myMode = "sync" /\ myDual = "off" /\ myLink = NoHost /\ myLld = NoHost
    /\ adopted = FALSE /\ target = NoHost /\ seen = Nothing
    /\ edits = 0 /\ faults = 0

RunStep ==
    \/ StartRun \/ NothingToRepair \/ FindMisplaced \/ RepairImpossible \/ MoveLink
    \/ SkipRetired \/ Turn \/ RemoveHost \/ Unlink
    \/ CheckDedicated \/ RenameMain \/ RenameRefused \/ CheckDiscovered \/ MergeMain
    \/ FindStale \/ StaleFails \/ ClearStaleLink
    \/ FindMain \/ FindNone \/ AdoptMain \/ CreateMain \/ CreateRefused \/ SaveMain
    \/ NoDual \/ FieldMissing \/ KnownLld \/ FindLld \/ NoLld \/ SaveLld
    \/ ReadLld \/ LldUnusable \/ Enrich \/ MergeRefused

WorldStep ==
    \/ Discover \/ Rediscover \/ LoseHost \/ HandCreate \/ HandEntry
    \/ Configure \/ SwitchClearing \/ ChangeStatus \/ Migrate \/ SetLld

Next == RunStep \/ RunFails \/ WorldStep

Spec == Init /\ [][Next]_vars
\* The schedule starts a run again and again, and a started run goes on.
FairSpec == Spec /\ WF_vars(RunStep)
-----------------------------------------------------------------------------
(* Safety.                                                                  *)

\* A run over a VMware VM with dual hosts ends with a primary host that is not
\* of discovery, and the second field names another host; the same one only if
\* people put an id there that was of no discovered host, which the run warns of
\* and leaves (repair_vmware_vm_lld_host_link, adopt_existing_zabbix_host,
\* sync_adopted_lld_host).
HostsAreKeptApart ==
    [][pc # "idle" /\ outcome' = "synced" /\ kind = "vm" /\ myDual = "on"
          => ~disc[myLink] /\ (myLink = myLld => myLld \in handLld)]_vars

\* A run leaves to discovery what discovery made: no step of it renames a
\* discovered host or drops an entry of discovery that a merge had read, and for
\* a VMware VM none deletes such a host, not even when the VM is retired while
\* its primary link still names it.  A retired ESXi device has its primary host
\* deleted whoever made it (cleanup).
DiscoveredHostsAreKept ==
    [][\A h \in Hosts : Live(h) /\ disc[h] /\ edits' = edits =>
          /\ name'[h] = name[h]
          /\ kind = "vm" => zbx'[h] = "live"
          /\ \A k \in Keys : entries[h][k] = "auto" /\ (h = target => seen[k] = "auto")
                => entries'[h][k] = "auto"]_vars
-----------------------------------------------------------------------------
(* Liveness, once people, discovery and failures leave the system alone.    *)

\* No host stands in the way of creating or adopting the dedicated one, and the
\* second field is not taken by another host than the one to be moved there.
WayIsClear ==
    /\ \A h \in Hosts : Live(h) /\ name[h] = MyName =>
           InScope /\ Dedicated(Namesakes) = {h}
    /\ \E h \in Hosts : zbx[h] = "unused"
    /\ lld = NoHost \/ lld = link \/ link = NoHost \/ ~disc[link]

\* A VMware VM ends up with a dedicated host of its own, also when its primary
\* link named a discovered host to begin with, wherever runs were cut short.
DedicatedHostIsInPlace ==
    <>[](kind = "vm" /\ mode = "sync" /\ dual = "on" /\ clearStale /\ WayIsClear
            => Live(link) /\ ~disc[link])

\* Its name is free for it: a refused renaming ends every run before the second
\* host's turn.
HasDedicated == /\ mode = "sync" /\ Dual(dual) /\ dual = "on"
                /\ Live(link) /\ ~disc[link]
                /\ \A h \in Hosts \ {link} : Live(h) => name[h] # MyName

\* The discovered host, if it alone goes by the name besides the dedicated one,
\* is linked as well, and what NetBox has for it arrives there.
LldHostIsEnriched ==
    <>[](/\ HasDedicated /\ (\E h \in Hosts : Namesakes \ {link} = {h} /\ disc[h])
            => lld # NoHost)
    /\ <>[](HasDedicated /\ Live(lld) /\ disc[lld]
            => \A k \in NetBoxKeys : entries[lld][k] \in {"auto", "netbox"})

\* The second field names the discovered host that is there now.
LldLinkIsCurrent ==
    <>[](HasDedicated => \A h \in Hosts :
            Namesakes \ {link} = {h} /\ disc[h] => lld = h)
=============================================================================
